--------------------------- MODULE PollingService ---------------------------
(***************************************************************************)
(* The life of ApiPollingUpdateService in a browser tab: started by login, *)
(* stopped by logout or by itself after repeated failures.  setInterval    *)
(* fires a poll every "interval" ms without waiting for the one before, so *)
(* polls overlap when the server or the network is slow.  A poll awaits    *)
(* two fetches in turn, conversations and messages; the expert queue is    *)
(* never fetched, because ChatServiceContext sets the role 'user' and      *)
(* fetchExpertQueueUpdates asks for 'expert'.                              *)
(***************************************************************************)
EXTENDS Naturals, FiniteSets

CONSTANTS
  Polls,        \* polls that may be in flight at once (bound on the overlap)
  MaxRetries    \* state.maxRetries

ASSUME PollsAssumption   == IsFiniteSet(Polls)
ASSUME RetriesAssumption == MaxRetries \in Nat \ {0}

VARIABLES
  loggedIn,     \* isAuthenticated: user context set, handlers registered
  running,      \* isRunningFlag, and with it the interval timer
  awaiting,     \* awaiting[p]: the fetch poll p waits for, or "idle"
  retryCount,   \* state.retryCount
  online,       \* whether requests can succeed
  overlap       \* history: polls in flight when the latest poll was fired

vars == <<loggedIn, running, awaiting, retryCount, online, overlap>>

InFlight == {p \in Polls : awaiting[p] # "idle"}

Init ==
  /\ loggedIn = FALSE
  /\ running = FALSE
  /\ awaiting = [p \in Polls |-> "idle"]
  /\ retryCount = 0
  /\ online = TRUE
  /\ overlap = 0

\* Mutant: logging out leaves the timer running.
LogoutWithoutStop ==
  /\ loggedIn
  /\ loggedIn' = FALSE
  /\ UNCHANGED <<running, awaiting, retryCount, online, overlap>>

\* Mutant: logging in starts the service only once.
LoginStartingOnce ==
  /\ ~loggedIn
  /\ loggedIn' = TRUE
  /\ running' = (running \/ overlap = 0)
  /\ UNCHANGED <<awaiting, retryCount, online, overlap>>

\* setUserContext and startServices; start() does nothing if it is running.
Login ==
  /\ ~loggedIn
  /\ loggedIn' = TRUE
  /\ running' = TRUE
  /\ UNCHANGED <<awaiting, retryCount, online, overlap>>

\* clearUserContext and stopServices; polls in flight are not cancelled.
Logout ==
  /\ loggedIn
  /\ loggedIn' = FALSE
  /\ running' = FALSE
  /\ UNCHANGED <<awaiting, retryCount, online, overlap>>

\* Mutant: the retry count is not reset.
FireWithoutReset(p) ==
  /\ running
  /\ awaiting[p] = "idle"
  /\ awaiting' = [awaiting EXCEPT ![p] = "conversations"]
  /\ overlap' = Cardinality(InFlight) + 1
  /\ UNCHANGED <<loggedIn, running, retryCount, online>>

\* The timer fires pollForUpdates: the retry count is reset before anything
\* has been asked, and the first fetch is sent.
Fire(p) ==
  /\ running
  /\ awaiting[p] = "idle"
  /\ retryCount' = 0
  /\ awaiting' = [awaiting EXCEPT ![p] = "conversations"]
  /\ overlap' = Cardinality(InFlight) + 1
  /\ UNCHANGED <<loggedIn, running, online>>

\* A fetch answers.  After logout the handlers are gone and the poll ends
\* without sending the next one.
Answer(p) ==
  /\ online
  /\ awaiting[p] # "idle"
  /\ awaiting' = [awaiting EXCEPT ![p] =
                    IF @ = "conversations" /\ loggedIn THEN "messages" ELSE "idle"]
  /\ UNCHANGED <<loggedIn, running, retryCount, online, overlap>>

\* A fetch rejects or is answered with an error: pollForUpdates catches it,
\* counts it and stops the service when the count reaches MaxRetries.
Fail(p) ==
  /\ awaiting[p] # "idle"
  /\ awaiting' = [awaiting EXCEPT ![p] = "idle"]
  /\ retryCount' = retryCount + 1
  /\ running' = (running /\ retryCount + 1 < MaxRetries)
  /\ UNCHANGED <<loggedIn, online, overlap>>

\* The network or the server goes away or comes back; an expired token has the
\* same effect.
ChangeNetwork ==
  /\ online' = ~online
  /\ UNCHANGED <<loggedIn, running, awaiting, retryCount, overlap>>

Next ==
  \/ Login
  \/ Logout
  \/ ChangeNetwork
  \/ \E p \in Polls : Fire(p) \/ Answer(p) \/ Fail(p)

Spec == Init /\ [][Next]_vars

\* The timer keeps firing, every fetch returns in the end (browsers time out),
\* and each of a poll's two fetches succeeds again and again if it can.
Fairness ==
  \A p \in Polls :
     /\ WF_vars(Fire(p))
     /\ WF_vars(Answer(p) \/ Fail(p))
     /\ \A fetch \in {"conversations", "messages"} :
          SF_vars(awaiting[p] = fetch /\ Answer(p))

FairSpec == Spec /\ Fairness

-----------------------------------------------------------------------------
(* Properties.                                                             *)

TypeOK ==
  /\ loggedIn \in BOOLEAN
  /\ running \in BOOLEAN
  /\ awaiting \in [Polls -> {"idle", "conversations", "messages"}]
  /\ retryCount \in 0 .. Cardinality(Polls)
  /\ online \in BOOLEAN
  /\ overlap \in 0 .. Cardinality(Polls)

\* Failures counted and failures that may still come never exceed the polls in
\* flight when the latest one was fired, although a logout, a login or a stop
\* may come at any moment: each Fire forgets the failures before it.
FailuresBounded == retryCount + Cardinality(InFlight) <= overlap

\* The service gives up by itself only when MaxRetries polls were in flight
\* together: failures of polls that follow one another never add up, and those
\* of an earlier login count only through polls that are still in flight.
GivesUpOnlyWhenOverlapping ==
  [][running /\ ~running' /\ loggedIn' => overlap >= MaxRetries]_vars

\* After the last logout no poll is fired and those in flight run out.
LogoutDrains == <>[]~loggedIn => <>[](InFlight = {})

\* An outage does no lasting harm: once the network is back for good and
\* somebody stays logged in, polls complete again and again, single failures
\* notwithstanding, unless MaxRetries polls overlapped and the service gave up.
KeepsPolling ==
  <>[](loggedIn /\ online) =>
     \/ []<><<\E p \in Polls : awaiting[p] = "messages" /\ Answer(p)>>_vars
     \/ <>[](~running /\ overlap >= MaxRetries)
=============================================================================

---------------------------- MODULE PollingProofs ----------------------------
(* Theorems about PollingService, for any number of polls and retries.     *)
EXTENDS PollingService, FiniteSetTheorems, TLAPS

\* Without a bound on the retry count: the types alone.
Shape ==
  /\ loggedIn \in BOOLEAN
  /\ running \in BOOLEAN
  /\ awaiting \in [Polls -> {"idle", "conversations", "messages"}]
  /\ retryCount \in Nat
  /\ online \in BOOLEAN
  /\ overlap \in 0 .. Cardinality(Polls)

IndInv == Shape /\ FailuresBounded

\* Polls in flight are finitely many, at most all there are.
LEMMA InFlightFinite ==
  /\ IsFiniteSet(InFlight)
  /\ Cardinality(InFlight) \in Nat
  /\ Cardinality(Polls) \in Nat
  /\ Cardinality(InFlight) <= Cardinality(Polls)
<1>1. InFlight \subseteq Polls
  BY DEF InFlight
<1> QED
  BY <1>1, PollsAssumption, FS_Subset, FS_CardinalityType

\* Firing a poll that is idle puts one more in flight.
LEMMA FireCounts ==
  ASSUME Shape, NEW p \in Polls, Fire(p)
  PROVE  Cardinality(InFlight') = Cardinality(InFlight) + 1
<1>1. InFlight' = InFlight \cup {p} /\ p \notin InFlight
  BY DEF Fire, InFlight, Shape
<1> QED
  BY <1>1, InFlightFinite, FS_AddElement

\* A poll that ends leaves one fewer in flight.
LEMMA EndCounts ==
  ASSUME Shape, NEW p \in Polls, awaiting[p] # "idle",
         awaiting' = [awaiting EXCEPT ![p] = "idle"]
  PROVE  Cardinality(InFlight') = Cardinality(InFlight) - 1
<1>1. InFlight' = InFlight \ {p} /\ p \in InFlight
  BY DEF InFlight, Shape
<1> QED
  BY <1>1, InFlightFinite, FS_RemoveElement

\* The invariant holds before anybody has logged in.
LEMMA IndInit == Init => IndInv
<1> SUFFICES ASSUME Init PROVE IndInv
  OBVIOUS
<1>1. InFlight = {}
  BY DEF Init, InFlight
<1>2. Cardinality(InFlight) = 0
  BY <1>1, FS_EmptySet
<1>3. FailuresBounded
  BY <1>2 DEF Init, FailuresBounded
<1>4. overlap \in 0 .. Cardinality(Polls)
  BY InFlightFinite DEF Init
<1>5. Shape
  BY <1>4 DEF Init, Shape
<1> QED
  BY <1>3, <1>5 DEF IndInv

\* Every step keeps the invariant: Fire makes both sides equal, Fail moves one
\* poll from "in flight" to "failed", and Answer can only let one go.
LEMMA IndStep == IndInv /\ [Next]_vars => IndInv'
<1> SUFFICES ASSUME IndInv, [Next]_vars PROVE IndInv'
  OBVIOUS
<1>0. Shape /\ retryCount + Cardinality(InFlight) <= overlap
  BY DEF IndInv, FailuresBounded
<1>1. CASE Login \/ Logout \/ ChangeNetwork \/ UNCHANGED vars
  <2>1. InFlight' = InFlight
    BY <1>1 DEF Login, Logout, ChangeNetwork, vars, InFlight
  <2>2. Shape'
    BY <1>0, <1>1 DEF Login, Logout, ChangeNetwork, vars, Shape
  <2> QED
    BY <1>0, <1>1, <2>1, <2>2
    DEF Login, Logout, ChangeNetwork, vars, IndInv, FailuresBounded
<1>2. ASSUME NEW p \in Polls, Fire(p) PROVE IndInv'
  <2>1. Cardinality(InFlight') = Cardinality(InFlight) + 1
    BY <1>0, <1>2, FireCounts
  <2>2. awaiting' \in [Polls -> {"idle", "conversations", "messages"}]
    BY <1>0, <1>2 DEF Fire, Shape
  <2>3. InFlight' \subseteq Polls
    BY DEF InFlight
  <2>4. Cardinality(InFlight') <= Cardinality(Polls)
    BY <2>3, PollsAssumption, FS_Subset
  <2> QED
    BY <1>0, <1>2, <2>1, <2>2, <2>4, InFlightFinite
    DEF Fire, Shape, IndInv, FailuresBounded
<1>3. ASSUME NEW p \in Polls, Answer(p) PROVE IndInv'
  <2>1. awaiting' \in [Polls -> {"idle", "conversations", "messages"}]
    BY <1>0, <1>3 DEF Answer, Shape
  <2>2. InFlight' \subseteq InFlight
    BY <1>0, <1>3 DEF Answer, InFlight, Shape
  <2>3. Cardinality(InFlight') <= Cardinality(InFlight)
        /\ Cardinality(InFlight') \in Nat
    BY <2>2, InFlightFinite, FS_Subset, FS_CardinalityType
  <2> QED
    BY <1>0, <1>3, <2>1, <2>3, InFlightFinite
    DEF Answer, Shape, IndInv, FailuresBounded
<1>4. ASSUME NEW p \in Polls, Fail(p) PROVE IndInv'
  <2>1. Cardinality(InFlight') = Cardinality(InFlight) - 1
    BY <1>0, <1>4, EndCounts DEF Fail
  <2>2. Shape'
    BY <1>0, <1>4 DEF Fail, Shape
  <2> QED
    BY <1>0, <1>4, <2>1, <2>2, InFlightFinite
    DEF Fail, Shape, IndInv, FailuresBounded
<1> QED
  BY <1>1, <1>2, <1>3, <1>4 DEF Next

\* The retry count is bounded by the overlap of the polls, whatever order they
\* are fired, answered, failed and stopped in.
THEOREM FailuresBoundedAlways == Spec => []FailuresBounded
<1>1. IndInv => FailuresBounded
  BY DEF IndInv
<1> QED
  BY <1>1, IndInit, IndStep, PTL DEF Spec

\* Every variable keeps its type, the retry count stays below the number of
\* polls there are.
THEOREM PollingTypeCorrect == Spec => []TypeOK
<1>1. IndInv => TypeOK
  BY InFlightFinite DEF IndInv, Shape, FailuresBounded, TypeOK
<1> QED
  BY <1>1, IndInit, IndStep, PTL DEF Spec

\* The service never stops itself because of failures of polls that followed
\* one another: MaxRetries of them were in flight together.
THEOREM GivesUpCorrect == Spec => GivesUpOnlyWhenOverlapping
<1>1. ASSUME IndInv, [Next]_vars
      PROVE  [running /\ ~running' /\ loggedIn' => overlap >= MaxRetries]_vars
  <2> SUFFICES ASSUME Next, running, ~running', loggedIn'
               PROVE  overlap >= MaxRetries
    BY <1>1
  <2>1. PICK p \in Polls : Fail(p)
    BY <1>1 DEF Next, Login, Logout, ChangeNetwork, Fire, Answer, IndInv, Shape
  <2>2. retryCount + 1 >= MaxRetries
    BY <1>1, <2>1, RetriesAssumption DEF Fail, IndInv, Shape
  <2>3. Cardinality(InFlight) >= 1
    <3>1. p \in InFlight
      BY <2>1 DEF Fail, InFlight
    <3>2. Cardinality(InFlight) # 0
      BY <3>1, InFlightFinite, FS_EmptySet
    <3> QED
      BY <3>2, InFlightFinite
  <2> QED
    BY <1>1, <2>2, <2>3, InFlightFinite, RetriesAssumption
    DEF IndInv, Shape, FailuresBounded
<1> QED
  BY <1>1, IndInit, IndStep, PTL DEF Spec, GivesUpOnlyWhenOverlapping
=============================================================================

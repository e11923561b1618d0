---------------------------- MODULE MessageFeed -----------------------------
(***************************************************************************)
(* How the messages of one conversation reach the list one browser shows.  *)
(*                                                                         *)
(* Three paths write the list: the polling service's updates (a cursor     *)
(* "since" and a callback per message), loadMessages (the whole            *)
(* conversation, replacing the list) and sendMessage (the server's answer, *)
(* appended).  Each is a request that the server answers at one moment and *)
(* the browser handles at a later one, and setInterval starts a poll       *)
(* whether or not the one before has returned.                             *)
(*                                                                         *)
(* Time is a count of ticks.  created_at keeps ticks; what the API prints  *)
(* (iso8601) and the browser sorts by and sends back as "since" keeps only *)
(* seconds.  Without a cursor the server looks one hour back: to any tick, *)
(* and never to an earlier one than for the answer before.                 *)
(***************************************************************************)
EXTENDS Integers, SequencesExt

CONSTANTS
  Messages,         \* the messages ever posted to the conversation
  Own,              \* those this browser posts with sendMessage
  Polls,            \* message polls that may be in flight at once
  Loads,            \* calls of loadMessages that may be in flight at once
  TicksPerSecond,   \* resolution of created_at
  MaxTick           \* bound: the last tick of the run

ASSUME OwnAssumption   == Own \subseteq Messages
ASSUME TicksAssumption == TicksPerSecond \in Nat \ {0} /\ MaxTick \in Nat

VARIABLES
  createdAt,   \* createdAt[m]: the tick of Message.new, or Unset
  row,         \* row[m]: "none", "inserting" or "committed"
  overtaken,   \* history: messages committed after a later one, and not handed over
  aged,        \* history: messages older than an hour when a poll without "since"
               \* was answered, and not handed over
  answered,    \* own messages whose POST has been answered to the browser
  cursor,      \* lastMessageUpdate, in seconds; Never before the first message
  polls,       \* polls[p]: idle, sent with "since", or answered with messages
  loads,       \* loads[l]: idle, or answered with the conversation's messages
  list,        \* messages[conversationId]: what the browser shows
  handedOver   \* history: messages the polling service gave to its callback

vars == <<createdAt, row, overtaken, aged, answered, cursor, polls, loads, list, handedOver>>

Unset == -1
Never == -1

\* Mutant: the API prints created_at to the nearest second above.
SecondRoundedUp(tick) == (tick + TicksPerSecond - 1) \div TicksPerSecond

\* created_at.iso8601 drops the fraction of the second.
Second(tick) == tick \div TicksPerSecond

Timestamp(m) == Second(createdAt[m])

Visible == {m \in Messages : row[m] = "committed"}

IdlePoll == [phase |-> "idle"]
SentPoll == [phase : {"sent"}, since : {Never} \cup 0 .. Second(MaxTick)]
AnsweredPoll == [phase : {"answered"}, updates : SUBSET Messages]

IdleLoad == [phase |-> "idle"]
AnsweredLoad == [phase : {"answered"}, snapshot : Seq(Messages)]

Init ==
  /\ createdAt  = [m \in Messages |-> Unset]
  /\ row        = [m \in Messages |-> "none"]
  /\ overtaken  = {}
  /\ aged       = {}
  /\ answered   = {}
  /\ cursor     = Never
  /\ polls      = [p \in Polls |-> IdlePoll]
  /\ loads      = [l \in Loads |-> IdleLoad]
  /\ list       = <<>>
  /\ handedOver = {}

-----------------------------------------------------------------------------
(* The server.                                                             *)

\* Message.save sets created_at; the row is invisible until its transaction,
\* which also updates the conversation's last_message_at, commits.  (Which of the
\* free names the message has makes no difference; CHOOSE gives it one.)
InsertMessage(m) ==
  /\ row[m] = "none"
  /\ m = CHOOSE n \in Messages : row[n] = "none" /\ (n \in Own <=> m \in Own)
  /\ \E tick \in 0 .. MaxTick :
       /\ \A other \in Messages : createdAt[other] < tick
       /\ createdAt' = [createdAt EXCEPT ![m] = tick]
  /\ row' = [row EXCEPT ![m] = "inserting"]
  /\ UNCHANGED <<overtaken, aged, answered, cursor, polls, loads, list, handedOver>>

\* (MySQL's lock on the conversation's row delays the commits of one conversation
\* until its holder's, but created_at is older than the lock: rows may become
\* visible in any order.)
CommitMessage(m) ==
  /\ row[m] = "inserting"
  /\ row' = [row EXCEPT ![m] = "committed"]
  /\ overtaken' = IF \E other \in Visible : createdAt[other] > createdAt[m]
                    THEN overtaken \cup {m} ELSE overtaken
  /\ UNCHANGED <<createdAt, aged, answered, cursor, polls, loads, list, handedOver>>

\* The transaction fails: a lock wait that times out, or a deadlock on the
\* conversation's row.  The row is gone; another message may be posted.
RollBackMessage(m) ==
  /\ row[m] = "inserting"
  /\ row' = [row EXCEPT ![m] = "none"]
  /\ createdAt' = [createdAt EXCEPT ![m] = Unset]
  /\ UNCHANGED <<overtaken, aged, answered, cursor, polls, loads, list, handedOver>>

\* Mutant: only the newest row is returned.
UpdatesSinceNewestOnly(cutoff) ==
  {m \in Visible : /\ createdAt[m] > cutoff
                   /\ \A other \in Visible : createdAt[other] <= createdAt[m]}

\* where("created_at > ?", since)
UpdatesSince(cutoff) == {m \in Visible : createdAt[m] > cutoff}

\* The elements of D, each once, by increasing key: the one at place k has k - 1
\* others before it.
Enumerate(D, key) ==
  [k \in 1 .. Cardinality(D) |->
     CHOOSE d \in D : Cardinality({x \in D : key[x] < key[d]}) = k - 1]

\* order(created_at: :asc)
ByCreation(S) == Enumerate(S, createdAt)

-----------------------------------------------------------------------------
(* The browser's list.                                                     *)

\* sort((a, b) => time(a) - time(b)) compares timestamps in seconds and is stable:
\* of two messages of one second the one that stood first stays first.
Chronological(s) ==
  LET key   == [i \in DOMAIN s |-> Timestamp(s[i]) * Len(s) + i]
      order == Enumerate(DOMAIN s, key)
  IN  [k \in DOMAIN s |-> s[order[k]]]

\* Mutant: no look whether the message is there.
MergeUpdatesUnchecked(s, updates) ==
  IF updates = {} THEN s ELSE Chronological(s \o ByCreation(updates))

\* Mutant: new messages are appended.
MergeUpdatesUnsorted(s, updates) == s \o ByCreation(updates \ ToSet(s))

\* handleMessageUpdate for each message of an answer in turn: one that is in
\* the list leaves it as it is (a message's content never changes), a new one
\* is appended and the list sorted.  Sorting stably after each equals sorting
\* once after all.
MergeUpdates(s, updates) ==
  LET new == updates \ ToSet(s)
  IN  IF new = {} THEN s ELSE Chronological(s \o ByCreation(new))

-----------------------------------------------------------------------------
(* The polling service: pollMessageUpdates and fetchMessageUpdates.        *)

\* The interval fires and the poll reaches the message request: "since" is
\* read from the state at this moment.
SendPoll(p) ==
  /\ polls[p] = IdlePoll
  /\ polls' = [polls EXCEPT ![p] = [phase |-> "sent", since |-> cursor]]
  /\ UNCHANGED <<createdAt, row, overtaken, aged, answered, cursor, loads, list, handedOver>>

\* Time.parse(params[:since]), or 1.hour.ago if there is none: any tick that has
\* been, but none before a message that was older than an hour already.
Cutoffs(since) ==
  IF since # Never THEN {since * TicksPerSecond}
  ELSE {tick \in {Unset} \cup {createdAt[m] : m \in Visible} :
          \A m \in aged : createdAt[m] <= tick}

\* Api::UpdatesController#messages.
AnswerPoll(p) ==
  LET since == polls[p].since IN
  /\ polls[p].phase = "sent"
  /\ UNCHANGED <<createdAt, row, overtaken, answered, cursor, loads, list, handedOver>>
  /\ \E cutoff \in Cutoffs(since) :
       /\ polls' = [polls EXCEPT ![p] =
                      [phase |-> "answered", updates |-> UpdatesSince(cutoff)]]
       /\ aged' = IF since # Never THEN aged
                  ELSE {m \in Visible \ handedOver : createdAt[m] <= cutoff}

\* Mutant: the latest timestamp of the answer is taken as it is.
HandlePollUncompared(p) ==
  /\ polls[p].phase = "answered"
  /\ polls' = [polls EXCEPT ![p] = IdlePoll]
  /\ handedOver' = handedOver \cup polls[p].updates
  /\ cursor' = IF polls[p].updates = {}
                 THEN cursor ELSE Max({Timestamp(m) : m \in polls[p].updates})
  /\ overtaken' = overtaken \ polls[p].updates
  /\ aged' = aged \ polls[p].updates
  /\ UNCHANGED <<createdAt, row, answered, loads>>
  /\ list' = MergeUpdates(list, polls[p].updates)

\* Mutant: the cursor is moved past the second of the latest message.
HandlePollPastSecond(p) ==
  /\ polls[p].phase = "answered"
  /\ polls' = [polls EXCEPT ![p] = IdlePoll]
  /\ handedOver' = handedOver \cup polls[p].updates
  /\ cursor' = Max({cursor} \cup {Timestamp(m) + 1 : m \in polls[p].updates})
  /\ overtaken' = overtaken \ polls[p].updates
  /\ aged' = aged \ polls[p].updates
  /\ UNCHANGED <<createdAt, row, answered, loads>>
  /\ list' = MergeUpdates(list, polls[p].updates)

\* The answer arrives: every message goes to the callback, and the cursor, read
\* again only now, moves to the latest timestamp if that is later.
HandlePoll(p) ==
  /\ polls[p].phase = "answered"
  /\ polls' = [polls EXCEPT ![p] = IdlePoll]
  /\ handedOver' = handedOver \cup polls[p].updates
  /\ cursor' = Max({cursor} \cup {Timestamp(m) : m \in polls[p].updates})
  /\ overtaken' = overtaken \ polls[p].updates
  /\ aged' = aged \ polls[p].updates
  /\ UNCHANGED <<createdAt, row, answered, loads>>
  /\ list' = MergeUpdates(list, polls[p].updates)

\* fetch rejects, the status is not 2xx, or the body is cut off.  Whether the
\* server had answered makes no difference: a GET changes nothing there.
FailPoll(p) ==
  /\ polls[p].phase = "answered"
  /\ polls' = [polls EXCEPT ![p] = IdlePoll]
  /\ UNCHANGED <<createdAt, row, overtaken, aged, answered, cursor, loads, list, handedOver>>

-----------------------------------------------------------------------------
(* ChatContext: loadMessages and sendMessage.                              *)

\* MessagesController#index answers a load.
AnswerLoad(l) ==
  /\ loads[l] = IdleLoad
  /\ loads' = [loads EXCEPT ![l] =
                 [phase |-> "answered", snapshot |-> ByCreation(Visible)]]
  /\ UNCHANGED <<createdAt, row, overtaken, aged, answered, cursor, polls, list, handedOver>>

\* setMessages replaces the conversation's list by the answer.
HandleLoad(l) ==
  /\ loads[l].phase = "answered"
  /\ list' = loads[l].snapshot
  /\ loads' = [loads EXCEPT ![l] = IdleLoad]
  /\ UNCHANGED <<createdAt, row, overtaken, aged, answered, cursor, polls, handedOver>>

\* The POST of an own message returns, after the automatic response has been
\* generated, and its message is appended to the list.
HandleSent(m) ==
  /\ m \in Own \ answered
  /\ row[m] = "committed"
  /\ answered' = answered \cup {m}
  /\ list' = Append(list, m)
  /\ UNCHANGED <<createdAt, row, overtaken, aged, cursor, polls, loads, handedOver>>

-----------------------------------------------------------------------------
Server(m) == InsertMessage(m) \/ CommitMessage(m) \/ RollBackMessage(m)

Poll(p) == SendPoll(p) \/ AnswerPoll(p) \/ HandlePoll(p) \/ FailPoll(p)

Load(l) == AnswerLoad(l) \/ HandleLoad(l)

Next ==
  \/ \E m \in Messages : Server(m) \/ HandleSent(m)
  \/ \E p \in Polls : Poll(p)
  \/ \E l \in Loads : Load(l)

Spec == Init /\ [][Next]_vars

\* The interval keeps firing, the server answers, and of the answers that come
\* again and again some are delivered; no single poll needs to be.
Fairness ==
  /\ WF_polls(\E p \in Polls : SendPoll(p) \/ AnswerPoll(p))
  /\ SF_polls(\E p \in Polls : HandlePoll(p))

FairSpec == Spec /\ Fairness

-----------------------------------------------------------------------------
(* Properties.                                                             *)

TypeOK ==
  /\ createdAt \in [Messages -> {Unset} \cup 0 .. MaxTick]
  /\ row \in [Messages -> {"none", "inserting", "committed"}]
  /\ overtaken \subseteq Visible /\ aged \subseteq Visible
  /\ answered \subseteq Own
  /\ cursor \in {Never} \cup 0 .. Second(MaxTick)
  /\ polls \in [Polls -> {IdlePoll} \cup SentPoll \cup AnsweredPoll]
  /\ loads \in [Loads -> {IdleLoad} \cup AnsweredLoad]
  /\ list \in Seq(Messages)
  /\ handedOver \subseteq Messages

\* However polls overlap and in whatever order their answers arrive, "since"
\* never moves back (pollMessageUpdates compares with the state it finds after
\* the await).
CursorNeverMovesBack == [][cursor' >= cursor]_vars

\* A message the callback has not had yet is still ahead of the cursor, so the
\* next poll asks for it: truncating timestamps to seconds and comparing with
\* ">" repeats messages but skips none.  There are two exceptions.  A message that
\* was committed when a later one was visible already is lost to the polls if the
\* later one has moved the cursor past it.  And one that was older than an hour
\* when the server answered a poll without "since" was not in that answer, which
\* may move the cursor past it too: a conversation older than the tab, or a first
\* message after which polls failed for an hour.
NothingSkipped ==
  \A m \in Visible \ (handedOver \cup overtaken \cup aged) :
     createdAt[m] > cursor * TicksPerSecond

\* Times message m occurs in the list.
Occurrences(m) == Cardinality({i \in DOMAIN list : list[i] = m})

\* A message somebody else wrote is never shown twice, although polls repeat
\* messages, overlap, and race with loads.
ForeignShownOnce == \A m \in Messages \ Own : Occurrences(m) <= 1

\* Messages somebody else wrote are shown in the order of their timestamps, also
\* when an older answer arrives after a newer one.  (Within one second their
\* order is that of arrival: an overlapping older poll and a stale load can
\* together turn two messages of the same second round.)
ForeignInOrder ==
  \A i, j \in DOMAIN list :
     (i < j /\ {list[i], list[j]} \cap Own = {})
       => Timestamp(list[i]) <= Timestamp(list[j])

\* Every message that is committed, was not overtaken and was not left out as older
\* than an hour reaches the callback although polls fail again and again: time
\* after time none is outstanding.
EveryMessageHandedOver == []<>(Visible \subseteq handedOver \cup overtaken \cup aged)

\* No message is in the list twice: handleMessageUpdate "Check[s] if message
\* already exists (by ID)" (ChatContext.tsx:459).
NoMessageShownTwice == \A m \in Messages : Occurrences(m) <= 1
=============================================================================

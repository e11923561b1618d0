--------------------------- MODULE MessageFeedProofs ---------------------------
(* Theorems about MessageFeed, for any number of messages, polls and loads, *)
(* any resolution of created_at and any order in which rows become visible: *)
(* the cursor, and the list that the browser shows.                         *)
EXTENDS MessageFeed, FiniteSetTheorems, TLAPS

-----------------------------------------------------------------------------
(* Seconds and maxima.                                                     *)

\* A nonempty set of numbers has a least element.
LEMMA HasLeast ==
  ASSUME NEW S \in SUBSET Nat, S # {}
  PROVE  \E x \in S : \A y \in S : x <= y
<1> DEFINE R == OpToRel(<, Nat)
<1>1. \A x, y \in Nat : y < x => <<y, x>> \in R
  BY DEF OpToRel
<1>2. \E x \in S : \A y \in S : ~ (<<y, x>> \in R)
  <2> HIDE DEF R
  <2>1. IsWellFoundedOn(R, Nat)
    BY NatLessThanWellFounded DEF R
  <2> QED
    BY <2>1, WFMin
<1>3. PICK x \in S : \A y \in S : ~ (<<y, x>> \in R)
  BY <1>2
<1> HIDE DEF R
<1>4. ASSUME NEW y \in S PROVE x <= y
  <2>1. x \in Nat /\ y \in Nat /\ ~ (y < x)
    BY <1>1, <1>3
  <2> QED
    BY <2>1
<1> QED
  BY <1>4

\* A nonempty set of bounded timestamps has a maximum, and Max finds it.
LEMMA MaxFound ==
  ASSUME NEW n \in Nat, NEW S \in SUBSET (-1 .. n), S # {}
  PROVE  Max(S) \in S /\ \A x \in S : x <= Max(S)
<1> DEFINE D == {k \in 0 .. n + 1 : n - k \in S}
<1>1. D \subseteq Nat /\ \A x \in S : n - x \in D
  OBVIOUS
<1>2. D # {}
  BY <1>1
<1> HIDE DEF D
<1>3. PICK d \in D : \A e \in D : d <= e
  BY <1>1, <1>2, HasLeast
<1>4. n - d \in S /\ \A x \in S : n - d >= x
  BY <1>1, <1>3 DEF D
<1>5. \E x \in S : \A y \in S : x >= y
  BY <1>4
<1>6. Max(S) \in S /\ \A y \in S : Max(S) >= y
  BY <1>5 DEF Max
<1> QED
  BY <1>6

\* A second starts no later than its ticks, and none is later than the last.
LEMMA Seconds ==
  ASSUME NEW tick \in 0 .. MaxTick
  PROVE  /\ Second(tick) \in 0 .. Second(MaxTick)
         /\ Second(tick) * TicksPerSecond <= tick
<1>1. ASSUME NEW a \in Nat, NEW b \in Nat, NEW k \in Nat \ {0}, a <= b
      PROVE  /\ a \div k \in Nat /\ b \div k \in Nat
             /\ (a \div k) * k <= a
             /\ a \div k <= b \div k
  BY <1>1
<1> QED
  BY <1>1, TicksAssumption DEF Second

-----------------------------------------------------------------------------
(* Types, without the list.                                                *)

\* Everything the cursor depends on is well formed.
FeedTypes ==
  /\ createdAt \in [Messages -> {Unset} \cup 0 .. MaxTick]
  /\ row \in [Messages -> {"none", "inserting", "committed"}]
  /\ cursor \in {Never} \cup 0 .. Second(MaxTick)
  /\ polls \in [Polls -> {IdlePoll} \cup SentPoll \cup AnsweredPoll]
  /\ handedOver \subseteq Messages

\* A row that is not there has no time, the others have, and times differ; an
\* answer, what was handed over, overtaken or too old are rows that are visible.
RowsTimed ==
  /\ \A m \in Messages : row[m] = "none" <=> createdAt[m] = Unset
  /\ \A m, n \in Messages : createdAt[m] = createdAt[n] /\ row[m] # "none" => m = n
  /\ handedOver \subseteq Visible
  /\ overtaken \subseteq Visible
  /\ aged \subseteq Visible
  /\ \A p \in Polls : polls[p].phase = "answered" => polls[p].updates \subseteq Visible

\* What a poll in flight holds.
LEMMA PollFields ==
  ASSUME FeedTypes, NEW p \in Polls
  PROVE  /\ polls[p].phase \in {"idle", "sent", "answered"}
         /\ polls[p].phase = "sent" => polls[p].since \in {Never} \cup 0 .. Second(MaxTick)
         /\ polls[p].phase = "answered" => polls[p].updates \subseteq Messages
<1>1. ASSUME NEW q \in SentPoll
      PROVE  q.phase = "sent" /\ q.since \in {Never} \cup 0 .. Second(MaxTick)
  BY DEF SentPoll
<1>2. ASSUME NEW q \in AnsweredPoll
      PROVE  q.phase = "answered" /\ q.updates \subseteq Messages
  BY DEF AnsweredPoll
<1>3. IdlePoll.phase = "idle"
  BY DEF IdlePoll
<1>4. polls[p] \in {IdlePoll} \cup SentPoll \cup AnsweredPoll
  BY DEF FeedTypes
<1> QED
  BY <1>1, <1>2, <1>3, <1>4

\* The last second is a number.
LEMMA LastSecond == Second(MaxTick) \in Nat /\ MaxTick \in Nat
<1>1. MaxTick \in 0 .. MaxTick
  BY TicksAssumption
<1> QED
  BY <1>1, Seconds, TicksAssumption

\* A message that is visible, or is becoming so, has its second.
LEMMA TimestampTyped ==
  ASSUME FeedTypes, RowsTimed, NEW m \in Messages, row[m] # "none"
  PROVE  /\ createdAt[m] \in 0 .. MaxTick
         /\ Timestamp(m) \in 0 .. Second(MaxTick)
         /\ Timestamp(m) * TicksPerSecond <= createdAt[m]
<1>1. createdAt[m] \in 0 .. MaxTick
  BY DEF FeedTypes, RowsTimed
<1> QED
  BY <1>1, Seconds DEF Timestamp

\* An answer moves the cursor to the latest timestamp, or not at all.
LEMMA CursorMoved ==
  ASSUME FeedTypes, RowsTimed, NEW p \in Polls, HandlePoll(p)
  PROVE  /\ cursor' \in {cursor} \cup {Timestamp(m) : m \in polls[p].updates}
         /\ cursor' \in {Never} \cup 0 .. Second(MaxTick)
         /\ cursor <= cursor'
<1> DEFINE S == {cursor} \cup {Timestamp(m) : m \in polls[p].updates}
<1>1. cursor' = Max(S)
  BY DEF HandlePoll
<1>2. \A m \in polls[p].updates : Timestamp(m) \in 0 .. Second(MaxTick)
  <2>1. polls[p].updates \subseteq Visible
    BY DEF HandlePoll, RowsTimed
  <2> QED
    BY <2>1, TimestampTyped DEF Visible
<1>3. cursor \in S /\ S \subseteq {Never} \cup 0 .. Second(MaxTick)
  BY <1>2 DEF FeedTypes
<1> HIDE DEF S
<1>4. S \in SUBSET (-1 .. Second(MaxTick)) /\ S # {}
  BY <1>3, LastSecond DEF Never
<1>5. cursor' \in S /\ cursor <= cursor'
  BY <1>1, <1>3, <1>4, LastSecond, MaxFound
<1> QED
  BY <1>3, <1>5 DEF S

LEMMA FeedTypesInit == Init => FeedTypes /\ RowsTimed
  BY DEF Init, FeedTypes, RowsTimed, Visible, IdlePoll

\* What is visible stays so.
LEMMA VisibleGrows == FeedTypes /\ [Next]_vars => Visible \subseteq Visible'
<1> SUFFICES ASSUME FeedTypes, [Next]_vars PROVE Visible \subseteq Visible'
  OBVIOUS
<1>1. ASSUME NEW m \in Messages, Server(m) PROVE Visible \subseteq Visible'
  BY <1>1 DEF Server, InsertMessage, CommitMessage, RollBackMessage, Visible, FeedTypes
<1>2. CASE UNCHANGED row
  BY <1>2 DEF Visible
<1> QED
  BY <1>1, <1>2
  DEF Next, HandleSent, Poll, SendPoll, AnswerPoll, HandlePoll, FailPoll, Load,
      AnswerLoad, HandleLoad, vars

\* What is visible stays so and keeps its second.
LEMMA CommittedStays ==
  ASSUME FeedTypes, [Next]_vars, NEW m \in Messages, row[m] = "committed"
  PROVE  row'[m] = "committed" /\ createdAt'[m] = createdAt[m] /\ Timestamp(m)' = Timestamp(m)
<1>1. row'[m] = "committed" /\ createdAt'[m] = createdAt[m]
  <2>1. ASSUME NEW n \in Messages, InsertMessage(n)
        PROVE  row'[m] = "committed" /\ createdAt'[m] = createdAt[m]
    BY <2>1 DEF InsertMessage, FeedTypes
  <2>2. ASSUME NEW n \in Messages, CommitMessage(n) \/ RollBackMessage(n)
        PROVE  row'[m] = "committed" /\ createdAt'[m] = createdAt[m]
    BY <2>2 DEF CommitMessage, RollBackMessage, FeedTypes
  <2>3. CASE UNCHANGED <<createdAt, row>>
    BY <2>3
  <2> QED
    BY <2>1, <2>2, <2>3
    DEF Next, Server, HandleSent, Poll, SendPoll, AnswerPoll, HandlePoll, FailPoll, Load,
        AnswerLoad, HandleLoad, vars
<1> QED
  BY <1>1 DEF Timestamp

LEMMA FeedTypesStep == FeedTypes /\ RowsTimed /\ [Next]_vars => FeedTypes' /\ RowsTimed'
<1> SUFFICES ASSUME FeedTypes, RowsTimed, [Next]_vars PROVE FeedTypes' /\ RowsTimed'
  OBVIOUS
<1>v. Visible \subseteq Visible' /\ Visible \subseteq Messages
  BY VisibleGrows DEF Visible
<1>1. ASSUME NEW m \in Messages, InsertMessage(m) PROVE FeedTypes' /\ RowsTimed'
  <2>1. PICK tick \in 0 .. MaxTick :
          /\ \A other \in Messages : createdAt[other] < tick
          /\ createdAt' = [createdAt EXCEPT ![m] = tick]
    BY <1>1 DEF InsertMessage
  <2>2. /\ row' = [row EXCEPT ![m] = "inserting"]
        /\ UNCHANGED <<overtaken, aged, cursor, polls, handedOver>>
    BY <1>1 DEF InsertMessage
  <2>3. FeedTypes'
    BY <2>1, <2>2 DEF FeedTypes
  <2>4. \A n \in Messages : createdAt[n] # tick /\ tick # Unset
    <3>1. \A n \in Messages : createdAt[n] \in {Unset} \cup 0 .. MaxTick /\ createdAt[n] < tick
      BY <2>1 DEF FeedTypes
    <3> QED
      BY <3>1, LastSecond DEF Unset
  <2>5. /\ \A n \in Messages : row'[n] = "none" <=> createdAt'[n] = Unset
        /\ \A n, o \in Messages : createdAt'[n] = createdAt'[o] /\ row'[n] # "none" => n = o
    BY <2>1, <2>2, <2>4 DEF FeedTypes, RowsTimed
  <2> QED
    BY <1>v, <2>2, <2>3, <2>5 DEF RowsTimed
<1>2. ASSUME NEW m \in Messages, CommitMessage(m) PROVE FeedTypes' /\ RowsTimed'
  <2>1. /\ row' = [row EXCEPT ![m] = "committed"]
        /\ row[m] # "none"
        /\ overtaken' \subseteq overtaken \cup {m}
        /\ UNCHANGED <<createdAt, aged, cursor, polls, handedOver>>
    BY <1>2 DEF CommitMessage
  <2>2. FeedTypes'
    BY <2>1 DEF FeedTypes
  <2>3. \A n \in Messages : row'[n] = "none" <=> row[n] = "none"
    BY <2>1 DEF FeedTypes
  <2>4. overtaken' \subseteq Visible'
    <3>1. m \in Visible'
      BY <2>1 DEF Visible, FeedTypes
    <3> QED
      BY <1>v, <2>1, <3>1 DEF RowsTimed
  <2> QED
    BY <1>v, <2>1, <2>2, <2>3, <2>4 DEF RowsTimed
<1>7. ASSUME NEW m \in Messages, RollBackMessage(m) PROVE FeedTypes' /\ RowsTimed'
  <2>1. /\ row' = [row EXCEPT ![m] = "none"]
        /\ createdAt' = [createdAt EXCEPT ![m] = Unset]
        /\ UNCHANGED <<overtaken, aged, cursor, polls, handedOver>>
    BY <1>7 DEF RollBackMessage
  <2>2. FeedTypes'
    BY <2>1 DEF FeedTypes
  <2>3. /\ \A n \in Messages : row'[n] = "none" <=> createdAt'[n] = Unset
        /\ \A n, o \in Messages : createdAt'[n] = createdAt'[o] /\ row'[n] # "none" => n = o
    BY <2>1 DEF FeedTypes, RowsTimed
  <2> QED
    BY <1>v, <2>1, <2>2, <2>3 DEF RowsTimed
<1>3. ASSUME NEW p \in Polls, SendPoll(p) \/ FailPoll(p) PROVE FeedTypes' /\ RowsTimed'
  <2>1. PICK q \in {IdlePoll} \cup SentPoll :
          q.phase # "answered" /\ polls' = [polls EXCEPT ![p] = q]
    BY <1>3 DEF SendPoll, FailPoll, SentPoll, IdlePoll, FeedTypes
  <2>2. UNCHANGED <<createdAt, row, overtaken, aged, cursor, handedOver>>
    BY <1>3 DEF SendPoll, FailPoll
  <2>3. FeedTypes'
    BY <2>1, <2>2 DEF FeedTypes
  <2>4. \A o \in Polls : polls'[o].phase = "answered" => polls'[o] = polls[o]
    BY <2>1 DEF FeedTypes
  <2> QED
    BY <2>2, <2>3, <2>4 DEF RowsTimed, Visible
<1>4. ASSUME NEW p \in Polls, AnswerPoll(p) PROVE FeedTypes' /\ RowsTimed'
  <2>c. PICK cutoff \in Cutoffs(polls[p].since) :
          /\ polls' = [polls EXCEPT ![p] =
                         [phase |-> "answered", updates |-> UpdatesSince(cutoff)]]
          /\ aged' \subseteq aged \cup Visible
    BY <1>4 DEF AnswerPoll
  <2> DEFINE U == UpdatesSince(cutoff)
             q == [phase |-> "answered", updates |-> U]
  <2>1. /\ polls' = [polls EXCEPT ![p] = q]
        /\ aged' \subseteq Visible
        /\ UNCHANGED <<createdAt, row, overtaken, cursor, handedOver>>
    BY <1>4, <2>c DEF AnswerPoll, RowsTimed
  <2>2. U \subseteq Visible
    BY DEF UpdatesSince
  <2> HIDE DEF U
  <2>3. q \in AnsweredPoll /\ q.updates = U
    BY <1>v, <2>2 DEF AnsweredPoll
  <2> HIDE DEF q
  <2>4. FeedTypes'
    BY <2>1, <2>3 DEF FeedTypes
  <2>5. \A o \in Polls : polls'[o] = IF o = p THEN q ELSE polls[o]
    BY <2>1 DEF FeedTypes
  <2> QED
    BY <2>1, <2>2, <2>3, <2>4, <2>5 DEF RowsTimed, Visible
<1>5. ASSUME NEW p \in Polls, HandlePoll(p) PROVE FeedTypes' /\ RowsTimed'
  <2>1. /\ polls' = [polls EXCEPT ![p] = IdlePoll]
        /\ handedOver' = handedOver \cup polls[p].updates
        /\ overtaken' \subseteq overtaken /\ aged' \subseteq aged
        /\ UNCHANGED <<createdAt, row>>
        /\ polls[p].updates \subseteq Visible
    BY <1>5 DEF HandlePoll, RowsTimed
  <2>2. cursor' \in {Never} \cup 0 .. Second(MaxTick)
    BY <1>5, CursorMoved
  <2>3. FeedTypes'
    BY <1>v, <2>1, <2>2 DEF FeedTypes
  <2>4. \A o \in Polls : polls'[o].phase = "answered" => polls'[o] = polls[o]
    BY <2>1 DEF FeedTypes, IdlePoll
  <2> QED
    BY <2>1, <2>3, <2>4 DEF RowsTimed, Visible
<1>6. CASE UNCHANGED <<createdAt, row, overtaken, aged, cursor, polls, handedOver>>
  BY <1>6 DEF FeedTypes, RowsTimed, Visible
<1> QED
  BY <1>1, <1>2, <1>3, <1>4, <1>5, <1>6, <1>7
  DEF Next, Server, HandleSent, Poll, Load, AnswerLoad, HandleLoad, vars

\* "since" never moves back, however many polls overlap.
THEOREM CursorNeverMovesBackAlways == Spec => CursorNeverMovesBack
<1>1. FeedTypes /\ RowsTimed /\ [Next]_vars => [cursor' >= cursor]_vars
  <2> SUFFICES ASSUME FeedTypes, RowsTimed, [Next]_vars, ~ UNCHANGED vars
               PROVE  cursor' >= cursor
    BY DEF vars
  <2>t. cursor \in Int
    <3>1. cursor \in {Never} \cup 0 .. Second(MaxTick)
      BY DEF FeedTypes
    <3> QED
      BY <3>1, LastSecond DEF Never
  <2>1. ASSUME NEW p \in Polls, HandlePoll(p) PROVE cursor' >= cursor
    <3>1. cursor <= cursor' /\ cursor' \in {Never} \cup 0 .. Second(MaxTick)
      BY <2>1, CursorMoved
    <3> QED
      BY <2>t, <3>1, LastSecond DEF Never
  <2>2. CASE UNCHANGED cursor
    BY <2>t, <2>2
  <2> QED
    BY <2>1, <2>2
    DEF Next, Server, InsertMessage, CommitMessage, RollBackMessage, HandleSent,
        Poll, SendPoll, AnswerPoll, FailPoll, Load, AnswerLoad, HandleLoad, vars
<1> QED
  BY <1>1, FeedTypesInit, FeedTypesStep, PTL DEF Spec, CursorNeverMovesBack

-----------------------------------------------------------------------------
(* Nothing is skipped.                                                     *)

\* The cursor is the second of a row that is visible.
CursorReached == cursor = Never \/ \E u \in Visible : cursor = Timestamp(u)

\* What a poll was sent with is not ahead of the cursor.
SinceBehind ==
  \A p \in Polls : polls[p].phase = "sent" => polls[p].since <= cursor

\* Messages the polls still have to hand over.
Outstanding == Visible \ (handedOver \cup overtaken \cup aged)

\* An outstanding message that is not in an answer is later than the second of
\* every message in it.
AnswersComplete ==
  \A p \in Polls : polls[p].phase = "answered" =>
    \A m \in Outstanding \ polls[p].updates, u \in polls[p].updates :
      createdAt[m] > Timestamp(u) * TicksPerSecond

FeedInv ==
  /\ FeedTypes
  /\ RowsTimed
  /\ CursorReached
  /\ SinceBehind
  /\ AnswersComplete
  /\ NothingSkipped

LEMMA TimesMonotone ==
  ASSUME NEW a \in Int, NEW b \in Int, NEW k \in Nat, a <= b
  PROVE  a * k <= b * k
  OBVIOUS

\* The numbers that are compared.
LEMMA CursorNumber ==
  ASSUME FeedTypes
  PROVE  /\ cursor \in Int
         /\ \A m \in Messages : createdAt[m] \in Int
         /\ TicksPerSecond \in Nat /\ TicksPerSecond > 0
<1>1. cursor \in {Never} \cup 0 .. Second(MaxTick)
  BY DEF FeedTypes
<1>2. \A m \in Messages : createdAt[m] \in {Unset} \cup 0 .. MaxTick
  BY DEF FeedTypes
<1> QED
  BY <1>1, <1>2, LastSecond, TicksAssumption DEF Never, Unset

LEMMA FeedInvInit == Init => FeedInv
<1> SUFFICES ASSUME Init PROVE FeedInv
  OBVIOUS
<1>1. FeedTypes /\ RowsTimed
  BY FeedTypesInit
<1>2. Visible = {} /\ cursor = Never /\ \A p \in Polls : polls[p].phase = "idle"
  BY DEF Init, Visible, IdlePoll
<1> QED
  BY <1>1, <1>2
  DEF FeedInv, CursorReached, SinceBehind, AnswersComplete, NothingSkipped

\* A row that becomes visible and is later than those that are is later than the
\* cursor and than every answer in flight.
LEMMA CommitLater ==
  ASSUME FeedInv, NEW m \in Messages, row[m] = "inserting",
         \A u \in Visible : ~ (createdAt[u] > createdAt[m])
  PROVE  /\ createdAt[m] > cursor * TicksPerSecond
         /\ \A u \in Visible : createdAt[m] > Timestamp(u) * TicksPerSecond
<1>n. /\ cursor \in Int /\ TicksPerSecond \in Nat /\ TicksPerSecond > 0
      /\ FeedTypes /\ RowsTimed
  BY CursorNumber DEF FeedInv
<1>1. createdAt[m] \in 0 .. MaxTick
  BY <1>n, TimestampTyped
<1>2. ASSUME NEW u \in Visible PROVE createdAt[m] > Timestamp(u) * TicksPerSecond
  <2>1. /\ createdAt[u] # createdAt[m] /\ ~ (createdAt[u] > createdAt[m])
        /\ u \in Messages /\ row[u] # "none"
    BY <1>n DEF RowsTimed, Visible
  <2>2. /\ createdAt[u] \in 0 .. MaxTick
        /\ Timestamp(u) \in 0 .. Second(MaxTick)
        /\ Timestamp(u) * TicksPerSecond <= createdAt[u]
    BY <1>n, <2>1, TimestampTyped
  <2>3. Timestamp(u) * TicksPerSecond \in Int
    BY <1>n, <2>2, LastSecond
  <2> QED
    BY <1>1, <2>1, <2>2, <2>3, LastSecond
<1>3. CASE cursor = Never
  BY <1>n, <1>1, <1>2, <1>3, LastSecond DEF Never
<1>4. CASE \E u \in Visible : cursor = Timestamp(u)
  BY <1>2, <1>4
<1> QED
  BY <1>2, <1>3, <1>4 DEF FeedInv, CursorReached

\* Rows are inserted, become visible and are rolled back.
LEMMA ServerKeepsFeed ==
  ASSUME FeedInv, FeedTypes', RowsTimed', NEW m \in Messages, Server(m)
  PROVE  FeedInv'
<1>t. FeedTypes /\ RowsTimed
  BY DEF FeedInv
<1>u. UNCHANGED <<cursor, polls, handedOver>>
  BY DEF Server, InsertMessage, CommitMessage, RollBackMessage
<1>s. SinceBehind'
  BY <1>u DEF FeedInv, SinceBehind
<1>c. ASSUME NEW n \in Messages, row[n] = "committed"
      PROVE  createdAt'[n] = createdAt[n] /\ Timestamp(n)' = Timestamp(n)
  BY <1>t, <1>c, CommittedStays DEF Next
<1>v. Visible \subseteq Visible'
  BY <1>t, VisibleGrows DEF Next
<1>r. CursorReached'
  BY <1>u, <1>c, <1>v DEF FeedInv, CursorReached, Visible
<1>a. \A o \in Polls : polls[o].phase = "answered" => polls[o].updates \subseteq Visible
  BY <1>t DEF RowsTimed
<1>1. CASE InsertMessage(m) \/ RollBackMessage(m)
  <2>1. Visible' = Visible /\ Outstanding' = Outstanding
    BY <1>t, <1>1, <1>u
    DEF InsertMessage, RollBackMessage, Visible, Outstanding, FeedTypes
  <2>2. NothingSkipped'
    BY <1>u, <1>c, <2>1 DEF FeedInv, NothingSkipped, Outstanding, Visible
  <2>3. AnswersComplete'
    BY <1>u, <1>c, <1>a, <2>1 DEF FeedInv, AnswersComplete, Outstanding, Visible
  <2> QED
    BY <1>r, <1>s, <2>2, <2>3 DEF FeedInv
<1>2. CASE CommitMessage(m)
  <2>1. /\ row[m] = "inserting" /\ row' = [row EXCEPT ![m] = "committed"]
        /\ UNCHANGED <<createdAt, aged>>
        /\ overtaken' = IF \E other \in Visible : createdAt[other] > createdAt[m]
                          THEN overtaken \cup {m} ELSE overtaken
    BY <1>2 DEF CommitMessage
  <2>2. Visible' = Visible \cup {m}
    BY <1>t, <2>1 DEF Visible, FeedTypes
  <2>3. \A n \in Outstanding' :
          \/ n \in Outstanding
          \/ n = m /\ \A u \in Visible : ~ (createdAt[u] > createdAt[m])
    BY <1>u, <2>1, <2>2 DEF Outstanding
  <2>4. \A n \in Outstanding' :
          \/ n \in Outstanding
          \/ /\ createdAt[n] > cursor * TicksPerSecond
             /\ \A u \in Visible : createdAt[n] > Timestamp(u) * TicksPerSecond
    BY <2>1, <2>3, CommitLater
  <2>5. NothingSkipped'
    BY <1>u, <2>1, <2>4 DEF FeedInv, NothingSkipped, Outstanding
  <2>6. AnswersComplete'
    <3> SUFFICES ASSUME NEW o \in Polls, polls[o].phase = "answered",
                        NEW n \in Outstanding' \ polls[o].updates,
                        NEW u \in polls[o].updates
                 PROVE  createdAt[n] > Timestamp(u) * TicksPerSecond
      BY <1>u, <1>a, <1>c, <2>1 DEF AnswersComplete, Visible
    <3> QED
      BY <1>a, <2>4 DEF FeedInv, AnswersComplete
  <2> QED
    BY <1>r, <1>s, <2>5, <2>6 DEF FeedInv
<1> QED
  BY <1>1, <1>2 DEF Server

\* A message that was too old for an answer stays too old, unless it is handed over.
LEMMA AgedStays ==
  ASSUME RowsTimed, NEW p \in Polls, AnswerPoll(p)
  PROVE  aged \subseteq aged' \cup handedOver
<1>1. CASE polls[p].since # Never
  BY <1>1 DEF AnswerPoll
<1>2. CASE polls[p].since = Never
  <2>1. PICK cutoff \in Cutoffs(Never) :
          aged' = {m \in Visible \ handedOver : createdAt[m] <= cutoff}
    BY <1>2 DEF AnswerPoll
  <2>2. \A m \in aged : m \in Visible /\ createdAt[m] <= cutoff
    BY DEF Cutoffs, RowsTimed
  <2> QED
    BY <2>1, <2>2
<1> QED
  BY <1>1, <1>2

\* A poll is sent, answered, handled or lost.
LEMMA PollKeepsFeed ==
  ASSUME FeedInv, FeedTypes', RowsTimed', NEW p \in Polls, Poll(p)
  PROVE  FeedInv'
<1>t. FeedTypes /\ RowsTimed
  BY DEF FeedInv
<1>u. /\ UNCHANGED <<createdAt, row>> /\ Visible' = Visible
      /\ \A u \in Messages : Timestamp(u)' = Timestamp(u)
  BY DEF Poll, SendPoll, AnswerPoll, HandlePoll, FailPoll, Visible, Timestamp
<1>n. /\ cursor \in Int /\ TicksPerSecond \in Nat /\ TicksPerSecond > 0
      /\ \A m \in Messages : createdAt[m] \in Int
  BY <1>t, CursorNumber
<1>1. CASE SendPoll(p) \/ AnswerPoll(p) \/ FailPoll(p)
  <2>1. UNCHANGED <<cursor, handedOver, overtaken>>
    BY <1>1 DEF SendPoll, AnswerPoll, FailPoll
  <2>2. Outstanding' \subseteq Outstanding
    <3>1. CASE SendPoll(p) \/ FailPoll(p)
      BY <1>u, <2>1, <3>1 DEF SendPoll, FailPoll, Outstanding
    <3>2. CASE AnswerPoll(p)
      BY <1>t, <1>u, <2>1, <3>2, AgedStays DEF Outstanding
    <3> QED
      BY <1>1, <3>1, <3>2
  <2>5. CursorReached' /\ NothingSkipped'
    BY <1>u, <2>1, <2>2 DEF FeedInv, CursorReached, NothingSkipped, Visible, Outstanding
  <2>3. CASE SendPoll(p) \/ FailPoll(p)
    <3>1. /\ \A o \in Polls : polls'[o].phase = "answered" => polls'[o] = polls[o]
          /\ \A o \in Polls : polls'[o].phase = "sent" =>
                                polls'[o] = polls[o] \/ polls'[o].since = cursor
      <4>1. PICK q : /\ polls' = [polls EXCEPT ![p] = q]
                     /\ q.phase # "answered" /\ (q.phase = "sent" => q.since = cursor)
        BY <2>3 DEF SendPoll, FailPoll, IdlePoll
      <4> QED
        BY <1>t, <4>1 DEF FeedTypes
    <3>2. SinceBehind'
      BY <1>n, <2>1, <3>1 DEF FeedInv, SinceBehind
    <3>3. AnswersComplete'
      BY <1>t, <1>u, <2>1, <2>2, <3>1 DEF FeedInv, AnswersComplete, RowsTimed, Visible
    <3> QED
      BY <2>5, <3>2, <3>3 DEF FeedInv
  <2>4. CASE AnswerPoll(p)
    <3> DEFINE since == polls[p].since
    <3>0. PICK cutoff \in Cutoffs(since) :
            /\ polls' = [polls EXCEPT ![p] =
                           [phase |-> "answered", updates |-> UpdatesSince(cutoff)]]
            /\ aged' = IF since # Never THEN aged
                       ELSE {m \in Visible \ handedOver : createdAt[m] <= cutoff}
      BY <2>4 DEF AnswerPoll
    <3> DEFINE U == UpdatesSince(cutoff)
    <3>1. /\ polls[p].phase = "sent"
          /\ \A o \in Polls : o # p => polls'[o] = polls[o]
          /\ polls'[p].phase = "answered" /\ polls'[p].updates = U
      BY <1>t, <2>4, <3>0 DEF AnswerPoll, FeedTypes
    <3>2. ASSUME NEW m \in Outstanding' PROVE m \in U
      <4>0. /\ m \in Visible /\ m \notin handedOver /\ m \notin aged'
            /\ m \in Outstanding /\ createdAt[m] \in Int
        BY <1>u, <1>n, <2>1, <2>2 DEF Outstanding, Visible
      <4>1. CASE since = Never
        <5>1. ~ (createdAt[m] <= cutoff)
          BY <3>0, <4>0, <4>1
        <5>2. cutoff \in Int
          BY <1>n, <4>1 DEF Cutoffs, Unset, Visible
        <5> QED
          BY <4>0, <5>1, <5>2 DEF UpdatesSince
      <4>2. CASE since # Never
        <5>1. /\ createdAt[m] > cursor * TicksPerSecond
              /\ since <= cursor
          BY <1>n, <3>1, <4>0 DEF FeedInv, NothingSkipped, SinceBehind, Visible, Outstanding
        <5>2. since \in Int
          <6>1. since \in {Never} \cup 0 .. Second(MaxTick)
            BY <1>t, <3>1, PollFields
          <6> QED
            BY <6>1, LastSecond DEF Never
        <5>3. since * TicksPerSecond <= cursor * TicksPerSecond
          BY <1>n, <5>1, <5>2, TimesMonotone
        <5>4. since * TicksPerSecond \in Int /\ cursor * TicksPerSecond \in Int
          BY <1>n, <5>2
        <5>5. createdAt[m] > since * TicksPerSecond
          BY <4>0, <5>1, <5>3, <5>4
        <5>6. cutoff = since * TicksPerSecond
          BY <4>2 DEF Cutoffs
        <5> QED
          BY <4>0, <5>5, <5>6 DEF UpdatesSince
      <4> QED
        BY <4>1, <4>2
    <3>3. SinceBehind'
      BY <2>1, <3>1 DEF FeedInv, SinceBehind
    <3> HIDE DEF U
    <3>4. AnswersComplete'
      BY <1>t, <1>u, <2>1, <2>2, <3>1, <3>2 DEF FeedInv, AnswersComplete, RowsTimed, Visible
    <3> QED
      BY <2>5, <3>3, <3>4 DEF FeedInv
  <2> QED
    BY <1>1, <2>3, <2>4
<1>2. CASE HandlePoll(p)
  <2>1. /\ polls[p].phase = "answered" /\ polls[p].updates \subseteq Visible
        /\ handedOver' = handedOver \cup polls[p].updates
        /\ overtaken' = overtaken \ polls[p].updates
        /\ aged' = aged \ polls[p].updates
        /\ \A o \in Polls : o # p => polls'[o] = polls[o]
        /\ polls'[p].phase = "idle"
    BY <1>t, <1>2 DEF HandlePoll, FeedTypes, RowsTimed, IdlePoll
  <2>2. /\ cursor' \in {cursor} \cup {Timestamp(m) : m \in polls[p].updates}
        /\ cursor <= cursor' /\ cursor' \in {Never} \cup 0 .. Second(MaxTick)
    BY <1>t, <1>2, CursorMoved
  <2>3. CursorReached'
    BY <1>u, <2>1, <2>2 DEF FeedInv, CursorReached, Visible
  <2>4. SinceBehind'
    <3> SUFFICES ASSUME NEW o \in Polls, polls'[o].phase = "sent"
                 PROVE  polls'[o].since <= cursor'
      BY DEF SinceBehind
    <3>1. polls'[o] = polls[o] /\ polls[o].since <= cursor
      BY <2>1 DEF FeedInv, SinceBehind
    <3>2. polls[o].since \in {Never} \cup 0 .. Second(MaxTick)
      BY <1>t, <3>1, PollFields
    <3> QED
      BY <1>n, <2>2, <3>1, <3>2, LastSecond DEF Never
  <2>7. Outstanding' = Outstanding \ polls[p].updates
    BY <1>u, <2>1 DEF Outstanding
  <2>5. AnswersComplete'
    BY <1>t, <1>u, <2>1, <2>7 DEF FeedInv, AnswersComplete, Outstanding, RowsTimed, Visible
  <2>6. NothingSkipped'
    <3> SUFFICES ASSUME NEW m \in Outstanding'
                 PROVE  createdAt[m] > cursor' * TicksPerSecond
      BY <1>u DEF NothingSkipped, Outstanding
    <3>1. m \in Outstanding \ polls[p].updates
      BY <2>7
    <3>2. /\ createdAt[m] > cursor * TicksPerSecond
          /\ \A u \in polls[p].updates : createdAt[m] > Timestamp(u) * TicksPerSecond
      BY <2>1, <3>1 DEF FeedInv, NothingSkipped, AnswersComplete, Outstanding
    <3> QED
      BY <2>2, <3>2
  <2> QED
    BY <2>3, <2>4, <2>5, <2>6 DEF FeedInv
<1> QED
  BY <1>1, <1>2 DEF Poll

LEMMA FeedInvStep ==
  ASSUME FeedInv, [Next]_vars
  PROVE  FeedInv'
<1>1. FeedTypes' /\ RowsTimed'
  BY FeedTypesStep DEF FeedInv
<1>2. CASE UNCHANGED <<createdAt, row, overtaken, aged, cursor, polls, handedOver>>
  BY <1>1, <1>2
  DEF FeedInv, CursorReached, SinceBehind, AnswersComplete, NothingSkipped,
      Outstanding, Visible, Timestamp
<1> QED
  BY <1>1, <1>2, ServerKeepsFeed, PollKeepsFeed
  DEF Next, HandleSent, Load, AnswerLoad, HandleLoad, vars

\* A message that has not been handed over, was not overtaken and was not older than
\* an hour when a poll without "since" was answered is ahead of the cursor, for any
\* number of messages and polls, however their answers are reordered, in whatever
\* order rows are committed, wherever the last hour begins, and whatever the
\* fraction of the second that the API drops.
THEOREM NothingSkippedAlways == Spec => []NothingSkipped
<1>1. Init => FeedInv
  BY FeedInvInit
<1>2. FeedInv /\ [Next]_vars => FeedInv'
  BY FeedInvStep
<1>3. FeedInv => NothingSkipped
  BY DEF FeedInv
<1> QED
  BY <1>1, <1>2, <1>3, PTL DEF Spec
-----------------------------------------------------------------------------
(* Sorting: what ByCreation and Chronological return.                      *)

\* The members of D with a smaller key than d.
Below(D, key, d) == {x \in D : key[x] < key[d]}

\* How many members are below another orders the members as their keys do.
LEMMA RankOrdersByKey ==
  ASSUME NEW D, IsFiniteSet(D), NEW key, \A d \in D : key[d] \in Int,
         NEW d \in D, NEW e \in D, key[d] < key[e]
  PROVE  Cardinality(Below(D, key, d)) < Cardinality(Below(D, key, e))
<1> DEFINE B == Below(D, key, d)
           C == Below(D, key, e)
<1>1. C \in SUBSET D /\ B \in SUBSET C /\ d \in C /\ d \notin B
  BY DEF Below
<1> HIDE DEF B, C
<1>2. IsFiniteSet(C)
  BY <1>1, FS_Subset
<1>3. /\ IsFiniteSet(B) /\ Cardinality(B) <= Cardinality(C)
      /\ Cardinality(C) = Cardinality(B) => C = B
  BY <1>1, <1>2, FS_Subset
<1>4. Cardinality(B) \in Nat /\ Cardinality(C) \in Nat
  BY <1>2, <1>3, FS_CardinalityType
<1>5. Cardinality(B) < Cardinality(C)
  BY <1>1, <1>3, <1>4
<1> QED
  BY <1>5 DEF B, C

\* A member has fewer members below it than there are.
LEMMA RankBounded ==
  ASSUME NEW D, IsFiniteSet(D), NEW key, \A d \in D : key[d] \in Int, NEW d \in D
  PROVE  Cardinality(Below(D, key, d)) \in 0 .. Cardinality(D) - 1
<1> DEFINE B == Below(D, key, d)
<1>1. B \in SUBSET D /\ d \notin B
  BY DEF Below
<1> HIDE DEF B
<1>2. /\ IsFiniteSet(B) /\ Cardinality(B) <= Cardinality(D)
      /\ Cardinality(D) = Cardinality(B) => D = B
  BY <1>1, FS_Subset
<1>3. Cardinality(B) \in Nat /\ Cardinality(D) \in Nat
  BY <1>2, FS_CardinalityType
<1>4. Cardinality(B) \in 0 .. Cardinality(D) - 1
  BY <1>1, <1>2, <1>3
<1> QED
  BY <1>4 DEF B

\* Every place is taken: ranks are different and there are as many as places.
LEMMA PlacesTaken ==
  ASSUME NEW D, IsFiniteSet(D), NEW key, \A d \in D : key[d] \in Int,
         \A d, e \in D : key[d] = key[e] => d = e,
         NEW k \in 1 .. Cardinality(D)
  PROVE  \E d \in D : Cardinality(Below(D, key, d)) = k - 1
<1> DEFINE n == Cardinality(D)
           rank == [d \in D |-> Cardinality(Below(D, key, d)) + 1]
<1>1. n \in Nat
  BY FS_CardinalityType
<1>2. \A d \in D : Cardinality(Below(D, key, d)) \in 0 .. n - 1
  BY RankBounded
<1>3. rank \in [D -> 1 .. n]
  BY <1>1, <1>2
<1>4. ASSUME NEW d \in D, NEW e \in D, rank[d] = rank[e] PROVE d = e
  <2>1. Cardinality(Below(D, key, d)) = Cardinality(Below(D, key, e))
    BY <1>1, <1>2, <1>4
  <2>2. ~ (key[d] < key[e]) /\ ~ (key[e] < key[d])
    BY <1>1, <1>2, <2>1, RankOrdersByKey
  <2>3. key[d] = key[e]
    BY <2>2
  <2> QED
    BY <2>3
<1> HIDE DEF rank
<1>5. rank \in Injection(D, 1 .. n)
  BY <1>3, <1>4 DEF Injection, IsInjective
<1>6. IsFiniteSet(1 .. n) /\ Cardinality(1 .. n) = n
  BY <1>1, FS_Interval
<1>7. rank \in Surjection(D, 1 .. n)
  BY <1>5, <1>6, FS_Injection
<1>8. PICK d \in D : rank[d] = k
  BY <1>7 DEF Surjection
<1>9. Cardinality(Below(D, key, d)) + 1 = k
  BY <1>8 DEF rank
<1> QED
  BY <1>1, <1>2, <1>9

\* Enumerate lists every member once, by increasing key.
LEMMA EnumerateSorts ==
  ASSUME NEW D, IsFiniteSet(D), NEW key, \A d \in D : key[d] \in Int,
         \A d, e \in D : key[d] = key[e] => d = e
  PROVE  /\ Cardinality(D) \in Nat
         /\ Enumerate(D, key) \in [1 .. Cardinality(D) -> D]
         /\ \A d \in D : \E k \in 1 .. Cardinality(D) : Enumerate(D, key)[k] = d
         /\ \A i, j \in 1 .. Cardinality(D) :
               i < j => key[Enumerate(D, key)[i]] < key[Enumerate(D, key)[j]]
<1> DEFINE n == Cardinality(D)
           E == Enumerate(D, key)
           rank(d) == Cardinality(Below(D, key, d))
<1>1. n \in Nat
  BY FS_CardinalityType
<1>2. E = [k \in 1 .. n |-> CHOOSE d \in D : rank(d) = k - 1]
  BY DEF Enumerate, Below
<1>3. \A k \in 1 .. n : \E d \in D : rank(d) = k - 1
  BY PlacesTaken
<1>4. \A d \in D : rank(d) \in 0 .. n - 1
  BY RankBounded
<1>5. \A d, e \in D : key[d] < key[e] => rank(d) < rank(e)
  BY RankOrdersByKey
<1> HIDE DEF rank, E
<1>6. \A k \in 1 .. n : E[k] \in D /\ rank(E[k]) = k - 1
  BY <1>2, <1>3
<1>7. E \in [1 .. n -> D]
  BY <1>2, <1>6
<1>8. ASSUME NEW d \in D, NEW e \in D, rank(d) = rank(e) PROVE d = e
  <2>1. ~ (key[d] < key[e]) /\ ~ (key[e] < key[d])
    BY <1>1, <1>4, <1>5, <1>8
  <2> QED
    BY <2>1
<1>9. ASSUME NEW d \in D PROVE \E k \in 1 .. n : E[k] = d
  <2>1. rank(d) + 1 \in 1 .. n /\ rank(d) \in Int
    BY <1>1, <1>4
  <2>2. E[rank(d) + 1] \in D /\ rank(E[rank(d) + 1]) = rank(d)
    BY <1>6, <2>1
  <2> QED
    BY <1>8, <2>1, <2>2
<1>10. ASSUME NEW i \in 1 .. n, NEW j \in 1 .. n, i < j PROVE key[E[i]] < key[E[j]]
  <2>1. E[i] \in D /\ E[j] \in D /\ rank(E[i]) < rank(E[j])
    BY <1>1, <1>6, <1>10
  <2>2. key[E[i]] # key[E[j]] /\ ~ (key[E[j]] < key[E[i]])
    BY <1>1, <1>4, <1>5, <2>1
  <2> QED
    BY <2>1, <2>2
<1> QED
  BY <1>1, <1>7, <1>9, <1>10 DEF E

\* Two places of different second are ordered by it, two of one second by place:
\* what the key of Chronological says.
LEMMA KeyOrder ==
  ASSUME NEW a \in Nat, NEW b \in Nat, NEW n \in Nat, NEW i \in 1 .. n, NEW j \in 1 .. n
  PROVE  /\ a * n + i \in Int
         /\ a < b => a * n + i < b * n + j
         /\ a = b => (a * n + i < b * n + j <=> i < j)
         /\ a * n + i = b * n + j => a = b /\ i = j
<1>1. ASSUME NEW x \in Nat, NEW y \in Nat, x < y PROVE x * n + n <= y * n
  <2>1. x + 1 <= y
    BY <1>1
  <2>2. (x + 1) * n <= y * n
    BY <2>1, TimesMonotone
  <2>3. (x + 1) * n = x * n + n
    OBVIOUS
  <2> QED
    BY <2>2, <2>3
<1>2. a * n \in Int /\ b * n \in Int
  OBVIOUS
<1>3. a < b => a * n + i < b * n + j
  BY <1>1, <1>2
<1>4. b < a => b * n + j < a * n + i
  BY <1>1, <1>2
<1>5. a = b => a * n = b * n
  OBVIOUS
<1> QED
  BY <1>2, <1>3, <1>4, <1>5

\* The browser's sort permutes the list and orders it by second.
LEMMA ChronologicalSorts ==
  ASSUME NEW s \in Seq(Messages), \A i \in DOMAIN s : Timestamp(s[i]) \in Nat
  PROVE  /\ Chronological(s) \in Seq(Messages)
         /\ DOMAIN Chronological(s) = DOMAIN s
         /\ \A k \in DOMAIN s : \E i \in DOMAIN s : Chronological(s)[k] = s[i]
         /\ \A i \in DOMAIN s : \E k \in DOMAIN s : Chronological(s)[k] = s[i]
         /\ \A k, l \in DOMAIN s :
               k < l => Timestamp(Chronological(s)[k]) <= Timestamp(Chronological(s)[l])
         /\ \A m : (\A i, j \in DOMAIN s : s[i] = m /\ s[j] = m => i = j)
               => \A k, l \in DOMAIN s :
                     Chronological(s)[k] = m /\ Chronological(s)[l] = m => k = l
<1> DEFINE n == Len(s)
           D == DOMAIN s
           key == [i \in D |-> Timestamp(s[i]) * n + i]
           order == Enumerate(D, key)
           C == Chronological(s)
<1>1. n \in Nat /\ D = 1 .. n /\ s \in [1 .. n -> Messages]
  OBVIOUS
<1>2. IsFiniteSet(D) /\ Cardinality(D) = n
  <2> HIDE DEF n, D
  <2>1. IsFiniteSet(1 .. n) /\ Cardinality(1 .. n) = n
    BY <1>1, FS_Interval
  <2> QED
    BY <1>1, <2>1
<1>3. /\ \A i \in D : key[i] \in Int
      /\ \A i, j \in D : key[i] = key[j] => i = j
      /\ \A i, j \in D : key[i] < key[j] => Timestamp(s[i]) <= Timestamp(s[j])
  <2>1. ASSUME NEW i \in D, NEW j \in D
        PROVE  /\ key[i] \in Int
               /\ key[i] = key[j] => i = j
               /\ key[i] < key[j] => Timestamp(s[i]) <= Timestamp(s[j])
    <3> DEFINE a == Timestamp(s[i])
               b == Timestamp(s[j])
    <3>1. a \in Nat /\ b \in Nat /\ i \in 1 .. n /\ j \in 1 .. n
      BY <1>1
    <3>2. key[i] = a * n + i /\ key[j] = b * n + j
      OBVIOUS
    <3> HIDE DEF a, b, key, n, D
    <3>3. /\ a * n + i \in Int /\ b * n + j \in Int
          /\ b < a => b * n + j < a * n + i
          /\ a * n + i = b * n + j => i = j
      BY <1>1, <3>1, KeyOrder
    <3>4. a * n + i < b * n + j => a <= b
      BY <3>1, <3>3
    <3> QED
      BY <3>2, <3>3, <3>4 DEF a, b
  <2> QED
    BY <2>1
<1>4. C = [k \in D |-> s[order[k]]]
  BY DEF Chronological
<1>i. D \subseteq Int
  BY <1>1
<1> HIDE DEF n, D, key, order, C
<1>5. /\ order \in [1 .. n -> D]
      /\ \A i \in D : \E k \in 1 .. n : order[k] = i
      /\ \A k, l \in 1 .. n : k < l => key[order[k]] < key[order[l]]
  BY <1>2, <1>3, EnumerateSorts DEF order
<1>6. \A k, l \in D : order[k] = order[l] => k = l
  <2> SUFFICES ASSUME NEW k \in D, NEW l \in D, order[k] = order[l], k # l PROVE FALSE
    OBVIOUS
  <2>1. k < l \/ l < k
    BY <1>i
  <2> QED
    <3>1. /\ key[order[k]] \in Int /\ key[order[l]] \in Int
          /\ key[order[k]] < key[order[l]] \/ key[order[l]] < key[order[k]]
      BY <1>1, <1>3, <1>5, <2>1
    <3> QED
      BY <3>1
<1>7. /\ C \in Seq(Messages)
      /\ DOMAIN C = D
      /\ \A k \in D : C[k] = s[order[k]] /\ order[k] \in D
  <2>1. \A k \in D : C[k] = s[order[k]] /\ order[k] \in D
    BY <1>1, <1>4, <1>5
  <2>2. C \in [1 .. n -> Messages]
    BY <1>1, <1>4, <2>1
  <2>3. C \in Seq(Messages)
    BY <1>1, <2>2
  <2> QED
    BY <1>4, <2>1, <2>3
<1>8. ASSUME NEW k \in D, NEW l \in D, k < l
      PROVE  Timestamp(C[k]) <= Timestamp(C[l])
  <2>1. key[order[k]] < key[order[l]] /\ order[k] \in D /\ order[l] \in D
    BY <1>1, <1>5, <1>7, <1>8
  <2>2. Timestamp(s[order[k]]) <= Timestamp(s[order[l]])
    BY <1>3, <2>1
  <2> QED
    BY <1>7, <2>2
<1>9. \A m : (\A i, j \in D : s[i] = m /\ s[j] = m => i = j)
               => \A k, l \in D : C[k] = m /\ C[l] = m => k = l
  BY <1>6, <1>7
<1>10. \A i \in D : \E k \in D : C[k] = s[i]
  BY <1>1, <1>5, <1>7
<1> QED
  BY <1>7, <1>8, <1>9, <1>10 DEF C, D

\* Rows have different times, and there are only so many: what is visible is
\* finite.
LEMMA VisibleFinite ==
  ASSUME FeedTypes, RowsTimed
  PROVE  IsFiniteSet(Visible)
<1> DEFINE f == [m \in Visible |-> createdAt[m]]
<1>1. \A m \in Visible : m \in Messages /\ row[m] # "none" /\ createdAt[m] \in 0 .. MaxTick
  BY TimestampTyped DEF Visible
<1>2. f \in Injection(Visible, 0 .. MaxTick)
  BY <1>1 DEF Injection, IsInjective, RowsTimed
<1>3. IsFiniteSet(0 .. MaxTick)
  BY LastSecond, FS_Interval
<1> HIDE DEF f
<1> QED
  BY <1>2, <1>3, FS_Injection

\* The server's answers list visible rows, each once, by time.
LEMMA ByCreationSorts ==
  ASSUME FeedTypes, RowsTimed, NEW S \in SUBSET Visible
  PROVE  /\ ByCreation(S) \in Seq(S)
         /\ \A m \in S : \E k \in DOMAIN ByCreation(S) : ByCreation(S)[k] = m
         /\ \A i, j \in DOMAIN ByCreation(S) :
               i < j => createdAt[ByCreation(S)[i]] < createdAt[ByCreation(S)[j]]
<1>1. IsFiniteSet(S)
  BY VisibleFinite, FS_Subset
<1>2. \A m \in S : m \in Messages /\ row[m] # "none" /\ createdAt[m] \in 0 .. MaxTick
  BY TimestampTyped DEF Visible
<1>3. /\ \A m \in S : createdAt[m] \in Int
      /\ \A m, n \in S : createdAt[m] = createdAt[n] => m = n
  BY <1>2, LastSecond DEF RowsTimed
<1> DEFINE n == Cardinality(S)
           B == ByCreation(S)
<1>4. /\ n \in Nat
      /\ B \in [1 .. n -> S]
      /\ \A m \in S : \E k \in 1 .. n : B[k] = m
      /\ \A i, j \in 1 .. n : i < j => createdAt[B[i]] < createdAt[B[j]]
  BY <1>1, <1>3, EnumerateSorts DEF ByCreation
<1> HIDE DEF n, B
<1>5. B \in Seq(S) /\ DOMAIN B = 1 .. n
  BY <1>4
<1> QED
  BY <1>4, <1>5 DEF B

-----------------------------------------------------------------------------
(* What the browser shows.                                                 *)

\* A list that shows visible messages, each foreign one once and those in the
\* order of their seconds.
WellShown(s) ==
  /\ \A i \in DOMAIN s : row[s[i]] = "committed"
  /\ \A i, j \in DOMAIN s : s[i] = s[j] /\ s[i] \notin Own => i = j
  /\ \A i, j \in DOMAIN s :
        i < j /\ s[i] \notin Own /\ s[j] \notin Own
          => Timestamp(s[i]) <= Timestamp(s[j])

\* The list is well shown, and so is every list a load will replace it by.
ShownInv ==
  /\ answered \subseteq Own
  /\ loads \in [Loads -> {IdleLoad} \cup AnsweredLoad]
  /\ list \in Seq(Messages)
  /\ WellShown(list)
  /\ \A l \in Loads : loads[l].phase = "answered" => WellShown(loads[l].snapshot)

\* An answered load carries a list.
LEMMA LoadFields ==
  ASSUME ShownInv, NEW l \in Loads, loads[l].phase = "answered"
  PROVE  loads[l].snapshot \in Seq(Messages)
<1>1. loads[l] \in {IdleLoad} \cup AnsweredLoad
  BY DEF ShownInv
<1>2. IdleLoad.phase = "idle"
  BY DEF IdleLoad
<1> QED
  BY <1>1, <1>2 DEF AnsweredLoad

\* The answer to a load is well shown.
LEMMA AnswerWellShown ==
  ASSUME FeedTypes, RowsTimed, NEW S \in SUBSET Visible
  PROVE  /\ ByCreation(S) \in Seq(Messages)
         /\ WellShown(ByCreation(S))
         /\ \A i \in DOMAIN ByCreation(S) : ByCreation(S)[i] \in S
         /\ \A i, j \in DOMAIN ByCreation(S) : ByCreation(S)[i] = ByCreation(S)[j] => i = j
<1> DEFINE B == ByCreation(S)
<1>1. /\ B \in Seq(S)
      /\ \A i, j \in DOMAIN B : i < j => createdAt[B[i]] < createdAt[B[j]]
  BY ByCreationSorts
<1> HIDE DEF B
<1>2. \A i \in DOMAIN B : B[i] \in S /\ i \in Nat
  BY <1>1
<1>3. \A m \in S : /\ m \in Messages /\ row[m] = "committed"
                   /\ createdAt[m] \in 0 .. MaxTick
  BY TimestampTyped DEF Visible
<1>4. ASSUME NEW i \in DOMAIN B, NEW j \in DOMAIN B, i < j
      PROVE  Timestamp(B[i]) <= Timestamp(B[j])
  <2>1. /\ createdAt[B[i]] \in 0 .. MaxTick /\ createdAt[B[j]] \in 0 .. MaxTick
        /\ createdAt[B[i]] < createdAt[B[j]]
    BY <1>1, <1>2, <1>3, <1>4
  <2>2. ASSUME NEW a \in Nat, NEW b \in Nat, NEW k \in Nat \ {0}, a < b
        PROVE  a \div k <= b \div k
    BY <2>2
  <2> QED
    BY <2>1, <2>2, TicksAssumption, LastSecond DEF Timestamp, Second
<1>5. ASSUME NEW i \in DOMAIN B, NEW j \in DOMAIN B, B[i] = B[j] PROVE i = j
  <2>1. createdAt[B[i]] \in Int /\ createdAt[B[j]] \in Int
    BY <1>2, <1>3, LastSecond
  <2>2. ~ (i < j) /\ ~ (j < i)
    BY <1>1, <1>5, <2>1
  <2> QED
    BY <1>2, <2>2
<1>6. B \in Seq(Messages)
  BY <1>1, <1>3
<1>7. WellShown(B)
  BY <1>2, <1>3, <1>4, <1>5 DEF WellShown
<1> QED
  BY <1>2, <1>5, <1>6, <1>7 DEF B

\* Merging an answer into a well shown list leaves it well shown.
LEMMA MergeWellShown ==
  ASSUME FeedTypes, RowsTimed, NEW s \in Seq(Messages), WellShown(s),
         NEW updates \in SUBSET Visible
  PROVE  MergeUpdates(s, updates) \in Seq(Messages) /\ WellShown(MergeUpdates(s, updates))
<1> DEFINE new == updates \ ToSet(s)
           B == ByCreation(new)
           u == s \o B
<1>1. CASE new = {}
  BY <1>1 DEF MergeUpdates
<1>2. CASE new # {}
  <2>1. /\ B \in Seq(Messages) /\ WellShown(B)
        /\ \A i \in DOMAIN B : B[i] \in new
        /\ \A i, j \in DOMAIN B : B[i] = B[j] => i = j
    <3>1. new \in SUBSET Visible
      OBVIOUS
    <3> QED
      BY <3>1, AnswerWellShown
  <2>2. \A i \in DOMAIN s : s[i] \notin new
    BY DEF ToSet
  <2>3. MergeUpdates(s, updates) = Chronological(u)
    BY <1>2 DEF MergeUpdates
  <2> HIDE DEF new, B
  <2>4. /\ u \in Seq(Messages)
        /\ DOMAIN u = 1 .. Len(s) + Len(B)
        /\ \A i \in DOMAIN u : IF i <= Len(s) THEN i \in DOMAIN s /\ u[i] = s[i]
                               ELSE i - Len(s) \in DOMAIN B /\ u[i] = B[i - Len(s)]
    BY <2>1
  <2>n. Len(s) \in Nat /\ DOMAIN s = 1 .. Len(s) /\ Len(B) \in Nat /\ DOMAIN B = 1 .. Len(B)
    BY <2>1
  <2> HIDE DEF u
  <2>5. \A i \in DOMAIN u : row[u[i]] = "committed" /\ u[i] \in Messages
    BY <2>1, <2>4 DEF WellShown
  <2>6. \A i, j \in DOMAIN u : u[i] = u[j] /\ u[i] \notin Own => i = j
    <3> SUFFICES ASSUME NEW i \in DOMAIN u, NEW j \in DOMAIN u, u[i] = u[j], u[i] \notin Own
                 PROVE  i = j
      OBVIOUS
    <3>1. CASE i <= Len(s) /\ j <= Len(s)
      BY <2>4, <3>1 DEF WellShown
    <3>2. CASE ~ (i <= Len(s)) /\ ~ (j <= Len(s))
      <4>1. i - Len(s) = j - Len(s)
        BY <2>1, <2>4, <3>2
      <4> QED
        BY <2>4, <2>n, <4>1
    <3>3. CASE (i <= Len(s)) # (j <= Len(s))
      BY <2>1, <2>2, <2>4, <3>3
    <3> QED
      BY <3>1, <3>2, <3>3
  <2>7. \A i \in DOMAIN u : Timestamp(u[i]) \in Nat
    BY <2>5, TimestampTyped, LastSecond
  <2> DEFINE C == Chronological(u)
  <2>8. /\ C \in Seq(Messages)
        /\ DOMAIN C = DOMAIN u
        /\ \A k \in DOMAIN u : \E i \in DOMAIN u : C[k] = u[i]
        /\ \A k, l \in DOMAIN u : k < l => Timestamp(C[k]) <= Timestamp(C[l])
        /\ \A m : (\A i, j \in DOMAIN u : u[i] = m /\ u[j] = m => i = j)
               => \A k, l \in DOMAIN u : C[k] = m /\ C[l] = m => k = l
    BY <2>4, <2>7, ChronologicalSorts
  <2> HIDE DEF C
  <2>9. \A k \in DOMAIN C : row[C[k]] = "committed"
    BY <2>5, <2>8
  <2>10. \A k, l \in DOMAIN C : C[k] = C[l] /\ C[k] \notin Own => k = l
    <3> SUFFICES ASSUME NEW k \in DOMAIN C, NEW l \in DOMAIN C, NEW m,
                        m = C[k], m = C[l], m \notin Own
                 PROVE  k = l
      OBVIOUS
    <3>1. \A i, j \in DOMAIN u : u[i] = m /\ u[j] = m => i = j
      BY <2>6
    <3> QED
      BY <2>8, <3>1
  <2>11. WellShown(C)
    BY <2>8, <2>9, <2>10 DEF WellShown
  <2> QED
    BY <2>3, <2>8, <2>11 DEF C
<1> QED
  BY <1>1, <1>2

LEMMA ShownInit == Init => ShownInv
<1> SUFFICES ASSUME Init PROVE ShownInv
  OBVIOUS
<1>1. list = <<>> /\ answered = {} /\ loads = [l \in Loads |-> IdleLoad]
  BY DEF Init
<1>2. list \in Seq(Messages) /\ DOMAIN list = {}
  BY <1>1
<1>3. WellShown(list)
  BY <1>2 DEF WellShown
<1>4. \A l \in Loads : loads[l].phase # "answered"
  BY <1>1 DEF IdleLoad
<1> QED
  BY <1>1, <1>2, <1>3, <1>4 DEF ShownInv

LEMMA ShownStep == FeedTypes /\ RowsTimed /\ ShownInv /\ [Next]_vars => ShownInv'
<1> SUFFICES ASSUME FeedTypes, RowsTimed, ShownInv, [Next]_vars PROVE ShownInv'
  OBVIOUS
<1>1. /\ list \in Seq(Messages) /\ WellShown(list)
      /\ loads \in [Loads -> {IdleLoad} \cup AnsweredLoad]
      /\ answered \subseteq Own
      /\ \A l \in Loads : loads[l].phase = "answered"
           => loads[l].snapshot \in Seq(Messages) /\ WellShown(loads[l].snapshot)
  BY LoadFields DEF ShownInv
<1>2. \A m \in Messages : row[m] = "committed"
        => row'[m] = "committed" /\ Timestamp(m)' = Timestamp(m)
  BY CommittedStays
<1>3. ASSUME NEW s \in Seq(Messages), WellShown(s), list' = s
      PROVE  list' \in Seq(Messages) /\ WellShown(list)'
  <2>1. \A i \in DOMAIN s : /\ list'[i] \in Messages /\ list'[i] = s[i]
                            /\ row'[list'[i]] = "committed"
                            /\ Timestamp(list[i])' = Timestamp(s[i])
    BY <1>2, <1>3 DEF WellShown, Timestamp
  <2> QED
    BY <1>3, <2>1 DEF WellShown
<1>4. ASSUME NEW l \in Loads, NEW s \in Seq(Messages), WellShown(s), loads[l]'.snapshot = s
      PROVE  WellShown(loads[l].snapshot)'
  <2>1. \A i \in DOMAIN s : /\ row'[s[i]] = "committed"
                            /\ Timestamp(loads[l].snapshot[i])' = Timestamp(s[i])
    BY <1>2, <1>4 DEF WellShown, Timestamp
  <2> QED
    BY <1>4, <2>1 DEF WellShown
<1>i. IdleLoad.phase = "idle"
  BY DEF IdleLoad
<1>5. CASE UNCHANGED <<answered, loads, list>>
  <2>1. \A l \in Loads : loads'[l] = loads[l]
    BY <1>5
  <2>2. \A l \in Loads : loads'[l].phase = "answered" => WellShown(loads[l].snapshot)'
    BY <1>1, <1>4, <2>1
  <2> QED
    BY <1>1, <1>3, <1>5, <2>2 DEF ShownInv
<1>6. ASSUME NEW p \in Polls, HandlePoll(p) PROVE ShownInv'
  <2>1. /\ list' = MergeUpdates(list, polls[p].updates)
        /\ polls[p].updates \in SUBSET Visible
        /\ UNCHANGED <<answered, loads>>
    BY <1>6 DEF HandlePoll, RowsTimed
  <2>2. /\ MergeUpdates(list, polls[p].updates) \in Seq(Messages)
        /\ WellShown(MergeUpdates(list, polls[p].updates))
    BY <1>1, <2>1, MergeWellShown
  <2>3. \A l \in Loads : loads'[l].phase = "answered" => WellShown(loads[l].snapshot)'
    <3>1. \A l \in Loads : loads'[l] = loads[l]
      BY <2>1
    <3> QED
      BY <1>1, <1>4, <3>1
  <2>4. list' \in Seq(Messages) /\ WellShown(list)'
    BY <1>3, <2>1, <2>2
  <2> QED
    BY <1>1, <2>1, <2>3, <2>4 DEF ShownInv
<1>7. ASSUME NEW l \in Loads, AnswerLoad(l) PROVE ShownInv'
  <2> DEFINE B == ByCreation(Visible)
             q == [phase |-> "answered", snapshot |-> B]
  <2>1. /\ loads' = [loads EXCEPT ![l] = q]
        /\ UNCHANGED <<answered, list>>
    BY <1>7 DEF AnswerLoad
  <2>2. B \in Seq(Messages) /\ WellShown(B)
    BY AnswerWellShown
  <2> HIDE DEF B
  <2>3. q \in AnsweredLoad /\ q.snapshot = B
    BY <2>2 DEF AnsweredLoad
  <2>4. loads' \in [Loads -> {IdleLoad} \cup AnsweredLoad]
    BY <1>1, <2>1, <2>3
  <2>5. ASSUME NEW k \in Loads, loads'[k].phase = "answered"
        PROVE  WellShown(loads[k].snapshot)'
    <3>1. CASE k = l
      <4>1. loads'[k].snapshot = B
        BY <1>1, <2>1, <2>3, <3>1
      <4> QED
        BY <1>4, <2>2, <4>1
    <3>2. CASE k # l
      <4>1. loads'[k] = loads[k]
        BY <1>1, <2>1, <3>2
      <4> QED
        BY <1>1, <1>4, <2>5, <4>1
    <3> QED
      BY <3>1, <3>2
  <2>6. list' \in Seq(Messages) /\ WellShown(list)'
    BY <1>1, <1>3, <2>1
  <2> QED
    BY <1>1, <2>1, <2>4, <2>5, <2>6 DEF ShownInv
<1>8. ASSUME NEW l \in Loads, HandleLoad(l) PROVE ShownInv'
  <2>1. /\ loads[l].phase = "answered"
        /\ list' = loads[l].snapshot
        /\ loads' = [loads EXCEPT ![l] = IdleLoad]
        /\ UNCHANGED answered
    BY <1>8 DEF HandleLoad
  <2>2. loads' \in [Loads -> {IdleLoad} \cup AnsweredLoad]
    BY <1>1, <2>1
  <2>3. ASSUME NEW k \in Loads, loads'[k].phase = "answered"
        PROVE  WellShown(loads[k].snapshot)'
    <3>1. k # l
      BY <1>1, <1>i, <2>1, <2>3
    <3>2. loads'[k] = loads[k]
      BY <1>1, <2>1, <3>1
    <3> QED
      BY <1>1, <1>4, <2>3, <3>2
  <2>4. list' \in Seq(Messages) /\ WellShown(list)'
    BY <1>1, <1>3, <2>1
  <2> QED
    BY <1>1, <2>1, <2>2, <2>3, <2>4 DEF ShownInv
<1>9. ASSUME NEW m \in Messages, HandleSent(m) PROVE ShownInv'
  <2> DEFINE s == Append(list, m)
  <2>1. /\ m \in Own
        /\ row[m] = "committed"
        /\ answered' = answered \cup {m}
        /\ list' = s
        /\ UNCHANGED loads
    BY <1>9 DEF HandleSent
  <2>2. /\ s \in Seq(Messages)
        /\ DOMAIN s = 1 .. Len(list) + 1
        /\ DOMAIN list = 1 .. Len(list)
        /\ Len(list) \in Nat
        /\ \A i \in DOMAIN s : IF i = Len(list) + 1 THEN s[i] = m
                               ELSE i \in DOMAIN list /\ s[i] = list[i]
    BY <1>1
  <2> HIDE DEF s
  <2>3. WellShown(s)
    <3>1. \A i \in DOMAIN s : row[s[i]] = "committed"
      BY <1>1, <2>1, <2>2 DEF WellShown
    <3>2. \A i \in DOMAIN s : s[i] \notin Own => i \in DOMAIN list /\ s[i] = list[i]
      BY <2>1, <2>2
    <3> QED
      BY <1>1, <3>1, <3>2 DEF WellShown
  <2>4. \A l \in Loads : loads'[l].phase = "answered" => WellShown(loads[l].snapshot)'
    <3>1. \A l \in Loads : loads'[l] = loads[l]
      BY <2>1
    <3> QED
      BY <1>1, <1>4, <3>1
  <2>5. list' \in Seq(Messages) /\ WellShown(list)'
    BY <1>3, <2>1, <2>2, <2>3
  <2> QED
    BY <1>1, <2>1, <2>4, <2>5 DEF ShownInv
<1> QED
  BY <1>5, <1>6, <1>7, <1>8, <1>9
  DEF Next, Server, InsertMessage, CommitMessage, RollBackMessage, Poll, SendPoll,
      AnswerPoll, FailPoll, Load, vars

\* The list is well shown in every state.
LEMMA AlwaysShown == Spec => [](FeedTypes /\ RowsTimed /\ ShownInv)
<1>1. Init => FeedTypes /\ RowsTimed /\ ShownInv
  BY FeedTypesInit, ShownInit
<1>2. (FeedTypes /\ RowsTimed /\ ShownInv) /\ [Next]_vars
        => (FeedTypes /\ RowsTimed /\ ShownInv)'
  BY FeedTypesStep, ShownStep
<1> QED
  BY <1>1, <1>2, PTL DEF Spec

\* Every variable of the feed keeps its type: the cursor stays within the run's
\* seconds, and sorting and merging make lists of messages.
THEOREM FeedTypeCorrect == Spec => []TypeOK
<1>1. FeedTypes /\ RowsTimed /\ ShownInv => TypeOK
  BY DEF FeedTypes, RowsTimed, ShownInv, TypeOK
<1> QED
  BY <1>1, AlwaysShown, PTL

\* Whatever polls and loads are in flight and in whatever order they return,
\* ChatContext never shows a message of somebody else twice (handleMessageUpdate
\* looks for its id, and a load replaces the list).
THEOREM ForeignShownOnceAlways == Spec => []ForeignShownOnce
<1>1. FeedTypes /\ RowsTimed /\ ShownInv => ForeignShownOnce
  <2> SUFFICES ASSUME ShownInv, NEW m \in Messages \ Own PROVE Occurrences(m) <= 1
    BY DEF ForeignShownOnce
  <2> DEFINE P == {i \in DOMAIN list : list[i] = m}
  <2>1. \A i, j \in P : i = j
    BY DEF ShownInv, WellShown
  <2>2. P = {} \/ \E i : P = {i}
    BY <2>1
  <2> HIDE DEF P
  <2>3. Cardinality(P) <= 1
    BY <2>2, FS_EmptySet, FS_Singleton
  <2> QED
    BY <2>3 DEF P, Occurrences
<1> QED
  BY <1>1, AlwaysShown, PTL

\* Messages of others stand in the order of their timestamps, also when an older
\* answer arrives after a newer one: the list is sorted after each message that
\* is new, and an own message appended at the end moves no other.
THEOREM ForeignInOrderAlways == Spec => []ForeignInOrder
<1>1. FeedTypes /\ RowsTimed /\ ShownInv => ForeignInOrder
  BY DEF ShownInv, WellShown, ForeignInOrder
<1> QED
  BY <1>1, AlwaysShown, PTL
=============================================================================

--------------------------- MODULE DummyStoreProofs ---------------------------
(* Theorems about DummyStore, for any number of calls, new users and any    *)
(* length of time.                                                          *)
EXTENDS DummyStore, TLAPS

\* The clock starts within its bound, and the initial ids are before it.
LEMMA Times == Start = 7 /\ MaxTime \in Nat /\ MaxTime >= 7 /\ Start \in 1 .. MaxTime
  BY TimeAssumption DEF Start

\* The parts of a document.
LEMMA Fields ==
  ASSUME NEW d \in Document
  PROVE  /\ d.conversations \subseteq Conversation
         /\ d.messages \subseteq Message
         /\ d.waiting \subseteq Conversation
         /\ d.assigned \subseteq Conversation
         /\ d.profile \in {"initial", "edited"}
         /\ d # NoDocument
  BY NoDocumentAssumption DEF Document

\* The initial data is a document.
LEMMA InitialTyped == InitialDocument \in Document
<1>1. /\ InitialConversation(1, "alice", "bob") \in Conversation
      /\ InitialConversation(2, "bob", Nobody) \in Conversation
      /\ InitialConversation(3, "charlie", "alice") \in Conversation
  BY Times DEF InitialConversation, Conversation, Users, InitialUsers, MaybeUser
<1>2. InitialConversations \subseteq Conversation
  BY <1>1 DEF InitialConversations
<1>3. InitialMessages \subseteq Message
  BY Times DEF InitialMessages, Says, Message, Users, InitialUsers
<1> QED
  BY <1>2, <1>3 DEF InitialDocument, Document

\* What is stored is a document.
LEMMA StoredTyped == TypeOK => Stored \in Document
  BY InitialTyped DEF TypeOK, Stored

\* What has been written is what is stored.
LEMMA Written ==
  /\ doc' \in Document => Stored' = doc'
  /\ UNCHANGED doc => Stored' = Stored
  BY NoDocumentAssumption DEF Stored

\* The row of a conversation that is there.
LEMMA RowFound ==
  ASSUME NEW d \in Document, NEW c \in Ids(d.conversations)
  PROVE  /\ Row(d, c) \in d.conversations
         /\ Row(d, c) \in Conversation
         /\ Row(d, c).id = c
         /\ c \in 1 .. MaxTime
<1>1. \E r \in d.conversations : r.id = c
  BY DEF Ids
<1>2. Row(d, c) \in d.conversations /\ Row(d, c).id = c
  BY <1>1 DEF Row
<1>3. Row(d, c) \in Conversation
  BY <1>2, Fields
<1> QED
  BY <1>2, <1>3 DEF Conversation

-----------------------------------------------------------------------------
(* What each method makes of a document.                                   *)

LEMMA UpdatedFields ==
  ASSUME NEW d \in Document, NEW c, NEW r \in Conversation
  PROVE  /\ Updated(d, c, r) \in Document
         /\ Updated(d, c, r).conversations = Without(d.conversations, c) \cup {r}
         /\ Updated(d, c, r).messages = d.messages
         /\ Updated(d, c, r).waiting = d.waiting
         /\ Updated(d, c, r).assigned = d.assigned
         /\ Updated(d, c, r).profile = d.profile
  BY DEF Updated, Document, Without

\* A new conversation, with the clock's value for its id.
LEMMA CreateFields ==
  ASSUME NEW d \in Document, NEW u \in Users, NEW now \in 1 .. MaxTime
  PROVE  LET e == WithConversation(d, u, now) IN
         /\ e \in Document
         /\ \E r \in Conversation : /\ r.id = now /\ r.expert = Nobody
                                    /\ r.status = "waiting"
                                    /\ e.conversations = d.conversations \cup {r}
         /\ e.messages = d.messages
         /\ e.waiting = d.waiting /\ e.assigned = d.assigned
         /\ e.profile = d.profile
<1> DEFINE r == [id |-> now, questioner |-> u, expert |-> Nobody, status |-> "waiting"]
           e == WithConversation(d, u, now)
<1>1. r \in Conversation /\ r.id = now /\ r.expert = Nobody /\ r.status = "waiting"
  BY DEF Conversation, MaybeUser
<1>2. e = [d EXCEPT !.conversations = @ \cup {r}]
  BY DEF WithConversation
<1> HIDE DEF r
<1>3. /\ e \in Document
      /\ e.conversations = d.conversations \cup {r}
      /\ e.messages = d.messages
      /\ e.waiting = d.waiting /\ e.assigned = d.assigned
      /\ e.profile = d.profile
  BY <1>1, <1>2 DEF Document
<1> QED
  BY <1>1, <1>3

\* Document e has, for conversation c of d, a row that expert u has claimed.
HasClaim(e, d, c, u) ==
  \E r \in Conversation :
    /\ r.id = c /\ r.expert = u /\ r.status = "active"
    /\ e.conversations = Without(d.conversations, c) \cup {r}
    /\ e.assigned = d.assigned \cup {r}

\* A claim gives the conversation its expert and moves it between the lists.
LEMMA ClaimFields ==
  ASSUME NEW d \in Document, NEW c \in Ids(d.conversations), NEW u \in Users
  PROVE  LET e == Claimed(d, c, u) IN
         /\ e \in Document
         /\ HasClaim(e, d, c, u)
         /\ e.messages = d.messages
         /\ e.waiting = Without(d.waiting, c)
         /\ e.profile = d.profile
<1> DEFINE r == [Row(d, c) EXCEPT !.expert = u, !.status = "active"]
           e == Claimed(d, c, u)
           w == Updated(d, c, r)
<1>1. r \in Conversation /\ r.id = c /\ r.expert = u /\ r.status = "active"
  <2>1. Row(d, c) \in Conversation /\ Row(d, c).id = c /\ u \in MaybeUser
    BY RowFound DEF MaybeUser
  <2>2. ASSUME NEW q \in Conversation, u \in MaybeUser
        PROVE  LET s == [q EXCEPT !.expert = u, !.status = "active"]
               IN  /\ s \in Conversation /\ s.id = q.id
                   /\ s.expert = u /\ s.status = "active"
    BY <2>2 DEF Conversation
  <2> QED
    BY <2>1, <2>2
<1>2. e = [w EXCEPT !.waiting = Without(@, c), !.assigned = @ \cup {r}]
  BY DEF Claimed
<1> HIDE DEF r
<1>3. /\ w \in Document
      /\ w.conversations = Without(d.conversations, c) \cup {r}
      /\ w.messages = d.messages
      /\ w.waiting = d.waiting
      /\ w.assigned = d.assigned
      /\ w.profile = d.profile
  BY <1>1, UpdatedFields
<1> HIDE DEF w
<1>4. /\ e \in Document
      /\ e.conversations = w.conversations
      /\ e.messages = w.messages
      /\ e.waiting = Without(w.waiting, c)
      /\ e.assigned = w.assigned \cup {r}
      /\ e.profile = w.profile
  BY <1>1, <1>2, <1>3 DEF Document, Without
<1> QED
  BY <1>1, <1>3, <1>4 DEF HasClaim

\* A release is the reverse.
LEMMA UnclaimFields ==
  ASSUME NEW d \in Document, NEW c \in Ids(d.conversations)
  PROVE  LET e == Unclaimed(d, c) IN
         /\ e \in Document
         /\ \E r \in Conversation :
              /\ r.id = c /\ r.expert = Nobody /\ r.status = "waiting"
              /\ e.conversations = Without(d.conversations, c) \cup {r}
              /\ e.waiting = d.waiting \cup {r}
         /\ e.messages = d.messages
         /\ e.assigned = Without(d.assigned, c)
         /\ e.profile = d.profile
<1> DEFINE r == [Row(d, c) EXCEPT !.expert = Nobody, !.status = "waiting"]
           e == Unclaimed(d, c)
           w == Updated(d, c, r)
<1>1. r \in Conversation /\ r.id = c /\ r.expert = Nobody /\ r.status = "waiting"
  <2>1. Row(d, c) \in Conversation /\ Row(d, c).id = c /\ Nobody \in MaybeUser
    BY RowFound DEF MaybeUser
  <2>2. ASSUME NEW q \in Conversation, Nobody \in MaybeUser
        PROVE  LET s == [q EXCEPT !.expert = Nobody, !.status = "waiting"]
               IN  /\ s \in Conversation /\ s.id = q.id
                   /\ s.expert = Nobody /\ s.status = "waiting"
    BY <2>2 DEF Conversation
  <2> QED
    BY <2>1, <2>2
<1>2. e = [w EXCEPT !.assigned = Without(@, c), !.waiting = @ \cup {r}]
  BY DEF Unclaimed
<1> HIDE DEF r
<1>3. /\ w \in Document
      /\ w.conversations = Without(d.conversations, c) \cup {r}
      /\ w.messages = d.messages
      /\ w.waiting = d.waiting
      /\ w.assigned = d.assigned
      /\ w.profile = d.profile
  BY <1>1, UpdatedFields
<1> HIDE DEF w
<1>4. /\ e \in Document
      /\ e.conversations = w.conversations
      /\ e.messages = w.messages
      /\ e.waiting = w.waiting \cup {r}
      /\ e.assigned = Without(w.assigned, c)
      /\ e.profile = w.profile
  BY <1>1, <1>2, <1>3 DEF Document, Without
<1> QED
  BY <1>1, <1>3, <1>4

\* An update changes the row's status, and not its expert.
LEMMA ResolveFields ==
  ASSUME NEW d \in Document, NEW c \in Ids(d.conversations)
  PROVE  LET e == Resolved(d, c) IN
         /\ e \in Document
         /\ \E r \in Conversation :
              /\ r.id = c /\ r.expert = Row(d, c).expert /\ r.status = "resolved"
              /\ e.conversations = Without(d.conversations, c) \cup {r}
         /\ e.messages = d.messages
         /\ e.waiting = d.waiting /\ e.assigned = d.assigned
         /\ e.profile = d.profile
<1> DEFINE r == [Row(d, c) EXCEPT !.status = "resolved"]
<1>1. r \in Conversation /\ r.id = c /\ r.expert = Row(d, c).expert
      /\ r.status = "resolved"
  BY RowFound DEF Conversation
<1>2. Resolved(d, c) = Updated(d, c, r)
  BY DEF Resolved
<1> HIDE DEF r
<1> QED
  BY <1>1, <1>2, UpdatedFields

\* A deletion takes the conversation and its messages away.
LEMMA DeleteFields ==
  ASSUME NEW d \in Document, NEW c
  PROVE  LET e == Deleted(d, c) IN
         /\ e \in Document
         /\ e.conversations = Without(d.conversations, c)
         /\ e.messages = {m \in d.messages : m.conversation # c}
         /\ e.waiting = d.waiting /\ e.assigned = d.assigned
         /\ e.profile = d.profile
  BY DEF Deleted, Document, Without

\* A message is added.
LEMMA SendFields ==
  ASSUME NEW d \in Document, NEW c \in 1 .. MaxTime, NEW q, NEW u \in Users,
         NEW now \in 1 .. MaxTime
  PROVE  LET e == WithMessage(d, c, q, u, now) IN
         /\ e \in Document
         /\ e.conversations = d.conversations
         /\ d.messages \subseteq e.messages
         /\ e.waiting = d.waiting /\ e.assigned = d.assigned
         /\ e.profile = d.profile
<1> DEFINE m == Says(now, c, u, IF q = u THEN "initiator" ELSE "expert")
           e == WithMessage(d, c, q, u, now)
<1>1. m \in Message
  BY DEF Says, Message
<1>2. e = [d EXCEPT !.messages = @ \cup {m}]
  BY DEF WithMessage
<1> HIDE DEF m
<1> QED
  BY <1>1, <1>2 DEF Document

\* The profile is edited.
LEMMA ProfileFields ==
  ASSUME NEW d \in Document
  PROVE  LET e == [d EXCEPT !.profile = "edited"] IN
         /\ e \in Document
         /\ e.conversations = d.conversations /\ e.messages = d.messages
         /\ e.waiting = d.waiting /\ e.assigned = d.assigned
         /\ e.profile = "edited"
  BY DEF Document

-----------------------------------------------------------------------------
(* Types.                                                                  *)

\* A call holds the document it is going to write back, and knows the
\* conversation it was made for.
CallsKnow ==
  \A k \in Calls :
    /\ calls[k].op \in {"create", "claim"} <=> calls[k].read # NoDocument
    /\ calls[k].op = "claim" => calls[k].conversation \in Ids(calls[k].read.conversations)
    /\ calls[k].op \in {"find", "send"} => calls[k].conversation \in 1 .. MaxTime

\* The fields of a call.
LEMMA CallFields ==
  ASSUME TypeOK, NEW k \in Calls
  PROVE  /\ calls[k].op \in Operations
         /\ calls[k].conversation \in 0 .. MaxTime
         /\ calls[k].questioner \in MaybeUser
         /\ calls[k].user \in MaybeUser
         /\ calls[k].read \in Document \cup {NoDocument}
         /\ calls[k].since \in Start .. MaxTime
  BY DEF TypeOK, Call

\* A call that awaits.
LEMMA AwaitStep ==
  ASSUME TypeOK, NEW k \in Calls, NEW op \in Operations, NEW c \in 0 .. MaxTime,
         NEW q \in MaybeUser, NEW u \in MaybeUser,
         NEW d \in Document \cup {NoDocument}, Await(k, op, c, q, u, d)
  PROVE  /\ calls' \in [Calls -> Call]
         /\ calls'[k].op = op /\ calls'[k].conversation = c
         /\ calls'[k].read = d /\ calls'[k].since = clock
         /\ \A x \in Calls : x # k => calls'[x] = calls[x]
<1> DEFINE n == [op |-> op, conversation |-> c, questioner |-> q, user |-> u,
                 read |-> d, since |-> clock]
<1>1. n \in Call /\ n.op = op /\ n.conversation = c /\ n.read = d /\ n.since = clock
  BY DEF TypeOK, Call
<1>2. calls' = [calls EXCEPT ![k] = n]
  BY DEF Await
<1> HIDE DEF n
<1> QED
  BY <1>1, <1>2 DEF TypeOK

\* A call that is over.
LEMMA ReturnStep ==
  ASSUME TypeOK, NEW k \in Calls, Return(k)
  PROVE  /\ calls' \in [Calls -> Call]
         /\ calls'[k].op = "over" /\ calls'[k].read = NoDocument
         /\ \A x \in Calls : x # k => calls'[x] = calls[x]
<1> DEFINE n == [Idle EXCEPT !.op = "over"]
<1>1. n \in Call /\ n.op = "over" /\ n.read = NoDocument
  BY Times DEF Idle, Call, Operations, MaybeUser
<1>2. calls' = [calls EXCEPT ![k] = n]
  BY DEF Return
<1> HIDE DEF n
<1> QED
  BY <1>1, <1>2 DEF TypeOK

\* Before the page is opened the state is typed and nothing is awaited.
LEMMA StoreTypeInit == Init => TypeOK /\ CallsKnow
<1>1. Idle \in Call /\ Idle.op = "idle" /\ Idle.read = NoDocument
  BY Times DEF Idle, Call, Operations, MaybeUser
<1> QED
  BY <1>1, Times DEF Init, TypeOK, CallsKnow, Users, MaybeUser

\* Documents stay documents.
LEMMA DocumentTypeStep ==
  TypeOK /\ CallsKnow /\ [Next]_vars => doc' \in Document \cup {NoDocument}
<1> SUFFICES ASSUME TypeOK, CallsKnow, [Next]_vars
             PROVE  doc' \in Document \cup {NoDocument}
  OBVIOUS
<1>s. Stored \in Document
  BY StoredTyped
<1>c. clock \in 1 .. MaxTime
  BY Times DEF TypeOK
<1>1. CASE InitializeStorage
  BY <1>1, <1>s DEF InitializeStorage
<1>2. ASSUME NEW k \in Calls, FinishCreate(k) \/ FinishClaim(k)
      PROVE  doc' \in Document
  <2>1. calls[k].read \in Document /\ calls[k].user \in Users
    BY <1>2, CallFields DEF FinishCreate, FinishClaim, Resumes, CallsKnow, MaybeUser
  <2>2. CASE FinishCreate(k)
    BY <1>c, <2>1, <2>2, CreateFields DEF FinishCreate
  <2>3. CASE FinishClaim(k)
    BY <2>1, <2>3, ClaimFields DEF FinishClaim, Resumes, CallsKnow
  <2> QED
    BY <1>2, <2>2, <2>3
<1>3. ASSUME NEW k \in Calls, FinishSend(k) PROVE doc' \in Document
  <2>1. calls[k].conversation \in 1 .. MaxTime /\ calls[k].user \in Users
    BY <1>3, CallFields DEF FinishSend, Resumes, CallsKnow, MaybeUser
  <2> QED
    BY <1>3, <1>s, <1>c, <2>1, SendFields DEF FinishSend
<1>4. ASSUME NEW k \in Calls, NEW c \in 1 .. MaxTime,
             \/ UnclaimConversation(k, c)
             \/ UpdateConversation(k, c)
             \/ DeleteConversation(k, c)
      PROVE  doc' \in Document
  BY <1>4, <1>s, UnclaimFields, ResolveFields, DeleteFields
  DEF UnclaimConversation, UpdateConversation, DeleteConversation, Finds
<1>5. ASSUME NEW k \in Calls, UpdateExpertProfile(k) PROVE doc' \in Document
  BY <1>5, <1>s, ProfileFields DEF UpdateExpertProfile
<1>6. CASE UNCHANGED doc
  BY <1>6 DEF TypeOK
<1> QED
  BY <1>1, <1>2, <1>3, <1>4, <1>5, <1>6
  DEF Next, ChatService, OnConversation, Continue, AuthService, StartCreate,
      StartClaim, StartSend, AskSender, FailWithoutUser, Login, Register, Logout,
      Tick, vars

\* A step of a call makes it await something or ends it, and leaves the others
\* alone; a call that awaits a write holds a document.
LEMMA CallsTypeStep ==
  TypeOK /\ CallsKnow /\ [Next]_vars => calls' \in [Calls -> Call] /\ CallsKnow'
<1> SUFFICES ASSUME TypeOK, CallsKnow, [Next]_vars
             PROVE  calls' \in [Calls -> Call] /\ CallsKnow'
  OBVIOUS
<1>s. Stored \in Document /\ Stored # NoDocument
  BY StoredTyped, Fields
<1>u. auth.user \in MaybeUser /\ Nobody \in MaybeUser
  BY DEF TypeOK, MaybeUser
<1>0. 0 \in 0 .. MaxTime
  BY Times
<1>1. ASSUME NEW k \in Calls, StartCreate(k)
      PROVE  calls' \in [Calls -> Call] /\ CallsKnow'
  <2>1. "create" \in Operations
    BY DEF Operations
  <2>2. /\ calls' \in [Calls -> Call]
        /\ calls'[k].op = "create" /\ calls'[k].read = Stored
        /\ \A x \in Calls : x # k => calls'[x] = calls[x]
    BY <1>1, <1>s, <1>u, <1>0, <2>1, AwaitStep DEF StartCreate
  <2> QED
    BY <1>s, <2>2 DEF CallsKnow
<1>2. ASSUME NEW k \in Calls, NEW c \in 1 .. MaxTime, StartClaim(k, c)
      PROVE  calls' \in [Calls -> Call] /\ CallsKnow'
  <2>1. "claim" \in Operations /\ c \in 0 .. MaxTime
    BY Times DEF Operations
  <2>2. /\ calls' \in [Calls -> Call]
        /\ calls'[k].op = "claim" /\ calls'[k].read = Stored
        /\ calls'[k].conversation = c
        /\ \A x \in Calls : x # k => calls'[x] = calls[x]
    BY <1>2, <1>s, <1>u, <2>1, AwaitStep DEF StartClaim
  <2>3. c \in Ids(Stored.conversations)
    BY <1>2 DEF StartClaim, Finds
  <2> QED
    BY <1>s, <2>2, <2>3 DEF CallsKnow
<1>3. ASSUME NEW k \in Calls, NEW c \in 1 .. MaxTime, StartSend(k, c)
      PROVE  calls' \in [Calls -> Call] /\ CallsKnow'
  <2>1. "find" \in Operations /\ c \in 0 .. MaxTime
    BY Times DEF Operations
  <2>2. Row(Stored, c).questioner \in MaybeUser
    BY <1>3, <1>s, RowFound DEF StartSend, Finds, Conversation, MaybeUser
  <2>3. /\ calls' \in [Calls -> Call]
        /\ calls'[k].op = "find" /\ calls'[k].read = NoDocument
        /\ calls'[k].conversation = c
        /\ \A x \in Calls : x # k => calls'[x] = calls[x]
    BY <1>3, <1>u, <2>1, <2>2, AwaitStep DEF StartSend
  <2> QED
    BY <2>3 DEF CallsKnow
<1>4. ASSUME NEW k \in Calls, AskSender(k)
      PROVE  calls' \in [Calls -> Call] /\ CallsKnow'
  <2>1. "send" \in Operations
    BY DEF Operations
  <2>2. /\ calls[k].conversation \in 0 .. MaxTime
        /\ calls[k].conversation \in 1 .. MaxTime
        /\ calls[k].questioner \in MaybeUser
    BY <1>4, CallFields DEF AskSender, Resumes, CallsKnow
  <2>3. /\ calls' \in [Calls -> Call]
        /\ calls'[k].op = "send" /\ calls'[k].read = NoDocument
        /\ calls'[k].conversation = calls[k].conversation
        /\ \A x \in Calls : x # k => calls'[x] = calls[x]
    BY <1>4, <1>u, <2>1, <2>2, AwaitStep DEF AskSender
  <2> QED
    BY <2>2, <2>3 DEF CallsKnow
<1>5. ASSUME NEW k \in Calls, Return(k)
      PROVE  calls' \in [Calls -> Call] /\ CallsKnow'
  BY <1>5, ReturnStep DEF CallsKnow
<1>6. CASE UNCHANGED calls
  BY <1>6 DEF TypeOK, CallsKnow
<1> QED
  BY <1>1, <1>2, <1>3, <1>4, <1>5, <1>6
  DEF Next, ChatService, OnConversation, Continue, AuthService, InitializeStorage,
      FinishCreate, FinishClaim, FinishSend, FailWithoutUser, UnclaimConversation,
      UpdateConversation, DeleteConversation, UpdateExpertProfile, Login, Register,
      Logout, Tick, vars

\* Every step keeps the types.
LEMMA StoreTypeStep == TypeOK /\ CallsKnow /\ [Next]_vars => TypeOK' /\ CallsKnow'
<1> SUFFICES ASSUME TypeOK, CallsKnow, [Next]_vars PROVE TypeOK' /\ CallsKnow'
  OBVIOUS
<1>1. auth' \in [user : MaybeUser, accounts : SUBSET Users]
  <2>1. CASE UNCHANGED auth
    BY <2>1 DEF TypeOK
  <2>2. CASE AuthService
    BY <2>2 DEF AuthService, Login, Register, Logout, TypeOK, MaybeUser
  <2> QED
    BY <2>1, <2>2
    DEF Next, ChatService, OnConversation, Continue, InitializeStorage, StartCreate,
        FinishCreate, StartClaim, FinishClaim, StartSend, AskSender, FinishSend,
        FailWithoutUser, UnclaimConversation, UpdateConversation,
        DeleteConversation, UpdateExpertProfile, Tick, vars
<1>2. clock' \in Start .. MaxTime
  <2>1. CASE UNCHANGED clock
    BY <2>1 DEF TypeOK
  <2>2. CASE Tick
    BY <2>2, Times DEF Tick, TypeOK
  <2> QED
    BY <2>1, <2>2
    DEF Next, ChatService, OnConversation, Continue, AuthService, InitializeStorage,
        StartCreate, FinishCreate, StartClaim, FinishClaim, StartSend, AskSender,
        FinishSend, FailWithoutUser, UnclaimConversation, UpdateConversation,
        DeleteConversation, UpdateExpertProfile, Login, Register, Logout, vars
<1> QED
  BY <1>1, <1>2, DocumentTypeStep, CallsTypeStep DEF TypeOK

\* Documents, accounts and what calls hold stay well formed in every order of
\* calls and awaits.
THEOREM StoreTypeCorrect == Spec => []TypeOK
  BY StoreTypeInit, StoreTypeStep, PTL DEF Spec

-----------------------------------------------------------------------------
(* Ids and the expert queue.                                               *)

\* Row r of document d agrees with the document's lists.
Agrees(d, r) ==
  /\ r.expert # Nobody => \E s \in d.assigned : s.id = r.id /\ s.expert = r.expert
  /\ r.expert # Nobody => \A s \in d.waiting : s.id = r.id => s.expert # Nobody
  /\ r.status = "active" => r.expert # Nobody
  /\ r.status = "waiting" => r.expert = Nobody

LEMMA CoherentRows ==
  ASSUME NEW d
  PROVE  Coherent(d) <=> \A r \in d.conversations : Agrees(d, r)
<1>1. ASSUME NEW r \in d.conversations
      PROVE  /\ r.id \in Ids(QueueOf(d, r.expert).assigned)
                <=> \E s \in d.assigned : s.id = r.id /\ s.expert = r.expert
             /\ r.id \notin Ids(QueueOf(d, r.expert).waiting)
                <=> \A s \in d.waiting : s.id = r.id => s.expert # Nobody
  BY DEF Ids, QueueOf
<1> QED
  BY <1>1 DEF Coherent, Agrees

\* Document d, read or written at time now: no two of its conversations have one id,
\* for a create writes to a document read before now; none is later than now; and
\* its rows agree with its lists.
Good(d, now) ==
  /\ \A r, s \in d.conversations : r.id = s.id => r = s
  /\ \A r \in d.conversations : r.id <= now
  /\ \A r \in d.conversations : Agrees(d, r)

\* A document stays good as time passes.
LEMMA GoodLater ==
  ASSUME NEW d \in Document, NEW now \in Nat, NEW then \in Nat, now <= then,
         Good(d, now)
  PROVE  Good(d, then)
<1>1. \A r \in d.conversations : r.id \in Nat
  BY Fields DEF Conversation
<1> QED
  BY <1>1 DEF Good

\* A method that leaves conversations and lists alone leaves the document good.
LEMMA GoodSame ==
  ASSUME NEW d, NEW e, NEW now, Good(d, now), e.conversations = d.conversations,
         e.waiting = d.waiting, e.assigned = d.assigned
  PROVE  Good(e, now)
  BY DEF Good, Agrees

\* The initial data is good before its first change.
LEMMA GoodInitial == Good(InitialDocument, Start)
<1> DEFINE a == InitialConversation(1, "alice", "bob")
           b == InitialConversation(2, "bob", Nobody)
           c == InitialConversation(3, "charlie", "alice")
           d == InitialDocument
<1>1. /\ a.id = 1 /\ a.expert = "bob" /\ a.expert # Nobody /\ a.status = "active"
      /\ b.id = 2 /\ b.expert = Nobody /\ b.status = "waiting"
      /\ c.id = 3 /\ c.expert = "alice" /\ c.expert # Nobody /\ c.status = "active"
  BY NobodyAssumption DEF InitialConversation, Users, InitialUsers
<1>2. InitialConversations = {a, b, c}
  BY DEF InitialConversations
<1> HIDE DEF a, b, c
<1>3. /\ d.conversations = {a, b, c}
      /\ d.waiting = {r \in {a, b, c} : r.expert = Nobody}
      /\ d.assigned = {r \in {a, b, c} : r.expert # Nobody}
  BY <1>2 DEF InitialDocument
<1> HIDE DEF d
<1>4. /\ \A r, s \in d.conversations : r.id = s.id => r = s
      /\ \A r \in d.conversations : r.id <= Start
  BY <1>1, <1>3 DEF Start
<1>5. Agrees(d, a) /\ Agrees(d, b) /\ Agrees(d, c)
  BY <1>1, <1>3 DEF Agrees
<1> QED
  BY <1>3, <1>4, <1>5 DEF Good, d

\* A new conversation has an id of its own when the document is older than the
\* clock.
LEMMA GoodCreate ==
  ASSUME NEW d \in Document, NEW u \in Users, NEW since \in Nat,
         NEW now \in 1 .. MaxTime, since < now, Good(d, since)
  PROVE  Good(WithConversation(d, u, now), now)
<1> DEFINE e == WithConversation(d, u, now)
<1>1. PICK r \in Conversation : /\ r.id = now /\ r.expert = Nobody
                                /\ r.status = "waiting"
                                /\ e.conversations = d.conversations \cup {r}
  BY CreateFields
<1>2. e.waiting = d.waiting /\ e.assigned = d.assigned
  BY CreateFields
<1>3. \A s \in d.conversations : s.id \in Nat /\ s.id <= since
  BY Fields DEF Good, Conversation
<1> HIDE DEF e
<1>4. \A s \in d.conversations : s.id < now
  BY <1>3
<1>5. /\ \A s, t \in e.conversations : s.id = t.id => s = t
      /\ \A s \in e.conversations : s.id <= now
  BY <1>1, <1>3, <1>4 DEF Good
<1>6. \A s \in e.conversations : Agrees(e, s)
  BY <1>1, <1>2 DEF Good, Agrees
<1> QED
  BY <1>5, <1>6 DEF Good, e

\* Replacing a row by one with the same id keeps ids unique.
LEMMA SameIds ==
  ASSUME NEW d \in Document, NEW c \in Ids(d.conversations), NEW now,
         NEW r, r.id = c, NEW e,
         Good(d, now), e.conversations = Without(d.conversations, c) \cup {r},
         \A s \in e.conversations : Agrees(e, s)
  PROVE  Good(e, now)
<1>1. c <= now
  BY DEF Ids, Good
<1> QED
  BY <1>1 DEF Good, Without

LEMMA GoodClaim ==
  ASSUME NEW d \in Document, NEW c \in Ids(d.conversations), NEW u \in Users,
         NEW now, Good(d, now)
  PROVE  Good(Claimed(d, c, u), now)
<1> DEFINE e == Claimed(d, c, u)
<1>1. PICK r \in Conversation :
        /\ r.id = c /\ r.expert = u /\ r.status = "active"
        /\ e.conversations = Without(d.conversations, c) \cup {r}
        /\ e.assigned = d.assigned \cup {r}
  <2>1. HasClaim(e, d, c, u)
    BY ClaimFields
  <2> QED
    BY <2>1 DEF HasClaim
<1>2. e.waiting = Without(d.waiting, c)
  BY ClaimFields
<1> HIDE DEF e
<1>3. Agrees(e, r)
  BY <1>1, <1>2, NobodyAssumption DEF Agrees, Without
<1>4. \A s \in Without(d.conversations, c) : Agrees(e, s)
  BY <1>1, <1>2 DEF Agrees, Without, Good
<1> QED
  BY <1>1, <1>3, <1>4, SameIds DEF e

LEMMA GoodUnclaim ==
  ASSUME NEW d \in Document, NEW c \in Ids(d.conversations), NEW now, Good(d, now)
  PROVE  Good(Unclaimed(d, c), now)
<1> DEFINE e == Unclaimed(d, c)
<1>1. PICK r \in Conversation :
        /\ r.id = c /\ r.expert = Nobody /\ r.status = "waiting"
        /\ e.conversations = Without(d.conversations, c) \cup {r}
        /\ e.waiting = d.waiting \cup {r}
  BY UnclaimFields
<1>2. e.assigned = Without(d.assigned, c)
  BY UnclaimFields
<1> HIDE DEF e
<1>3. Agrees(e, r)
  BY <1>1 DEF Agrees
<1>4. \A s \in Without(d.conversations, c) : Agrees(e, s)
  BY <1>1, <1>2 DEF Agrees, Without, Good
<1> QED
  BY <1>1, <1>3, <1>4, SameIds DEF e

LEMMA GoodResolve ==
  ASSUME NEW d \in Document, NEW c \in Ids(d.conversations), NEW now, Good(d, now)
  PROVE  Good(Resolved(d, c), now)
<1> DEFINE e == Resolved(d, c)
<1>1. PICK r \in Conversation :
        /\ r.id = c /\ r.expert = Row(d, c).expert /\ r.status = "resolved"
        /\ e.conversations = Without(d.conversations, c) \cup {r}
  BY ResolveFields
<1>2. e.waiting = d.waiting /\ e.assigned = d.assigned
  BY ResolveFields
<1> HIDE DEF e
<1>3. Row(d, c).id = c /\ Agrees(d, Row(d, c))
  BY RowFound DEF Good
<1>4. Agrees(e, r)
  BY <1>1, <1>2, <1>3 DEF Agrees
<1>5. \A s \in Without(d.conversations, c) : Agrees(e, s)
  BY <1>2 DEF Agrees, Without, Good
<1> QED
  BY <1>1, <1>4, <1>5, SameIds DEF e

LEMMA GoodDelete ==
  ASSUME NEW d \in Document, NEW c, NEW now, Good(d, now)
  PROVE  Good(Deleted(d, c), now)
<1>1. /\ Deleted(d, c).conversations \subseteq d.conversations
      /\ Deleted(d, c).waiting = d.waiting
      /\ Deleted(d, c).assigned = d.assigned
  BY DeleteFields DEF Without
<1> QED
  BY <1>1 DEF Good, Agrees

\* What is stored is good now, and what a call holds was good when it read it.
StoreInv ==
  /\ TypeOK
  /\ CallsKnow
  /\ Good(Stored, clock)
  /\ \A k \in Calls : calls[k].read # NoDocument => Good(calls[k].read, calls[k].since)

LEMMA StoreInvInit == Init => StoreInv
  BY StoreTypeInit, GoodInitial DEF Init, StoreInv, Stored, Idle

\* What is stored stays good: a method works on a good document, and a create
\* on one that is older than its id.
LEMMA StoredStep == StoreInv /\ [Next]_vars => Good(Stored', clock')
<1> SUFFICES ASSUME StoreInv, [Next]_vars PROVE Good(Stored', clock')
  OBVIOUS
<1>s. Stored \in Document /\ Good(Stored, clock) /\ TypeOK /\ CallsKnow
  BY StoredTyped DEF StoreInv
<1>c. clock \in 1 .. MaxTime /\ clock \in Nat
  BY <1>s, Times DEF TypeOK
<1>1. CASE InitializeStorage
  BY <1>1, <1>s, Written DEF InitializeStorage
<1>2. ASSUME NEW k \in Calls, FinishCreate(k) \/ FinishClaim(k)
      PROVE  Good(Stored', clock')
  <2> DEFINE d == calls[k].read
  <2>1. /\ d \in Document /\ calls[k].user \in Users
        /\ calls[k].since \in Nat /\ calls[k].since < clock
        /\ Good(d, calls[k].since)
    <3>1. calls[k].since \in Start .. MaxTime /\ calls[k].since \in Nat
      BY <1>s, CallFields, Times
    <3>2. d \in Document /\ d # NoDocument /\ calls[k].user \in Users
      BY <1>2, <1>s, CallFields DEF FinishCreate, FinishClaim, Resumes, CallsKnow, MaybeUser
    <3>3. calls[k].since < clock
      BY <1>2, <1>c, <3>1 DEF FinishCreate, FinishClaim, Resumes
    <3> QED
      BY <3>1, <3>2, <3>3 DEF StoreInv
  <2>2. CASE FinishCreate(k)
    <3>1. doc' = WithConversation(d, calls[k].user, clock) /\ clock' = clock
      BY <2>2 DEF FinishCreate
    <3>2. doc' \in Document
      BY <1>c, <2>1, <3>1, CreateFields
    <3>3. Good(doc', clock)
      BY <1>c, <2>1, <3>1, GoodCreate
    <3> QED
      BY <3>1, <3>2, <3>3, Written
  <2>3. CASE FinishClaim(k)
    <3>1. /\ doc' = Claimed(d, calls[k].conversation, calls[k].user)
          /\ clock' = clock
          /\ calls[k].conversation \in Ids(d.conversations)
      BY <1>s, <2>3 DEF FinishClaim, Resumes, CallsKnow
    <3>2. doc' \in Document
      BY <2>1, <3>1, ClaimFields
    <3>3. Good(d, clock)
      BY <1>c, <2>1, GoodLater
    <3>4. Good(doc', clock)
      BY <2>1, <3>1, <3>3, GoodClaim
    <3> QED
      BY <3>1, <3>2, <3>4, Written
  <2> QED
    BY <1>2, <2>2, <2>3
<1>3. ASSUME NEW k \in Calls, FinishSend(k) PROVE Good(Stored', clock')
  <2>1. calls[k].conversation \in 1 .. MaxTime /\ calls[k].user \in Users
    BY <1>3, <1>s, CallFields DEF FinishSend, Resumes, CallsKnow, MaybeUser
  <2>2. /\ doc' = WithMessage(Stored, calls[k].conversation, calls[k].questioner,
                              calls[k].user, clock)
        /\ clock' = clock
    BY <1>3 DEF FinishSend
  <2>3. doc' \in Document /\ Good(doc', clock)
    BY <1>s, <1>c, <2>1, <2>2, SendFields, GoodSame
  <2> QED
    BY <2>2, <2>3, Written
<1>4. ASSUME NEW k \in Calls, NEW c \in 1 .. MaxTime,
             \/ UnclaimConversation(k, c)
             \/ UpdateConversation(k, c)
             \/ DeleteConversation(k, c)
      PROVE  Good(Stored', clock')
  <2>1. doc' \in Document
    BY <1>4, <1>s, UnclaimFields, ResolveFields, DeleteFields
    DEF UnclaimConversation, UpdateConversation, DeleteConversation, Finds
  <2>2. Good(doc', clock)
    BY <1>4, <1>s, GoodUnclaim, GoodResolve, GoodDelete
    DEF UnclaimConversation, UpdateConversation, DeleteConversation, Finds
  <2>3. clock' = clock
    BY <1>4 DEF UnclaimConversation, UpdateConversation, DeleteConversation
  <2> QED
    BY <2>1, <2>2, <2>3, Written
<1>5. ASSUME NEW k \in Calls, UpdateExpertProfile(k) PROVE Good(Stored', clock')
  <2>1. doc' = [Stored EXCEPT !.profile = "edited"] /\ clock' = clock
    BY <1>5 DEF UpdateExpertProfile
  <2>2. doc' \in Document /\ Good(doc', clock)
    BY <1>s, <2>1, ProfileFields, GoodSame
  <2> QED
    BY <2>1, <2>2, Written
<1>6. CASE Tick
  <2>1. clock' \in Nat /\ clock <= clock' /\ UNCHANGED doc
    BY <1>6, <1>c DEF Tick
  <2> QED
    BY <1>s, <1>c, <2>1, Written, GoodLater
<1>7. CASE UNCHANGED <<doc, clock>>
  BY <1>7, <1>s, Written
<1> QED
  BY <1>1, <1>2, <1>3, <1>4, <1>5, <1>6, <1>7
  DEF Next, ChatService, OnConversation, Continue, AuthService, StartCreate,
      StartClaim, StartSend, AskSender, FailWithoutUser, Login, Register, Logout, vars

\* What calls hold stays good: it is what was stored when they read it.
LEMMA HeldStep ==
  StoreInv /\ [Next]_vars =>
    \A k \in Calls : calls'[k].read # NoDocument => Good(calls'[k].read, calls'[k].since)
<1> SUFFICES ASSUME StoreInv, [Next]_vars, NEW x \in Calls, calls'[x].read # NoDocument
             PROVE  Good(calls'[x].read, calls'[x].since)
  OBVIOUS
<1>s. /\ Stored \in Document /\ Good(Stored, clock) /\ TypeOK
      /\ auth.user \in MaybeUser /\ Nobody \in MaybeUser /\ 0 \in 0 .. MaxTime
  BY StoredTyped, Times DEF StoreInv, TypeOK, MaybeUser
<1>h. calls[x].read # NoDocument => Good(calls[x].read, calls[x].since)
  BY DEF StoreInv
<1>1. ASSUME NEW k \in Calls, StartCreate(k) \/ \E c \in 1 .. MaxTime : StartClaim(k, c)
      PROVE  Good(calls'[x].read, calls'[x].since)
  <2>1. PICK op \in Operations, c \in 0 .. MaxTime :
          Await(k, op, c, Nobody, auth.user, Stored)
    BY <1>1, <1>s, Times DEF StartCreate, StartClaim, Operations
  <2>2. /\ calls'[k].read = Stored /\ calls'[k].since = clock
        /\ x # k => calls'[x] = calls[x]
    BY <1>s, <2>1, AwaitStep
  <2> QED
    BY <1>s, <1>h, <2>2
<1>2. ASSUME NEW k \in Calls, AskSender(k) \/ \E c \in 1 .. MaxTime : StartSend(k, c)
      PROVE  Good(calls'[x].read, calls'[x].since)
  <2>1. calls'[k].read = NoDocument /\ (x # k => calls'[x] = calls[x])
    BY <1>2, <1>s DEF AskSender, StartSend, Await, TypeOK
  <2> QED
    BY <1>h, <2>1
<1>3. ASSUME NEW k \in Calls, Return(k)
      PROVE  Good(calls'[x].read, calls'[x].since)
  BY <1>3, <1>s, <1>h, ReturnStep
<1>4. CASE UNCHANGED calls
  BY <1>4, <1>h
<1> QED
  BY <1>1, <1>2, <1>3, <1>4
  DEF Next, ChatService, OnConversation, Continue, AuthService, InitializeStorage,
      FinishCreate, FinishClaim, FinishSend, FailWithoutUser, UnclaimConversation,
      UpdateConversation, DeleteConversation, UpdateExpertProfile, Login, Register,
      Logout, Tick, vars

LEMMA StoreInvStep == StoreInv /\ [Next]_vars => StoreInv'
<1>1. StoreInv /\ [Next]_vars => TypeOK' /\ CallsKnow'
  BY StoreTypeStep DEF StoreInv
<1> QED
  BY <1>1, StoredStep, HeldStep DEF StoreInv

LEMMA StoreInvAlways == Spec => []StoreInv
  BY StoreInvInit, StoreInvStep, PTL DEF Spec

\* Every document, stored or about to be written back, agrees with itself.
THEOREM DocumentsCoherentAlways == Spec => []DocumentsCoherent
<1>1. StoreInv => DocumentsCoherent
  BY CoherentRows DEF StoreInv, Good, DocumentsCoherent
<1> QED
  BY <1>1, StoreInvAlways, PTL

-----------------------------------------------------------------------------
(* What writes lose.                                                       *)

\* Nothing of document d is lost in document e.
Keeps(d, e) ==
  /\ d.messages \subseteq e.messages
  /\ Ids(d.conversations) \subseteq Ids(e.conversations)
  /\ d.profile = "edited" => e.profile = "edited"

\* A row replaced by one with the same id loses no conversation.
LEMMA SameIdsKept ==
  ASSUME NEW d \in Document, NEW c \in Ids(d.conversations), NEW r, r.id = c,
         NEW rows, rows = Without(d.conversations, c) \cup {r}
  PROVE  Ids(d.conversations) \subseteq Ids(rows)
  BY DEF Ids, Without

LEMMA CreateKeeps ==
  ASSUME NEW d \in Document, NEW u \in Users, NEW now \in 1 .. MaxTime
  PROVE  Keeps(d, WithConversation(d, u, now))
<1>1. d.conversations \subseteq WithConversation(d, u, now).conversations
  BY CreateFields
<1> QED
  BY <1>1, CreateFields DEF Keeps, Ids

LEMMA ClaimKeeps ==
  ASSUME NEW d \in Document, NEW c \in Ids(d.conversations), NEW u \in Users
  PROVE  Keeps(d, Claimed(d, c, u))
<1>1. HasClaim(Claimed(d, c, u), d, c, u)
  BY ClaimFields
<1>2. Ids(d.conversations) \subseteq Ids(Claimed(d, c, u).conversations)
  BY <1>1, SameIdsKept DEF HasClaim
<1> QED
  BY <1>2, ClaimFields DEF Keeps

LEMMA UnclaimKeeps ==
  ASSUME NEW d \in Document, NEW c \in Ids(d.conversations)
  PROVE  Keeps(d, Unclaimed(d, c))
<1>1. Ids(d.conversations) \subseteq Ids(Unclaimed(d, c).conversations)
  BY UnclaimFields, SameIdsKept
<1> QED
  BY <1>1, UnclaimFields DEF Keeps

LEMMA ResolveKeeps ==
  ASSUME NEW d \in Document, NEW c \in Ids(d.conversations)
  PROVE  Keeps(d, Resolved(d, c))
<1>1. Ids(d.conversations) \subseteq Ids(Resolved(d, c).conversations)
  BY ResolveFields, SameIdsKept
<1> QED
  BY <1>1, ResolveFields DEF Keeps

\* Only a deletion, of what it deletes, and a stale write, of what it had not
\* read, lose anything, whatever the calls and their order.
THEOREM OnlyStaleWritesLoseAlways == Spec => OnlyStaleWritesLose
<1> DEFINE
      lost == Stored.messages \ Stored'.messages
      gone == Ids(Stored.conversations) \ Ids(Stored'.conversations)
      Kept == /\ lost = {} /\ gone = {}
              /\ Stored.profile = "edited" => Stored'.profile = "edited"
      Deletes == \E k \in Calls, c \in 1 .. MaxTime :
                   /\ DeleteConversation(k, c)
                   /\ gone \subseteq {c} /\ \A m \in lost : m.conversation = c
      Stale == \E k \in Calls :
                 /\ WritesBack(k)
                 /\ lost \cap calls[k].read.messages = {}
                 /\ gone \cap Ids(calls[k].read.conversations) = {}
<1>1. StoreInv /\ [Next]_vars => Kept \/ Deletes \/ Stale
  <2> SUFFICES ASSUME StoreInv, [Next]_vars PROVE Kept \/ Deletes \/ Stale
    OBVIOUS
  <2>s. Stored \in Document /\ TypeOK /\ CallsKnow
    BY StoredTyped DEF StoreInv
  <2>c. clock \in 1 .. MaxTime
    BY <2>s, Times DEF TypeOK
  <2>k. Keeps(Stored, Stored') => Kept
    BY DEF Keeps
  <2>1. CASE Stored' = Stored
    BY <2>1, <2>k DEF Keeps
  <2>2. ASSUME NEW k \in Calls, FinishCreate(k) \/ FinishClaim(k) PROVE Stale
    <3> DEFINE d == calls[k].read
    <3>1. d \in Document /\ calls[k].user \in Users
      BY <2>2, <2>s, CallFields DEF FinishCreate, FinishClaim, Resumes, CallsKnow, MaybeUser
    <3>2. CASE FinishCreate(k)
      <4>1. doc' = WithConversation(d, calls[k].user, clock)
        BY <3>2 DEF FinishCreate
      <4>2. Stored' = doc' /\ Keeps(d, doc')
        BY <2>c, <3>1, <4>1, CreateFields, CreateKeeps, Written
      <4> QED
        BY <3>2, <4>2 DEF Keeps, WritesBack
    <3>3. CASE FinishClaim(k)
      <4>1. /\ doc' = Claimed(d, calls[k].conversation, calls[k].user)
            /\ calls[k].conversation \in Ids(d.conversations)
        BY <2>s, <3>3 DEF FinishClaim, Resumes, CallsKnow
      <4>2. Stored' = doc' /\ Keeps(d, doc')
        BY <3>1, <4>1, ClaimFields, ClaimKeeps, Written
      <4> QED
        BY <3>3, <4>2 DEF Keeps, WritesBack
    <3> QED
      BY <2>2, <3>2, <3>3
  <2>3. ASSUME NEW k \in Calls, FinishSend(k) PROVE Kept
    <3>1. calls[k].conversation \in 1 .. MaxTime /\ calls[k].user \in Users
      BY <2>3, <2>s, CallFields DEF FinishSend, Resumes, CallsKnow, MaybeUser
    <3>2. doc' = WithMessage(Stored, calls[k].conversation, calls[k].questioner,
                             calls[k].user, clock)
      BY <2>3 DEF FinishSend
    <3>3. Stored' = doc' /\ Keeps(Stored, doc')
      BY <2>s, <2>c, <3>1, <3>2, SendFields, Written DEF Keeps
    <3> QED
      BY <2>k, <3>3
  <2>4. ASSUME NEW k \in Calls, NEW c \in 1 .. MaxTime,
               UnclaimConversation(k, c) \/ UpdateConversation(k, c)
        PROVE  Kept
    <3>1. Stored' = doc' /\ Keeps(Stored, doc')
      BY <2>4, <2>s, UnclaimFields, ResolveFields, UnclaimKeeps, ResolveKeeps, Written
      DEF UnclaimConversation, UpdateConversation, Finds
    <3> QED
      BY <2>k, <3>1
  <2>5. ASSUME NEW k \in Calls, NEW c \in 1 .. MaxTime, DeleteConversation(k, c)
        PROVE  Deletes
    <3>1. Stored' = Deleted(Stored, c)
      BY <2>5, <2>s, DeleteFields, Written DEF DeleteConversation
    <3>2. gone \subseteq {c} /\ \A m \in lost : m.conversation = c
      BY <2>s, <3>1, DeleteFields DEF Ids, Without
    <3> QED
      BY <2>5, <3>2
  <2>6. ASSUME NEW k \in Calls, UpdateExpertProfile(k) PROVE Kept
    <3>1. Stored' = doc' /\ Keeps(Stored, doc')
      BY <2>6, <2>s, ProfileFields, Written DEF UpdateExpertProfile, Keeps
    <3> QED
      BY <2>k, <3>1
  <2>7. CASE InitializeStorage
    BY <2>7, <2>s, <2>1, Written DEF InitializeStorage
  <2>8. CASE UNCHANGED doc
    BY <2>8, <2>1, Written
  <2> HIDE DEF Kept, Deletes, Stale
  <2> QED
    BY <2>2, <2>3, <2>4, <2>5, <2>6, <2>7, <2>8
    DEF Next, ChatService, OnConversation, Continue, AuthService, StartCreate,
        StartClaim, StartSend, AskSender, FailWithoutUser, Login, Register, Logout,
        Tick, vars
<1>2. StoreInv /\ [Next]_vars => [Kept \/ Deletes \/ Stale]_vars
  BY <1>1
<1> QED
  BY <1>2, StoreInvAlways, PTL DEF Spec, OnlyStaleWritesLose
=============================================================================

----------------------------- MODULE DummyStore -----------------------------
(***************************************************************************)
(* The dummy backend: DummyChatService and DummyAuthService keep one JSON  *)
(* document each in localStorage, which every tab of the browser shares.   *)
(* A method reads the whole document and writes the whole document; an     *)
(* await between the two lets other calls write first.  createConversation *)
(* and claimConversation await after they have read; sendMessage awaits    *)
(* before; the others do not await until they have written.                *)
(*                                                                         *)
(* Ids made with Date.now() are the clock's value; those of the initial    *)
(* data are smaller.  Titles, texts, read marks and times are left out,    *)
(* and so is how often a copy is repeated in a list of the expert queue.   *)
(* Nothing keeps two ids made in one millisecond apart: of two overlapping *)
(* creates the later write replaces the earlier; messages of one sender    *)
(* with one id count as one.                                               *)
(***************************************************************************)
EXTENDS Integers

CONSTANTS
  Calls,        \* calls of DummyChatService, in any tab
  NewUsers,     \* names that may be registered
  Nobody,       \* no current user, no expert
  NoDocument,   \* nothing is stored, or the call holds no document
  MaxTime       \* bound on the clock

InitialUsers == {"alice", "bob", "charlie"}
Users == InitialUsers \cup NewUsers
Start == 7      \* the clock at the start, later than every initial id

ASSUME NobodyAssumption == Nobody \notin Users
ASSUME TimeAssumption   == MaxTime \in Nat /\ MaxTime >= Start

VARIABLES
  doc,          \* 'dummy-chat-data'
  auth,         \* 'dummy-auth-data'
  calls,        \* what each call in flight awaits and holds
  clock         \* Date.now(), in units of the shortest delay

vars == <<doc, auth, calls, clock>>

-----------------------------------------------------------------------------
(* The documents.                                                          *)

MaybeUser == Users \cup {Nobody}

Conversation == [id : 1 .. MaxTime, questioner : Users, expert : MaybeUser,
                 status : {"waiting", "active", "resolved"}]

Message == [id : 1 .. MaxTime, conversation : 1 .. MaxTime, sender : Users,
            role : {"initiator", "expert"}]

Document == [conversations : SUBSET Conversation, messages : SUBSET Message,
             waiting : SUBSET Conversation, assigned : SUBSET Conversation,
             profile : {"initial", "edited"}]

ASSUME NoDocumentAssumption == NoDocument \notin Document

InitialConversation(id, questioner, expert) ==
  [id |-> id, questioner |-> questioner, expert |-> expert,
   status |-> IF expert = Nobody THEN "waiting" ELSE "active"]

InitialConversations ==
  {InitialConversation(1, "alice", "bob"), InitialConversation(2, "bob", Nobody),
   InitialConversation(3, "charlie", "alice")}

Says(id, c, sender, role) ==
  [id |-> id, conversation |-> c, sender |-> sender, role |-> role]

InitialMessages ==
  {Says(1, 1, "alice", "initiator"), Says(2, 1, "bob", "expert"),
   Says(3, 1, "alice", "initiator"), Says(4, 2, "bob", "initiator"),
   Says(5, 3, "charlie", "initiator"), Says(6, 3, "alice", "expert")}

InitialDocument ==
  [conversations |-> InitialConversations,
   messages |-> InitialMessages,
   waiting  |-> {r \in InitialConversations : r.expert = Nobody},
   assigned |-> {r \in InitialConversations : r.expert # Nobody},
   profile  |-> "initial"]

\* getStorageData
Stored == IF doc = NoDocument THEN InitialDocument ELSE doc

Ids(rows) == {r.id : r \in rows}

Row(d, c) == CHOOSE r \in d.conversations : r.id = c

Without(rows, c) == {r \in rows : r.id # c}

\* The document with conversation c replaced by row r.
Updated(d, c, r) ==
  [d EXCEPT !.conversations = Without(d.conversations, c) \cup {r}]

\* What getExpertQueue answers to user u.
QueueOf(d, u) ==
  [waiting  |-> {r \in d.waiting  : r.expert = Nobody},
   assigned |-> {r \in d.assigned : r.expert = u}]

-----------------------------------------------------------------------------
(* What each method makes of the document it has read.                     *)

WithConversation(d, u, now) ==
  [d EXCEPT !.conversations = @ \cup
     {[id |-> now, questioner |-> u, expert |-> Nobody, status |-> "waiting"]}]

\* Mutant: a claim does not put the conversation on the expert's list.
ClaimedUnlisted(d, c, u) ==
  LET r == [Row(d, c) EXCEPT !.expert = u, !.status = "active"]
  IN  [Updated(d, c, r) EXCEPT !.waiting = Without(@, c)]

Claimed(d, c, u) ==
  LET r == [Row(d, c) EXCEPT !.expert = u, !.status = "active"]
  IN  [Updated(d, c, r) EXCEPT !.waiting  = Without(@, c),
                               !.assigned = @ \cup {r}]

Unclaimed(d, c) ==
  LET r == [Row(d, c) EXCEPT !.expert = Nobody, !.status = "waiting"]
  IN  [Updated(d, c, r) EXCEPT !.assigned = Without(@, c),
                               !.waiting  = @ \cup {r}]

Resolved(d, c) == Updated(d, c, [Row(d, c) EXCEPT !.status = "resolved"])

Deleted(d, c) ==
  [d EXCEPT !.conversations = Without(@, c),
            !.messages = {m \in @ : m.conversation # c}]

WithMessage(d, c, questioner, u, now) ==
  [d EXCEPT !.messages = @ \cup
     {Says(now, c, u, IF questioner = u THEN "initiator" ELSE "expert")}]

-----------------------------------------------------------------------------
(* Calls.  Each is made once: idle, then what it awaits, then over.         *)

Idle == [op |-> "idle", conversation |-> 0, questioner |-> Nobody,
         user |-> Nobody, read |-> NoDocument, since |-> Start]

Operations == {"idle", "create", "claim", "find", "send", "over"}

Call == [op : Operations, conversation : 0 .. MaxTime,
         questioner : MaybeUser, user : MaybeUser,
         read : Document \cup {NoDocument}, since : Start .. MaxTime]

\* From now on call k, for conversation c (of the given questioner), awaits
\* op, and holds the current user and document it has read.
Await(k, op, c, questioner, u, d) ==
  calls' = [calls EXCEPT ![k] =
              [op |-> op, conversation |-> c, questioner |-> questioner,
               user |-> u, read |-> d, since |-> clock]]

\* The delay of call k, which awaits op, is over.
Resumes(k, op) == calls[k].op = op /\ clock > calls[k].since

\* Call k has thrown, or has written and only waits for the delay of its answer.
Return(k) == calls' = [calls EXCEPT ![k] = [Idle EXCEPT !.op = "over"]]

\* Call k is made for a conversation its first read finds.
Finds(k, c) == calls[k].op = "idle" /\ c \in Ids(Stored.conversations)

Init ==
  /\ doc = NoDocument
  /\ auth = [user |-> Nobody, accounts |-> InitialUsers]
  /\ calls = [k \in Calls |-> Idle]
  /\ clock = Start

\* Mutant: a new tab writes the initial data over what is stored.
InitializeStorageAlways ==
  /\ doc' = InitialDocument
  /\ UNCHANGED <<auth, calls, clock>>

\* The service is constructed in a new tab.
InitializeStorage ==
  /\ doc' = Stored
  /\ UNCHANGED <<auth, calls, clock>>

\* createConversation reads everything before it awaits the current user ...
StartCreate(k) ==
  /\ calls[k].op = "idle"
  /\ Await(k, "create", 0, Nobody, auth.user, Stored)
  /\ UNCHANGED <<doc, auth, clock>>

\* ... and writes what it has read back.
FinishCreate(k) ==
  /\ Resumes(k, "create")
  /\ calls[k].user # Nobody
  /\ doc' = WithConversation(calls[k].read, calls[k].user, clock)
  /\ Return(k)
  /\ UNCHANGED <<auth, clock>>

\* So does claimConversation.
StartClaim(k, c) ==
  /\ Finds(k, c)
  /\ Await(k, "claim", c, Nobody, auth.user, Stored)
  /\ UNCHANGED <<doc, auth, clock>>

FinishClaim(k) ==
  /\ Resumes(k, "claim")
  /\ calls[k].user # Nobody
  /\ doc' = Claimed(calls[k].read, calls[k].conversation, calls[k].user)
  /\ Return(k)
  /\ UNCHANGED <<auth, clock>>

\* sendMessage awaits getConversation, whose copy of the row it keeps ...
StartSend(k, c) ==
  /\ Finds(k, c)
  /\ Await(k, "find", c, Row(Stored, c).questioner, Nobody, NoDocument)
  /\ UNCHANGED <<doc, auth, clock>>

\* ... then the current user ...
AskSender(k) ==
  /\ Resumes(k, "find")
  /\ Await(k, "send", calls[k].conversation, calls[k].questioner, auth.user,
           NoDocument)
  /\ UNCHANGED <<doc, auth, clock>>

\* Mutant: currentUser?.id, which does not throw.
FinishSendAnonymously(k) ==
  /\ Resumes(k, "send")
  /\ doc' = WithMessage(Stored, calls[k].conversation, calls[k].questioner,
                        calls[k].user, clock)
  /\ Return(k)
  /\ UNCHANGED <<auth, clock>>

\* ... and only then reads the document, and writes it.
FinishSend(k) ==
  /\ Resumes(k, "send")
  /\ calls[k].user # Nobody
  /\ doc' = WithMessage(Stored, calls[k].conversation, calls[k].questioner,
                        calls[k].user, clock)
  /\ Return(k)
  /\ UNCHANGED <<auth, clock>>

\* With no current user, currentUser!.id throws before anything is written.
FailWithoutUser(k) ==
  /\ Resumes(k, "create") \/ Resumes(k, "claim") \/ Resumes(k, "send")
  /\ calls[k].user = Nobody
  /\ Return(k)
  /\ UNCHANGED <<doc, auth, clock>>

UnclaimConversation(k, c) ==
  /\ Finds(k, c)
  /\ doc' = Unclaimed(Stored, c)
  /\ Return(k)
  /\ UNCHANGED <<auth, clock>>

\* updateConversation, as resolveConversation calls it.
UpdateConversation(k, c) ==
  /\ Finds(k, c)
  /\ doc' = Resolved(Stored, c)
  /\ Return(k)
  /\ UNCHANGED <<auth, clock>>

DeleteConversation(k, c) ==
  /\ calls[k].op = "idle"
  /\ doc' = Deleted(Stored, c)
  /\ Return(k)
  /\ UNCHANGED <<auth, clock>>

UpdateExpertProfile(k) ==
  /\ calls[k].op = "idle"
  /\ doc' = [Stored EXCEPT !.profile = "edited"]
  /\ Return(k)
  /\ UNCHANGED <<auth, clock>>

\* login and register write before their delay; so does logout.
Login(u) ==
  /\ u \in auth.accounts
  /\ auth' = [auth EXCEPT !.user = u]
  /\ UNCHANGED <<doc, calls, clock>>

Register(u) ==
  /\ u \notin auth.accounts
  /\ auth' = [user |-> u, accounts |-> auth.accounts \cup {u}]
  /\ UNCHANGED <<doc, calls, clock>>

Logout ==
  /\ auth' = [auth EXCEPT !.user = Nobody]
  /\ UNCHANGED <<doc, calls, clock>>

\* Time passes; MaxTime bounds it.
Tick ==
  /\ clock < MaxTime
  /\ clock' = clock + 1
  /\ UNCHANGED <<doc, auth, calls>>

OnConversation(k, c) ==
  \/ StartClaim(k, c)
  \/ StartSend(k, c)
  \/ UnclaimConversation(k, c)
  \/ UpdateConversation(k, c)
  \/ DeleteConversation(k, c)

Continue(k) ==
  \/ FinishCreate(k)
  \/ FinishClaim(k)
  \/ AskSender(k)
  \/ FinishSend(k)
  \/ FailWithoutUser(k)

ChatService(k) ==
  \/ StartCreate(k)
  \/ UpdateExpertProfile(k)
  \/ \E c \in 1 .. MaxTime : OnConversation(k, c)
  \/ Continue(k)

AuthService == Logout \/ \E u \in Users : Login(u) \/ Register(u)

Next ==
  \/ InitializeStorage
  \/ \E k \in Calls : ChatService(k)
  \/ AuthService
  \/ Tick

Spec == Init /\ [][Next]_vars

-----------------------------------------------------------------------------
(* Properties.                                                             *)

\* The document, the accounts and what calls hold are well formed.
TypeOK ==
  /\ doc \in Document \cup {NoDocument}
  /\ auth \in [user : MaybeUser, accounts : SUBSET Users]
  /\ calls \in [Calls -> Call]
  /\ clock \in Start .. MaxTime

\* Document d agrees with itself.  An expert finds every conversation he has
\* in his queue, no conversation that has an expert is offered to the others,
\* and a conversation's status says whether it has an expert.
Coherent(d) ==
  /\ \A r \in d.conversations :
       /\ r.expert # Nobody => r.id \in Ids(QueueOf(d, r.expert).assigned)
       /\ r.expert # Nobody => r.id \notin Ids(QueueOf(d, r.expert).waiting)
       /\ r.status = "active" => r.expert # Nobody
       /\ r.status = "waiting" => r.expert = Nobody

\* What is stored and what calls are about to write back is coherent, in
\* whatever order claims, releases, updates and stale writes happen.
DocumentsCoherent ==
  /\ Coherent(Stored)
  /\ \A k \in Calls : calls[k].read # NoDocument => Coherent(calls[k].read)

\* Call k writes document it read before its await.
WritesBack(k) == FinishCreate(k) \/ FinishClaim(k)

\* A message, a conversation or an edit of the profile is lost only when its
\* conversation is deleted, or when a create or a claim writes back what it
\* read before the loss: the sends, releases, updates and edits never lose
\* what others wrote, and a tab that opens does not either.
OnlyStaleWritesLose ==
  [][LET lost == Stored.messages \ Stored'.messages
         gone == Ids(Stored.conversations) \ Ids(Stored'.conversations)
     IN  \/ /\ lost = {} /\ gone = {}
            /\ Stored.profile = "edited" => Stored'.profile = "edited"
         \/ \E k \in Calls, c \in 1 .. MaxTime :
              /\ DeleteConversation(k, c)
              /\ gone \subseteq {c} /\ \A m \in lost : m.conversation = c
         \/ \E k \in Calls :
              /\ WritesBack(k)
              /\ lost \cap calls[k].read.messages = {}
              /\ gone \cap Ids(calls[k].read.conversations) = {}]_vars

=============================================================================

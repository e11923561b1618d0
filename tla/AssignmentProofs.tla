-------------------------- MODULE AssignmentProofs --------------------------
(***************************************************************************)
(* Machine-checked proofs about Assignment, for every number of threads,   *)
(* conversations and users and every value of the other constants the      *)
(* theorems do not name.                                                   *)
(***************************************************************************)
EXTENDS Assignment, TLAPS

\* A thread that is about to write an expert has one.
ExpertChosen ==
  \A t \in Threads :
     requests[t].step \in {"record assignment", "assign conversation",
                           "claim conversation", "record claim",
                           "resolve assignment", "unclaim conversation"}
       => requests[t].expert \in Users

TypeInv == TypeOK /\ ExpertChosen

\* A write to the conversation row keeps it a row: update! sets the columns to
\* values of their own types.
LEMMA DirtyWriteType ==
  ASSUME NEW row \in Row, NEW loaded, NEW e \in MaybeUser, NEW s \in Statuses
  PROVE  DirtyWrite(row, loaded, e, s) \in Row
  BY DEF DirtyWrite, Row

\* Resolving a row keeps expert_assignments a list of assignment rows.
LEMMA ResolveType ==
  ASSUME assignments \in Seq(AssignmentRecord), NEW i \in DOMAIN assignments
  PROVE  [assignments EXCEPT ![i].status = "resolved"] \in Seq(AssignmentRecord)
<1>1. assignments \in [1 .. Len(assignments) -> AssignmentRecord]
  OBVIOUS
<1>2. [assignments EXCEPT ![i].status = "resolved"]
        \in [1 .. Len(assignments) -> AssignmentRecord]
  BY <1>1 DEF AssignmentRecord
<1> QED
  BY <1>2

\* An idle thread is at no statement.
LEMMA IdleStep == Idle.step = "idle" /\ Idle \in Request
  BY DEF Idle, Request

\* A thread that is at a statement has a request with all its fields.
LEMMA BusyIsRequest ==
  ASSUME NEW r \in Request, r.step # "idle"
  PROVE  r \in BusyRequest
  BY IdleStep DEF Request

\* What a request carries.
LEMMA BusyFields ==
  ASSUME NEW r \in BusyRequest
  PROVE  /\ r \in Request
         /\ r.step \in BusySteps /\ r.conversation \in Conversations
         /\ r.loaded \in Row /\ r.expert \in MaybeUser
  BY DEF Request, BusyRequest

\* A request begun with well-typed values is a request.
LEMMA NewRequest ==
  ASSUME NEW step \in BusySteps, NEW c \in Conversations, NEW row \in Row,
         NEW e \in MaybeUser
  PROVE  [step |-> step, conversation |-> c, loaded |-> row, expert |-> e] \in Request
  BY DEF Request, BusyRequest

\* The three ways a thread's request changes.
LEMMA FinishType ==
  ASSUME TypeInv, NEW t \in Threads, Finish(t)
  PROVE  requests' \in [Threads -> Request] /\ ExpertChosen'
  BY IdleStep DEF TypeInv, TypeOK, Finish, ExpertChosen

\* A thread that begins a request is well typed afterwards.
LEMMA BeginType ==
  ASSUME TypeInv, NEW t \in Threads, NEW step \in BusySteps,
         NEW c \in Conversations, NEW row \in Row, NEW e \in MaybeUser,
         Begin(t, step, c, row, e),
         step \in {"claim conversation", "unclaim conversation"} => e \in Users,
         step \in {"load for job", "call llm", "claim conversation",
                   "unclaim conversation", "activate conversation"}
  PROVE  requests' \in [Threads -> Request] /\ ExpertChosen'
  BY NewRequest DEF TypeInv, TypeOK, Begin, ExpertChosen

\* A thread that goes on to its next statement stays well typed.
LEMMA ProceedType ==
  ASSUME TypeInv, NEW t \in Threads, NEW step \in BusySteps, Proceed(t, step),
         requests[t] \in BusyRequest, requests[t].expert \in Users
  PROVE  requests' \in [Threads -> Request] /\ ExpertChosen'
<1>1. [requests[t] EXCEPT !.step = step] \in BusyRequest
  BY DEF BusyRequest
<1> QED
  BY <1>1, BusyFields DEF TypeInv, TypeOK, Proceed, ExpertChosen, BusyRequest

\* The two ways a thread writes to the tables.
LEMMA WriteType ==
  ASSUME TypeInv, NEW t \in Threads, requests[t] \in BusyRequest,
         NEW e \in MaybeUser, NEW s \in Statuses, WriteConversation(t, e, s)
  PROVE  conversations' \in [Conversations -> Row]
  BY DirtyWriteType, BusyFields DEF TypeInv, TypeOK, WriteConversation

\* An inserted assignment row has the type of one.
LEMMA CreateType ==
  ASSUME TypeInv, NEW t \in Threads, requests[t] \in BusyRequest,
         requests[t].expert \in Users, NEW status \in OpenStatuses,
         CreateAssignment(t, status)
  PROVE  assignments' \in Seq(AssignmentRecord)
<1>1. [conversation |-> requests[t].conversation, expert |-> requests[t].expert,
       status |-> status] \in AssignmentRecord
  BY BusyFields DEF AssignmentRecord
<1> QED
  BY <1>1 DEF TypeInv, TypeOK, CreateAssignment

\* A thread at statement "step" has a request, and an expert if it needs one.
LEMMA AtType ==
  ASSUME TypeInv, NEW t \in Threads, NEW step \in BusySteps, At(t, step)
  PROVE  /\ requests[t] \in BusyRequest
         /\ step \in {"record assignment", "assign conversation",
                      "claim conversation", "record claim",
                      "resolve assignment", "unclaim conversation"}
              => requests[t].expert \in Users
<1>1. requests[t].step # "idle"
  BY DEF At, BusySteps
<1> QED
  BY <1>1, BusyIsRequest DEF TypeInv, TypeOK, ExpertChosen, At

\* Before the first request the state is well typed.
LEMMA TypeInit == Init => TypeInv
<1> SUFFICES ASSUME Init PROVE TypeInv
  OBVIOUS
<1>1. conversations \in [Conversations -> Row]
  BY DEF Init, Row, Absent, MaybeUser
<1>2. assignments \in Seq(AssignmentRecord)
  BY DEF Init
<1>3. requests \in [Threads -> Request] /\ ExpertChosen
  BY IdleStep DEF Init, ExpertChosen
<1> QED
  BY <1>1, <1>2, <1>3 DEF TypeInv, TypeOK

\* No statement breaks the types.
LEMMA TypeStep == TypeInv /\ [Next]_vars => TypeInv'
<1> SUFFICES ASSUME TypeInv, [Next]_vars PROVE TypeInv'
  OBVIOUS
<1>t. /\ conversations \in [Conversations -> Row]
      /\ assignments \in Seq(AssignmentRecord)
      /\ requests \in [Threads -> Request]
      /\ ExpertChosen
  BY DEF TypeInv, TypeOK
<1>s. {"waiting", "active"} \subseteq Statuses /\ Users \subseteq MaybeUser
        /\ NoUser \in MaybeUser
  BY DEF Statuses, MaybeUser
<1>b. BusySteps = {"load for job", "call llm", "record assignment",
              "assign conversation", "claim conversation", "record claim",
              "unclaim conversation", "resolve assignment",
              "activate conversation"}
  BY DEF BusySteps
<1>r. \A c \in Conversations : conversations[c] \in Row
                                 /\ conversations[c].expert \in MaybeUser
  BY <1>t DEF Row
<1>f. ASSUME conversations' \in [Conversations -> Row],
             assignments' \in Seq(AssignmentRecord),
             requests' \in [Threads -> Request], ExpertChosen'
      PROVE  TypeInv'
  BY <1>f DEF TypeInv, TypeOK
<1>1. CASE UNCHANGED vars
  BY <1>1, <1>t DEF vars, TypeInv, TypeOK, ExpertChosen
<1>2. ASSUME NEW t \in Threads, LoadForJob(t) PROVE TypeInv'
  <2>1. requests[t].conversation \in Conversations
    BY <1>2, <1>b, AtType, BusyFields DEF LoadForJob
  <2>2. requests' \in [Threads -> Request] /\ ExpertChosen'
    BY <1>2, <2>1, <1>r, <1>s, <1>b, FinishType, BeginType DEF LoadForJob
  <2> QED
    BY <1>2, <1>t, <1>f, <2>2 DEF LoadForJob
<1>3. ASSUME NEW t \in Threads, RecordAssignment(t) PROVE TypeInv'
  BY <1>3, <1>t, <1>f, <1>b, AtType, CreateType, ProceedType
  DEF RecordAssignment, OpenStatuses
<1>4. ASSUME NEW t \in Threads, AssignConversation(t) PROVE TypeInv'
  BY <1>4, <1>t, <1>f, <1>b, <1>s, AtType, WriteType, FinishType
     DEF AssignConversation
<1>5. ASSUME NEW t \in Threads, ClaimConversation(t) PROVE TypeInv'
  BY <1>5, <1>t, <1>f, <1>b, <1>s, AtType, WriteType, ProceedType
     DEF ClaimConversation
<1>6. ASSUME NEW t \in Threads, RecordClaim(t) PROVE TypeInv'
  BY <1>6, <1>t, <1>f, <1>b, AtType, CreateType, FinishType
  DEF RecordClaim, OpenStatuses
<1>7. ASSUME NEW t \in Threads, UnclaimConversation(t) PROVE TypeInv'
  BY <1>7, <1>t, <1>f, <1>b, <1>s, AtType, WriteType, ProceedType
     DEF UnclaimConversation
<1>8. ASSUME NEW t \in Threads, ResolveAssignment(t) PROVE TypeInv'
  <2>1. assignments' \in Seq(AssignmentRecord)
    BY <1>8, <1>t, ResolveType DEF ResolveAssignment, RowsOf
  <2> QED
    BY <1>8, <1>t, <1>f, <2>1, FinishType DEF ResolveAssignment
<1>9. ASSUME NEW t \in Threads, ActivateConversation(t) PROVE TypeInv'
  <2>1. requests[t] \in BusyRequest /\ requests[t].loaded.expert \in MaybeUser
    BY <1>9, <1>b, AtType, BusyFields DEF ActivateConversation, Row
  <2> QED
    BY <1>9, <1>t, <1>f, <1>s, <2>1, WriteType, FinishType
       DEF ActivateConversation
<1>10. ASSUME NEW t \in Threads, NEW e \in Users, LlmPicks(t, e) PROVE TypeInv'
  <2>1. requests[t] \in BusyRequest
    BY <1>10, <1>b, AtType DEF LlmPicks
  <2>2. [requests[t] EXCEPT !.step = "record assignment", !.expert = e] \in BusyRequest
    BY <2>1, <1>b, <1>s DEF BusyRequest
  <2>3. requests' \in [Threads -> Request] /\ ExpertChosen'
    BY <1>10, <1>t, <2>1, <2>2, BusyFields DEF LlmPicks, ExpertChosen, BusyRequest
  <2> QED
    BY <1>10, <1>t, <1>f, <2>3 DEF LlmPicks
<1>11. ASSUME NEW t \in Threads, LlmPicksNobody(t) \/ LlmUnavailable(t) \/ Abort(t)
       PROVE  TypeInv'
  BY <1>11, <1>t, <1>f, FinishType DEF LlmPicksNobody, LlmUnavailable, Abort
<1>12. ASSUME NEW t \in Threads, ServeWithoutEffect(t) PROVE TypeInv'
  BY <1>12, <1>1 DEF ServeWithoutEffect
<1>13. ASSUME NEW t \in Threads, NEW u \in Users, NEW c \in Conversations,
              NEW s \in InitialStatuses, CreateConversation(t, u, c, s)
       PROVE  TypeInv'
  <2>1. [initiator |-> u, expert |-> NoUser, status |-> s] \in Row
    BY StatusesAssumption, <1>s DEF Row
  <2> QED
    BY <1>13, <2>1, <1>t, <1>f, <1>s, <1>b, BeginType DEF CreateConversation
<1>14. ASSUME NEW t \in Threads, NEW u \in Users, NEW c \in Conversations,
              RequestAutoAssign(t, u, c) \/ LoadForClaim(t, u, c)
                \/ LoadForUnclaim(t, u, c) \/ LoadForMessage(t, u, c)
       PROVE  TypeInv'
  BY <1>14, <1>r, <1>t, <1>f, <1>s, <1>b, BeginType DEF RequestAutoAssign,
     LoadForClaim, LoadForUnclaim, LoadForMessage
<1> QED
  BY <1>1, <1>2, <1>3, <1>4, <1>5, <1>6, <1>7, <1>8, <1>9, <1>10, <1>11, <1>12,
     <1>13, <1>14 DEF Next, Step, LlmAnswers, Admit

\* Every reachable state is well typed: in particular no assignment row is ever
\* inserted without an expert.
THEOREM TypeCorrect == Spec => []TypeOK
<1>1. Spec => []TypeInv
  BY TypeInit, TypeStep, PTL DEF Spec
<1> QED
  BY <1>1, PTL DEF TypeInv

-----------------------------------------------------------------------------
(* What a thread knows about the copy of the row it has loaded.            *)

\* The conversation of a request has been created, and the handlers that write
\* an expert do so on a copy that had none.
LoadedInv ==
  \A t \in Threads :
     requests[t].step # "idle" =>
        /\ conversations[requests[t].conversation].status # "absent"
        /\ requests[t].loaded.status # "absent"
        /\ requests[t].step \in {"call llm", "record assignment",
                                 "assign conversation", "claim conversation"}
             => requests[t].loaded.expert = NoUser

\* A conversation, once created, stays: no action writes "absent".
LEMMA WriteKeepsRows ==
  ASSUME TypeInv, NEW t \in Threads, requests[t] \in BusyRequest,
         NEW e, NEW s \in Statuses, WriteConversation(t, e, s)
  PROVE  \A c \in Conversations : Exists(c) => Exists(c)'
<1>1. "absent" \notin Statuses
  BY DEF Statuses
<1> QED
  BY <1>1, BusyFields DEF TypeInv, TypeOK, WriteConversation, DirtyWrite, Row, Exists

\* The actions that write the conversations.
WritesConversations(t) ==
  \/ AssignConversation(t)
  \/ ClaimConversation(t)
  \/ UnclaimConversation(t)
  \/ ActivateConversation(t)
  \/ \E u \in Users, c \in Conversations, s \in InitialStatuses :
        CreateConversation(t, u, c, s)

\* No other action does.
LEMMA ConversationWriters ==
  ASSUME [Next]_vars
  PROVE  UNCHANGED conversations \/ \E t \in Threads : WritesConversations(t)
<1>1. CASE UNCHANGED vars
  BY <1>1 DEF vars
<1>2. CASE Next
  <2>1. PICK t \in Threads :
          \/ Step(t)
          \/ LlmAnswers(t) \/ Abort(t) \/ ServeWithoutEffect(t)
          \/ \E u \in Users, c \in Conversations : Admit(t, u, c)
    BY <1>2 DEF Next
  <2>2. CASE Step(t)
    <3>1. CASE LoadForJob(t) \/ RecordAssignment(t) \/ RecordClaim(t) \/ ResolveAssignment(t)
      BY <3>1 DEF LoadForJob, RecordAssignment, RecordClaim, ResolveAssignment
    <3> QED
      BY <2>2, <3>1 DEF Step, WritesConversations
  <2>3. CASE LlmAnswers(t) \/ Abort(t) \/ ServeWithoutEffect(t)
    BY <2>3 DEF LlmAnswers, LlmPicks, LlmPicksNobody, LlmUnavailable, Abort,
                ServeWithoutEffect, vars
  <2>4. ASSUME NEW u \in Users, NEW c \in Conversations, Admit(t, u, c)
        PROVE  UNCHANGED conversations \/ WritesConversations(t)
    <3>1. CASE \E s \in InitialStatuses : CreateConversation(t, u, c, s)
      BY <3>1 DEF WritesConversations
    <3>2. CASE RequestAutoAssign(t, u, c) \/ LoadForClaim(t, u, c)
                 \/ LoadForUnclaim(t, u, c) \/ LoadForMessage(t, u, c)
      BY <3>2 DEF RequestAutoAssign, LoadForClaim, LoadForUnclaim, LoadForMessage
    <3> QED
      BY <2>4, <3>1, <3>2 DEF Admit
  <2> QED
    BY <2>1, <2>2, <2>3, <2>4
<1> QED
  BY <1>1, <1>2

\* No step of the system makes a conversation disappear.
LEMMA RowsStay ==
  ASSUME TypeInv, [Next]_vars
  PROVE  \A c \in Conversations : Exists(c) => Exists(c)'
<1>b. BusySteps = {"load for job", "call llm", "record assignment",
              "assign conversation", "claim conversation", "record claim",
              "unclaim conversation", "resolve assignment",
              "activate conversation"}
        /\ {"waiting", "active"} \subseteq Statuses
  BY DEF BusySteps, Statuses
<1>1. CASE UNCHANGED conversations
  BY <1>1 DEF Exists
<1>2. ASSUME NEW t \in Threads, AssignConversation(t) \/ ClaimConversation(t)
                \/ UnclaimConversation(t) \/ ActivateConversation(t)
      PROVE  \A c \in Conversations : Exists(c) => Exists(c)'
  BY <1>2, <1>b, AtType, WriteKeepsRows DEF AssignConversation,
     ClaimConversation, UnclaimConversation, ActivateConversation
<1>3. ASSUME NEW t \in Threads, NEW u \in Users, NEW c \in Conversations,
             NEW s \in InitialStatuses, CreateConversation(t, u, c, s)
      PROVE  \A d \in Conversations : Exists(d) => Exists(d)'
  BY <1>3 DEF CreateConversation, TypeInv, TypeOK, Exists
<1> QED
  BY <1>1, <1>2, <1>3, ConversationWriters DEF WritesConversations

\* Before the first request no thread holds a copy.
LEMMA LoadedInit == Init => LoadedInv
  BY IdleStep DEF Init, LoadedInv

\* What a thread knows about its copy stays true while others write the row.
LEMMA LoadedStep == TypeInv /\ LoadedInv /\ [Next]_vars => LoadedInv'
<1> SUFFICES ASSUME TypeInv, LoadedInv, [Next]_vars PROVE LoadedInv'
  OBVIOUS
<1>t. requests \in [Threads -> Request] /\ conversations \in [Conversations -> Row]
  BY DEF TypeInv, TypeOK
<1>e. \A c \in Conversations : Exists(c) => Exists(c)'
  BY RowsStay
<1>c. \A t \in Threads : requests[t].step # "idle" =>
         requests[t].conversation \in Conversations
  BY <1>t, BusyIsRequest, BusyFields
<1>k. ASSUME NEW t \in Threads, requests' = [requests EXCEPT ![t] = requests'[t]],
             requests'[t].step # "idle" =>
                /\ requests[t].step # "idle"
                /\ requests'[t].conversation = requests[t].conversation
                /\ requests'[t].loaded = requests[t].loaded
                /\ requests'[t].step \in {"call llm", "record assignment",
                                 "assign conversation", "claim conversation"}
                     => requests[t].step \in {"call llm", "record assignment",
                                 "assign conversation", "claim conversation"}
      PROVE  LoadedInv'
  BY <1>k, <1>t, <1>e, <1>c DEF LoadedInv, Exists
<1>b. ASSUME NEW t \in Threads, NEW step, NEW c \in Conversations, NEW row, NEW e,
             Begin(t, step, c, row, e), Exists(c)', row.status # "absent",
             step \in {"call llm", "claim conversation"} => row.expert = NoUser,
             step \in {"load for job", "call llm", "claim conversation",
                       "unclaim conversation", "activate conversation"}
      PROVE  LoadedInv'
  BY <1>b, <1>t, <1>e, <1>c DEF LoadedInv, Begin, Exists
<1>f. ASSUME NEW t \in Threads, Finish(t) PROVE LoadedInv'
  BY <1>f, <1>t, <1>k, IdleStep DEF Finish
<1>1. CASE UNCHANGED vars
  BY <1>1 DEF vars, LoadedInv
<1>2. ASSUME NEW t \in Threads, LoadForJob(t) PROVE LoadedInv'
  <2>1. /\ requests[t].conversation \in Conversations
        /\ Exists(requests[t].conversation)
    BY <1>2, <1>c DEF LoadForJob, At, LoadedInv, Exists
  <2> QED
    BY <1>2, <2>1, <1>e, <1>b, <1>f DEF LoadForJob, Exists
<1>3. ASSUME NEW t \in Threads, RecordAssignment(t) \/ ClaimConversation(t)
               \/ UnclaimConversation(t)
      PROVE  LoadedInv'
  <2>1. requests[t] \in BusyRequest
    BY <1>3, AtType DEF RecordAssignment, ClaimConversation, UnclaimConversation,
       BusySteps
  <2> QED
    BY <1>3, <1>t, <1>k, <2>1 DEF RecordAssignment, ClaimConversation,
       UnclaimConversation, Proceed, At, BusyRequest
<1>4. ASSUME NEW t \in Threads, NEW e \in Users, LlmPicks(t, e) PROVE LoadedInv'
  <2>1. requests[t] \in BusyRequest
    BY <1>4, AtType DEF LlmPicks, BusySteps
  <2> QED
    BY <1>4, <1>t, <1>k, <2>1 DEF LlmPicks, At, BusyRequest
<1>5. ASSUME NEW t \in Threads, AssignConversation(t) \/ RecordClaim(t)
               \/ ResolveAssignment(t) \/ ActivateConversation(t)
               \/ LlmPicksNobody(t) \/ LlmUnavailable(t) \/ Abort(t)
      PROVE  LoadedInv'
  BY <1>5, <1>f DEF AssignConversation, RecordClaim, ResolveAssignment,
     ActivateConversation, LlmPicksNobody, LlmUnavailable, Abort
<1>6. ASSUME NEW t \in Threads, NEW u \in Users, NEW c \in Conversations,
             NEW s \in InitialStatuses, CreateConversation(t, u, c, s)
      PROVE  LoadedInv'
  <2>1. s # "absent"
    BY StatusesAssumption DEF Statuses
  <2>2. Exists(c)'
    BY <1>6, <2>1, <1>t DEF CreateConversation, Exists
  <2> DEFINE row == [initiator |-> u, expert |-> NoUser, status |-> s]
  <2>3. Begin(t, "load for job", c, row, NoUser)
    BY <1>6 DEF CreateConversation
  <2>4. row.status # "absent"
    BY <2>1
  <2> HIDE DEF row
  <2> QED
    BY <2>2, <2>3, <2>4, <1>b
<1>7. ASSUME NEW t \in Threads, NEW u \in Users, NEW c \in Conversations,
             RequestAutoAssign(t, u, c) \/ LoadForClaim(t, u, c)
               \/ LoadForUnclaim(t, u, c) \/ LoadForMessage(t, u, c)
      PROVE  LoadedInv'
  BY <1>7, <1>b, <1>e DEF RequestAutoAssign, LoadForClaim, LoadForUnclaim,
     LoadForMessage, Exists
<1> QED
  BY <1>1, <1>2, <1>3, <1>4, <1>5, <1>6, <1>7 DEF Next, Step, LlmAnswers, Admit,
     ServeWithoutEffect

-----------------------------------------------------------------------------
(* The status column and the expert column agree.                          *)

\* The two columns of a row agree, and an id not inserted has no expert.
Coherent(row) ==
  \/ row.status \in {"absent", "waiting"} /\ row.expert = NoUser
  \/ row.status = "active" /\ row.expert \in Users

\* Rows and loaded copies agree in themselves; unclaim works on a copy that has
\* an expert, and no message finds a waiting conversation with an expert.  Each
\* update! therefore changes both columns of its copy, and dirty tracking makes
\* it write both.
CoherentInv ==
  /\ \A c \in Conversations : Coherent(conversations[c])
  /\ \A t \in Threads :
        requests[t].step # "idle" =>
           /\ Coherent(requests[t].loaded)
           /\ requests[t].step = "unclaim conversation"
                => requests[t].loaded.expert # NoUser
           /\ requests[t].step # "activate conversation"

\* A write of both columns over any coherent row is coherent when the copy it
\* started from was on the other side of "has an expert".
LEMMA CoherentWrite ==
  ASSUME NEW row \in Row, NEW loaded \in Row, NEW e, NEW s,
         Coherent(loaded), loaded.status # "absent",
         \/ loaded.expert = NoUser /\ e \in Users /\ s = "active"
         \/ loaded.expert # NoUser /\ e = NoUser /\ s = "waiting"
  PROVE  Coherent(DirtyWrite(row, loaded, e, s))
  BY NoUserAssumption DEF Coherent, DirtyWrite, Row

\* Before the first request status and expert agree.
LEMMA CoherentInit == Init => CoherentInv
<1>1. Coherent(Absent)
  BY DEF Coherent, Absent
<1> QED
  BY <1>1, IdleStep DEF Init, CoherentInv

\* Rows and the threads' copies of them stay coherent, whichever copy is written.
LEMMA CoherentStep ==
  ASSUME InitialStatuses = {"waiting"}
  PROVE  TypeInv /\ LoadedInv /\ CoherentInv /\ [Next]_vars => CoherentInv'
<1> SUFFICES ASSUME TypeInv, LoadedInv, CoherentInv, [Next]_vars PROVE CoherentInv'
  OBVIOUS
<1>t. requests \in [Threads -> Request] /\ conversations \in [Conversations -> Row]
  BY DEF TypeInv, TypeOK
<1>q. ASSUME UNCHANGED conversations, NEW t \in Threads,
             requests' = [requests EXCEPT ![t] = requests'[t]],
             requests'[t].step # "idle" =>
                /\ Coherent(requests'[t].loaded)
                /\ requests'[t].step = "unclaim conversation"
                     => requests'[t].loaded.expert # NoUser
                /\ requests'[t].step # "activate conversation"
      PROVE  CoherentInv'
  BY <1>q, <1>t DEF CoherentInv, Coherent
<1>w. ASSUME NEW t \in Threads, requests[t] \in BusyRequest,
             requests' = [requests EXCEPT ![t] = requests'[t]],
             NEW e, NEW s, WriteConversation(t, e, s),
             requests'[t].step # "idle" =>
                /\ requests'[t].loaded = requests[t].loaded
                /\ requests'[t].step \notin {"activate conversation",
                                             "unclaim conversation"},
             \/ requests[t].loaded.expert = NoUser /\ e \in Users /\ s = "active"
             \/ requests[t].loaded.expert # NoUser /\ e = NoUser /\ s = "waiting"
      PROVE  CoherentInv'
  <2>1. requests[t].step # "idle" /\ requests[t].loaded \in Row
          /\ requests[t].conversation \in Conversations
    BY <1>w, BusyFields DEF BusySteps
  <2>2. Coherent(requests[t].loaded) /\ requests[t].loaded.status # "absent"
    BY <2>1 DEF CoherentInv, LoadedInv
  <2>3. \A c \in Conversations : Coherent(conversations'[c])
    <3>1. Coherent(DirtyWrite(conversations[requests[t].conversation],
                              requests[t].loaded, e, s))
      BY <1>t, <1>w, <2>1, <2>2, CoherentWrite
    <3> QED
      BY <3>1, <1>t, <1>w, <2>1 DEF WriteConversation, CoherentInv
  <2>4. \A x \in Threads : requests'[x].step # "idle" =>
           /\ Coherent(requests'[x].loaded)
           /\ requests'[x].step = "unclaim conversation"
                => requests'[x].loaded.expert # NoUser
           /\ requests'[x].step # "activate conversation"
    BY <1>w, <1>t, <2>2 DEF CoherentInv
  <2> QED
    BY <2>3, <2>4 DEF CoherentInv, Coherent
<1>b. ASSUME UNCHANGED conversations, NEW t \in Threads, NEW step,
             NEW c \in Conversations, NEW row, NEW e,
             Begin(t, step, c, row, e), Coherent(row),
             step = "unclaim conversation" => row.expert # NoUser,
             step # "activate conversation"
      PROVE  CoherentInv'
  <2>1. requests'[t] = [step |-> step, conversation |-> c, loaded |-> row, expert |-> e]
          /\ requests' = [requests EXCEPT ![t] = requests'[t]]
    BY <1>b, <1>t DEF Begin
  <2>2. requests'[t].step = step /\ requests'[t].loaded = row
    BY <2>1
  <2> QED
    BY <1>b, <1>q, <2>1, <2>2
<1>f. ASSUME UNCHANGED conversations, NEW t \in Threads, Finish(t) PROVE CoherentInv'
  BY <1>f, <1>t, <1>q, IdleStep DEF Finish
<1>1. CASE UNCHANGED vars
  BY <1>1 DEF vars, CoherentInv, Coherent
<1>2. ASSUME NEW t \in Threads, LoadForJob(t) PROVE CoherentInv'
  <2>1. requests[t].conversation \in Conversations
    BY <1>2, <1>t, AtType, BusyFields DEF LoadForJob, BusySteps
  <2> QED
    BY <1>2, <2>1, <1>b, <1>f DEF LoadForJob, CoherentInv
<1>3. ASSUME NEW t \in Threads, RecordAssignment(t) PROVE CoherentInv'
  <2>1. requests[t] \in BusyRequest /\ requests[t].step = "record assignment"
    BY <1>3, AtType DEF RecordAssignment, BusySteps, At
  <2>2. requests'[t].step = "assign conversation"
          /\ requests'[t].loaded = requests[t].loaded
          /\ requests' = [requests EXCEPT ![t] = requests'[t]]
    BY <1>3, <1>t, <2>1 DEF RecordAssignment, Proceed, BusyRequest
  <2> QED
    BY <1>3, <1>q, <2>1, <2>2 DEF RecordAssignment, CoherentInv
<1>4. ASSUME NEW t \in Threads, AssignConversation(t) PROVE CoherentInv'
  <2>1. /\ requests[t] \in BusyRequest /\ requests[t].expert \in Users
        /\ requests[t].loaded.expert = NoUser
    BY <1>4, AtType DEF AssignConversation, BusySteps, At, LoadedInv
  <2> QED
    BY <1>4, <1>t, <1>w, <2>1, IdleStep DEF AssignConversation, Finish
<1>5. ASSUME NEW t \in Threads, ClaimConversation(t) PROVE CoherentInv'
  <2>1. /\ requests[t] \in BusyRequest /\ requests[t].expert \in Users
        /\ requests[t].loaded.expert = NoUser
    BY <1>5, AtType DEF ClaimConversation, BusySteps, At, LoadedInv
  <2>2. requests'[t].step = "record claim"
          /\ requests'[t].loaded = requests[t].loaded
          /\ requests' = [requests EXCEPT ![t] = requests'[t]]
    BY <1>5, <1>t, <2>1 DEF ClaimConversation, Proceed, BusyRequest
  <2> QED
    BY <1>5, <1>w, <2>1, <2>2 DEF ClaimConversation
<1>6. ASSUME NEW t \in Threads, UnclaimConversation(t) PROVE CoherentInv'
  <2>1. requests[t] \in BusyRequest /\ requests[t].loaded.expert # NoUser
    BY <1>6, AtType DEF UnclaimConversation, BusySteps, At, CoherentInv
  <2>2. requests'[t].step = "resolve assignment"
          /\ requests'[t].loaded = requests[t].loaded
          /\ requests' = [requests EXCEPT ![t] = requests'[t]]
    BY <1>6, <1>t, <2>1 DEF UnclaimConversation, Proceed, BusyRequest
  <2> QED
    BY <1>6, <1>w, <2>1, <2>2 DEF UnclaimConversation
<1>7. ASSUME NEW t \in Threads, ActivateConversation(t) PROVE CoherentInv'
  BY <1>7 DEF ActivateConversation, At, CoherentInv
<1>8. ASSUME NEW t \in Threads, NEW e \in Users, LlmPicks(t, e) PROVE CoherentInv'
  <2>1. requests[t] \in BusyRequest /\ requests[t].step = "call llm"
    BY <1>8, AtType DEF LlmPicks, BusySteps, At
  <2>2. requests'[t].step = "record assignment"
          /\ requests'[t].loaded = requests[t].loaded
          /\ requests' = [requests EXCEPT ![t] = requests'[t]]
    BY <1>8, <1>t, <2>1 DEF LlmPicks, BusyRequest
  <2> QED
    BY <1>8, <1>q, <2>1, <2>2 DEF LlmPicks, CoherentInv
<1>9. ASSUME NEW t \in Threads, RecordClaim(t) \/ ResolveAssignment(t)
               \/ LlmPicksNobody(t) \/ LlmUnavailable(t) \/ Abort(t)
      PROVE  CoherentInv'
  BY <1>9, <1>f DEF RecordClaim, ResolveAssignment, LlmPicksNobody,
     LlmUnavailable, Abort
<1>10. ASSUME NEW t \in Threads, NEW u \in Users, NEW c \in Conversations,
              NEW s \in InitialStatuses, CreateConversation(t, u, c, s)
       PROVE  CoherentInv'
  <2> DEFINE row == [initiator |-> u, expert |-> NoUser, status |-> s]
  <2>1. Coherent(row)
    BY DEF Coherent
  <2>2. \A d \in Conversations : Coherent(conversations'[d])
    BY <1>10, <1>t, <2>1 DEF CreateConversation, CoherentInv
  <2>3. \A x \in Threads : requests'[x].step # "idle" =>
           /\ Coherent(requests'[x].loaded)
           /\ requests'[x].step = "unclaim conversation"
                => requests'[x].loaded.expert # NoUser
           /\ requests'[x].step # "activate conversation"
    BY <1>10, <1>t, <2>1 DEF CreateConversation, Begin, CoherentInv
  <2> QED
    BY <2>2, <2>3 DEF CoherentInv, Coherent
<1>11. ASSUME NEW t \in Threads, NEW u \in Users, NEW c \in Conversations,
              RequestAutoAssign(t, u, c) \/ LoadForClaim(t, u, c)
                \/ LoadForUnclaim(t, u, c)
       PROVE  CoherentInv'
  <2>1. Coherent(conversations[c])
    BY DEF CoherentInv
  <2>2. LoadForUnclaim(t, u, c) => conversations[c].expert # NoUser
    BY NoUserAssumption DEF LoadForUnclaim
  <2> QED
    BY <1>11, <2>1, <2>2, <1>b DEF RequestAutoAssign, LoadForClaim, LoadForUnclaim
<1>12. ASSUME NEW t \in Threads, NEW u \in Users, NEW c \in Conversations,
              LoadForMessage(t, u, c)
       PROVE  FALSE
  BY <1>12 DEF LoadForMessage, CoherentInv, Coherent
<1> QED
  BY <1>1, <1>2, <1>3, <1>4, <1>5, <1>6, <1>7, <1>8, <1>9, <1>10, <1>11, <1>12
     DEF Next, Step, LlmAnswers, Admit, ServeWithoutEffect

\* The columns agree in every reachable state, however many threads race over
\* one conversation, whatever the LLM answers, whether or not claim and unclaim
\* are routed and wherever a thread dies, provided clients leave the initial
\* status to the server, as the front end does.
THEOREM StatusMatchesExpertAlways ==
  ASSUME InitialStatuses = {"waiting"}
  PROVE  Spec => []StatusMatchesExpert
<1>1. Init => TypeInv /\ LoadedInv /\ CoherentInv
  BY TypeInit, LoadedInit, CoherentInit
<1>2. TypeInv /\ LoadedInv /\ CoherentInv /\ [Next]_vars
        => (TypeInv /\ LoadedInv /\ CoherentInv)'
  BY TypeStep, LoadedStep, CoherentStep
<1>3. CoherentInv => StatusMatchesExpert
  BY NoUserAssumption DEF CoherentInv, Coherent, StatusMatchesExpert, Exists
<1> QED
  BY <1>1, <1>2, <1>3, PTL DEF Spec

-----------------------------------------------------------------------------
(* "resolved" is a state a conversation is created in and leaves for good. *)

\* A resolved row has nobody, and whoever holds a copy of it knows that.
ResolvedInv ==
  /\ \A c \in Conversations :
        conversations[c].status = "resolved" => conversations[c].expert = NoUser
  /\ \A t \in Threads :
        requests[t].step # "idle" =>
           /\ requests[t].loaded.status = "resolved" => requests[t].loaded.expert = NoUser
           /\ conversations[requests[t].conversation].status = "resolved"
                => requests[t].loaded.status = "resolved"

\* After an update! to another status the row is not resolved: either the copy
\* was, and the status is written, or the row was not resolved any more.
LEMMA WriteUnresolves ==
  ASSUME TypeInv, ResolvedInv, NEW t \in Threads, requests[t] \in BusyRequest,
         NEW e, NEW s \in {"waiting", "active"}, WriteConversation(t, e, s)
  PROVE  /\ requests[t].conversation \in Conversations
         /\ conversations'[requests[t].conversation].status # "resolved"
         /\ \A c \in Conversations \ {requests[t].conversation} :
               conversations'[c] = conversations[c]
<1>1. /\ requests[t].conversation \in Conversations
      /\ requests[t].step # "idle"
  BY BusyFields DEF BusySteps
<1>2. conversations[requests[t].conversation].status = "resolved"
        => requests[t].loaded.status = "resolved"
  BY <1>1 DEF ResolvedInv
<1> QED
  BY <1>1, <1>2 DEF WriteConversation, DirtyWrite, TypeInv, TypeOK, Row

\* Before the first request nothing is resolved.
LEMMA ResolvedInit == Init => ResolvedInv
<1>1. Absent.status # "resolved"
  BY DEF Absent
<1> QED
  BY <1>1, IdleStep DEF Init, ResolvedInv

\* No statement gives a resolved conversation an expert or an assigned one the
\* status "resolved".
LEMMA ResolvedStep == TypeInv /\ LoadedInv /\ ResolvedInv /\ [Next]_vars => ResolvedInv'
<1> SUFFICES ASSUME TypeInv, LoadedInv, ResolvedInv, [Next]_vars PROVE ResolvedInv'
  OBVIOUS
<1>t. requests \in [Threads -> Request] /\ conversations \in [Conversations -> Row]
  BY DEF TypeInv, TypeOK
<1>c. \A t \in Threads : requests[t].step # "idle" =>
         requests[t].conversation \in Conversations
  BY <1>t, BusyIsRequest, BusyFields
\* A thread goes on with its copy or finishes, and the rows stay.
<1>k. ASSUME UNCHANGED conversations, NEW t \in Threads,
             requests' = [requests EXCEPT ![t] = requests'[t]],
             requests'[t].step # "idle" =>
                /\ requests[t].step # "idle"
                /\ requests'[t].conversation = requests[t].conversation
                /\ requests'[t].loaded = requests[t].loaded
      PROVE  ResolvedInv'
  BY <1>k, <1>t DEF ResolvedInv
\* A thread loads the row as it is.
<1>b. ASSUME UNCHANGED conversations, NEW t \in Threads, NEW step,
             NEW c \in Conversations, NEW e, Begin(t, step, c, conversations[c], e)
      PROVE  ResolvedInv'
  BY <1>b, <1>t DEF ResolvedInv, Begin
\* A thread writes the row, keeping its copy if it goes on.
<1>w. ASSUME NEW t \in Threads, requests[t] \in BusyRequest,
             NEW e, NEW s \in {"waiting", "active"}, WriteConversation(t, e, s),
             requests' = [requests EXCEPT ![t] = requests'[t]],
             requests'[t].step # "idle" =>
                /\ requests'[t].conversation = requests[t].conversation
                /\ requests'[t].loaded = requests[t].loaded
      PROVE  ResolvedInv'
  <2>1. requests[t].step # "idle"
    BY <1>w, BusyFields DEF BusySteps
  <2>2. \A c \in Conversations : conversations'[c].status = "resolved" =>
           conversations'[c] = conversations[c]
    BY <1>w, WriteUnresolves
  <2>3. \A x \in Threads : requests'[x].step # "idle" =>
           /\ requests[x].step # "idle"
           /\ requests'[x].conversation = requests[x].conversation
           /\ requests'[x].loaded = requests[x].loaded
    BY <1>w, <1>t, <2>1
  <2> QED
    BY <1>c, <2>2, <2>3 DEF ResolvedInv
<1>f. ASSUME UNCHANGED conversations, NEW t \in Threads, Finish(t) PROVE ResolvedInv'
  BY <1>f, <1>t, <1>k, IdleStep DEF Finish
<1>1. CASE UNCHANGED vars
  BY <1>1 DEF vars, ResolvedInv
<1>2. ASSUME NEW t \in Threads, LoadForJob(t) PROVE ResolvedInv'
  <2>1. requests[t].conversation \in Conversations
    BY <1>2, <1>t, AtType, BusyFields DEF LoadForJob, BusySteps
  <2> QED
    BY <1>2, <2>1, <1>b, <1>f DEF LoadForJob
<1>3. ASSUME NEW t \in Threads, RecordAssignment(t) PROVE ResolvedInv'
  <2>1. requests[t] \in BusyRequest /\ requests[t].step # "idle"
    BY <1>3, AtType DEF RecordAssignment, BusySteps, At
  <2>2. /\ requests'[t].conversation = requests[t].conversation
        /\ requests'[t].loaded = requests[t].loaded
        /\ requests' = [requests EXCEPT ![t] = requests'[t]]
    BY <1>3, <1>t, <2>1 DEF RecordAssignment, Proceed, BusyRequest
  <2> QED
    BY <1>3, <1>k, <2>1, <2>2 DEF RecordAssignment
<1>4. ASSUME NEW t \in Threads, AssignConversation(t) \/ ActivateConversation(t)
      PROVE  ResolvedInv'
  <2>1. requests[t] \in BusyRequest
    BY <1>4, AtType DEF AssignConversation, ActivateConversation, BusySteps
  <2>2. requests' = [requests EXCEPT ![t] = requests'[t]] /\ requests'[t].step = "idle"
    BY <1>4, <1>t, IdleStep DEF AssignConversation, ActivateConversation, Finish
  <2>3. \E e : WriteConversation(t, e, "active")
    BY <1>4 DEF AssignConversation, ActivateConversation
  <2> QED
    BY <1>w, <2>1, <2>2, <2>3
<1>5. ASSUME NEW t \in Threads, ClaimConversation(t) \/ UnclaimConversation(t)
      PROVE  ResolvedInv'
  <2>1. requests[t] \in BusyRequest
    BY <1>5, AtType DEF ClaimConversation, UnclaimConversation, BusySteps
  <2>2. /\ requests'[t].conversation = requests[t].conversation
        /\ requests'[t].loaded = requests[t].loaded
        /\ requests' = [requests EXCEPT ![t] = requests'[t]]
    BY <1>5, <1>t, <2>1 DEF ClaimConversation, UnclaimConversation, Proceed, BusyRequest
  <2>3. \/ \E e : WriteConversation(t, e, "active")
        \/ \E e : WriteConversation(t, e, "waiting")
    BY <1>5 DEF ClaimConversation, UnclaimConversation
  <2> QED
    BY <1>w, <2>1, <2>2, <2>3
<1>6. ASSUME NEW t \in Threads, NEW e \in Users, LlmPicks(t, e) PROVE ResolvedInv'
  <2>1. requests[t] \in BusyRequest /\ requests[t].step # "idle"
    BY <1>6, AtType DEF LlmPicks, BusySteps, At
  <2>2. /\ requests'[t].conversation = requests[t].conversation
        /\ requests'[t].loaded = requests[t].loaded
        /\ requests' = [requests EXCEPT ![t] = requests'[t]]
    BY <1>6, <1>t, <2>1 DEF LlmPicks, BusyRequest
  <2> QED
    BY <1>6, <1>k, <2>1, <2>2 DEF LlmPicks
<1>7. ASSUME NEW t \in Threads, RecordClaim(t) \/ ResolveAssignment(t)
               \/ LlmPicksNobody(t) \/ LlmUnavailable(t) \/ Abort(t)
      PROVE  ResolvedInv'
  BY <1>7, <1>f DEF RecordClaim, ResolveAssignment, LlmPicksNobody,
     LlmUnavailable, Abort
<1>8. ASSUME NEW t \in Threads, NEW u \in Users, NEW c \in Conversations,
             NEW s \in InitialStatuses, CreateConversation(t, u, c, s)
      PROVE  ResolvedInv'
  <2> DEFINE row == [initiator |-> u, expert |-> NoUser, status |-> s]
  <2>1. /\ conversations' = [conversations EXCEPT ![c] = row]
        /\ Begin(t, "load for job", c, row, NoUser)
        /\ ~Exists(c)
    BY <1>8 DEF CreateConversation
  <2>2. row.expert = NoUser
    OBVIOUS
  <2> HIDE DEF row
  <2>3. \A x \in Threads \ {t} : requests[x].step # "idle" =>
           requests[x].conversation # c
    BY <2>1 DEF LoadedInv, Exists
  <2> QED
    BY <1>t, <1>c, <2>1, <2>2, <2>3 DEF ResolvedInv, Begin
<1>9. ASSUME NEW t \in Threads, NEW u \in Users, NEW c \in Conversations,
             RequestAutoAssign(t, u, c) \/ LoadForClaim(t, u, c)
               \/ LoadForUnclaim(t, u, c) \/ LoadForMessage(t, u, c)
      PROVE  ResolvedInv'
  BY <1>9, <1>b DEF RequestAutoAssign, LoadForClaim, LoadForUnclaim, LoadForMessage
<1> QED
  BY <1>1, <1>2, <1>3, <1>4, <1>5, <1>6, <1>7, <1>8, <1>9
     DEF Next, Step, LlmAnswers, Admit, ServeWithoutEffect

\* A conversation with an expert is never "resolved", although a client may open
\* one as "resolved" and although each write leaves the status alone if the
\* thread's old copy already had it: for every routing, any number of threads
\* and whether or not threads die.
THEOREM HolderNeverResolvedAlways == Spec => []HolderNeverResolved
<1>1. Init => TypeInv /\ LoadedInv /\ ResolvedInv
  BY TypeInit, LoadedInit, ResolvedInit
<1>2. TypeInv /\ LoadedInv /\ ResolvedInv /\ [Next]_vars
        => (TypeInv /\ LoadedInv /\ ResolvedInv)'
  BY TypeStep, LoadedStep, ResolvedStep
<1>3. ResolvedInv => HolderNeverResolved
  BY DEF ResolvedInv, HolderNeverResolved
<1> QED
  BY <1>1, <1>2, <1>3, PTL DEF Spec

-----------------------------------------------------------------------------
(* The router as shipped: neither claim nor unclaim is an action.          *)

Shipped == PublicActions \cap {"claim", "unclaim"} = {}

HasOpenAssignment(c, e) ==
  \E i \in RowsOf(c, e) : assignments[i].status \in OpenStatuses

\* The history row goes in first: a thread about to write the conversation has
\* inserted its row, and no reachable step closes a row again.
RecordedInv ==
  /\ \A t \in Threads :
        requests[t].step \notin {"claim conversation", "record claim",
                                 "unclaim conversation", "resolve assignment"}
  /\ \A t \in Threads :
        requests[t].step = "assign conversation"
          => HasOpenAssignment(requests[t].conversation, requests[t].expert)
  /\ \A c \in Conversations :
        conversations[c].expert # NoUser
          => Exists(c) /\ HasOpenAssignment(c, conversations[c].expert)

\* Inserting a row keeps every other row where it is and adds an open one.
LEMMA InsertKeepsRows ==
  ASSUME TypeInv, NEW t \in Threads, NEW status \in OpenStatuses,
         CreateAssignment(t, status)
  PROVE  /\ \A c, e : HasOpenAssignment(c, e) => HasOpenAssignment(c, e)'
         /\ \A c, e : RowsOf(c, e)' # {} <=>
               \/ RowsOf(c, e) # {}
               \/ c = requests[t].conversation /\ e = requests[t].expert
         /\ \A c, e : c = requests[t].conversation /\ e = requests[t].expert
                       => HasOpenAssignment(c, e)'
<1> DEFINE new == [conversation |-> requests[t].conversation,
                   expert |-> requests[t].expert, status |-> status]
           n == Len(assignments) + 1
<1>1. assignments \in Seq(AssignmentRecord) /\ assignments' = Append(assignments, new)
  BY DEF TypeInv, TypeOK, CreateAssignment
<1>2. /\ DOMAIN assignments' = DOMAIN assignments \cup {n}
      /\ n \notin DOMAIN assignments
      /\ \A i \in DOMAIN assignments : assignments'[i] = assignments[i]
      /\ assignments'[n] = new
  BY <1>1
<1>3. new.conversation = requests[t].conversation /\ new.expert = requests[t].expert
        /\ new.status \in OpenStatuses
  OBVIOUS
<1> HIDE DEF new, n
<1>4. \A c, e : RowsOf(c, e)' = RowsOf(c, e) \cup
         IF c = requests[t].conversation /\ e = requests[t].expert THEN {n} ELSE {}
  BY <1>2, <1>3 DEF RowsOf
<1>5. \A c, e : HasOpenAssignment(c, e) => HasOpenAssignment(c, e)'
  BY <1>2, <1>4 DEF HasOpenAssignment, RowsOf
<1>6. ASSUME NEW c, NEW e, c = requests[t].conversation, e = requests[t].expert
      PROVE  HasOpenAssignment(c, e)'
  <2>1. n \in RowsOf(c, e)'
    BY <1>4, <1>6
  <2> QED
    BY <2>1, <1>2, <1>3 DEF HasOpenAssignment
<1> QED
  BY <1>4, <1>5, <1>6

\* The only writes the shipped router reaches: the job's, on a conversation that
\* has the row, and a message's, which leaves the expert as it is.
LEMMA ActivateKeepsExperts ==
  ASSUME TypeInv, NEW t \in Threads, ActivateConversation(t)
  PROVE  \A c \in Conversations : conversations'[c].expert = conversations[c].expert
  BY DEF ActivateConversation, WriteConversation, DirtyWrite, TypeInv, TypeOK, Row

\* The job's update! makes its expert the holder and leaves the other
\* conversations alone.
LEMMA AssignSetsExpert ==
  ASSUME TypeInv, LoadedInv, NEW t \in Threads, AssignConversation(t)
  PROVE  /\ requests[t].conversation \in Conversations
         /\ requests[t].expert \in Users
         /\ Exists(requests[t].conversation)
         /\ \A c \in Conversations : conversations'[c].expert =
              IF c = requests[t].conversation THEN requests[t].expert
                                              ELSE conversations[c].expert
<1>1. /\ requests[t] \in BusyRequest /\ requests[t].expert \in Users
      /\ requests[t].step = "assign conversation"
  BY AtType DEF AssignConversation, BusySteps, At
<1>2. /\ requests[t].conversation \in Conversations
      /\ requests[t].loaded.expert = NoUser
      /\ Exists(requests[t].conversation)
  BY <1>1, BusyFields DEF LoadedInv, Exists
<1> QED
  BY <1>1, <1>2, NoUserAssumption DEF AssignConversation, WriteConversation,
     DirtyWrite, TypeInv, TypeOK, Row

\* Before the first request nobody holds a conversation.
LEMMA RecordedInit == Init => RecordedInv
<1>1. Absent.expert = NoUser
  BY DEF Absent
<1> QED
  BY <1>1, IdleStep DEF Init, RecordedInv

\* With the shipped router no statement separates a holder from its open row.
LEMMA RecordedStep ==
  ASSUME Shipped
  PROVE  TypeInv /\ LoadedInv /\ RecordedInv /\ [Next]_vars => RecordedInv'
<1> SUFFICES ASSUME TypeInv, LoadedInv, RecordedInv, [Next]_vars PROVE RecordedInv'
  OBVIOUS
<1>t. requests \in [Threads -> Request] /\ conversations \in [Conversations -> Row]
  BY DEF TypeInv, TypeOK
<1>e. \A c \in Conversations : Exists(c) => Exists(c)'
  BY RowsStay
<1>a. UNCHANGED assignments =>
        \A c, e : HasOpenAssignment(c, e)' <=> HasOpenAssignment(c, e)
  BY DEF HasOpenAssignment, RowsOf
<1> DEFINE Allowed(step) == step \notin {"claim conversation", "record claim",
                                "unclaim conversation", "resolve assignment"}
\* A step that neither inserts a row nor changes an expert and takes its thread
\* to a harmless statement.
<1>q. ASSUME UNCHANGED assignments, NEW t \in Threads,
             \A c \in Conversations :
                conversations'[c].expert = conversations[c].expert,
             requests' = [requests EXCEPT ![t] = requests'[t]],
             Allowed(requests'[t].step),
             requests'[t].step # "assign conversation"
      PROVE  RecordedInv'
  BY <1>q, <1>t, <1>a, <1>e DEF RecordedInv
<1>b. ASSUME UNCHANGED assignments, NEW t \in Threads,
             \A c \in Conversations :
                conversations'[c].expert = conversations[c].expert,
             NEW step, NEW c \in Conversations, NEW row, NEW e,
             Begin(t, step, c, row, e), Allowed(step), step # "assign conversation"
      PROVE  RecordedInv'
  <2>1. requests'[t].step = step /\ requests' = [requests EXCEPT ![t] = requests'[t]]
    BY <1>b, <1>t DEF Begin
  <2> QED
    BY <1>b, <1>q, <2>1
<1>f. ASSUME UNCHANGED assignments, NEW t \in Threads,
             \A c \in Conversations :
                conversations'[c].expert = conversations[c].expert,
             Finish(t)
      PROVE  RecordedInv'
  BY <1>f, <1>t, <1>q, IdleStep DEF Finish
<1>1. CASE UNCHANGED vars
  BY <1>1, <1>a, <1>e DEF vars, RecordedInv
<1>2. ASSUME NEW t \in Threads, LoadForJob(t) PROVE RecordedInv'
  <2>1. requests[t].conversation \in Conversations
    BY <1>2, <1>t, AtType, BusyFields DEF LoadForJob, BusySteps
  <2> QED
    BY <1>2, <2>1, <1>b, <1>f DEF LoadForJob
<1>3. ASSUME NEW t \in Threads, RecordAssignment(t) PROVE RecordedInv'
  <2>1. requests[t] \in BusyRequest
    BY <1>3, AtType DEF RecordAssignment, BusySteps, At
  <2>2. /\ requests'[t].step = "assign conversation"
        /\ requests'[t].conversation = requests[t].conversation
        /\ requests'[t].expert = requests[t].expert
        /\ \A x \in Threads \ {t} : requests'[x] = requests[x]
    BY <1>3, <1>t, <2>1 DEF RecordAssignment, Proceed, BusyRequest
  <2>3. /\ \A c, e : HasOpenAssignment(c, e) => HasOpenAssignment(c, e)'
        /\ \A c, e : c = requests[t].conversation /\ e = requests[t].expert
                       => HasOpenAssignment(c, e)'
    BY <1>3, InsertKeepsRows DEF RecordAssignment, OpenStatuses
  <2> QED
    BY <1>3, <1>e, <2>2, <2>3 DEF RecordedInv, RecordAssignment
<1>4. ASSUME NEW t \in Threads, AssignConversation(t) PROVE RecordedInv'
  <2>1. /\ requests[t].step = "assign conversation"
        /\ UNCHANGED assignments
        /\ requests' = [requests EXCEPT ![t] = Idle]
    BY <1>4 DEF AssignConversation, At, Finish
  <2>2. \A c \in Conversations : conversations'[c].expert # NoUser =>
           Exists(c) /\ HasOpenAssignment(c, conversations'[c].expert)
    BY <1>4, <2>1, AssignSetsExpert DEF RecordedInv
  <2>3. ASSUME NEW c \in Conversations, NEW x, x = conversations'[c].expert,
               x # NoUser
        PROVE  Exists(c)' /\ HasOpenAssignment(c, x)'
    BY <2>1, <2>2, <2>3, <1>e, <1>a
  <2> QED
    BY <2>1, <2>3, <1>t, <1>a, IdleStep DEF RecordedInv
<1>5. ASSUME NEW t \in Threads, ActivateConversation(t) PROVE RecordedInv'
  BY <1>5, <1>f, ActivateKeepsExperts DEF ActivateConversation
<1>6. ASSUME NEW t \in Threads, ClaimConversation(t) \/ RecordClaim(t)
               \/ UnclaimConversation(t) \/ ResolveAssignment(t)
      PROVE  FALSE
  BY <1>6 DEF ClaimConversation, RecordClaim, UnclaimConversation,
     ResolveAssignment, At, RecordedInv
<1>7. ASSUME NEW t \in Threads, NEW e \in Users, LlmPicks(t, e) PROVE RecordedInv'
  <2>1. requests[t] \in BusyRequest
    BY <1>7, AtType DEF LlmPicks, BusySteps, At
  <2>2. requests'[t].step = "record assignment"
          /\ requests' = [requests EXCEPT ![t] = requests'[t]]
    BY <1>7, <1>t, <2>1 DEF LlmPicks, BusyRequest
  <2> QED
    BY <1>7, <1>q, <2>2 DEF LlmPicks
<1>8. ASSUME NEW t \in Threads, LlmPicksNobody(t) \/ LlmUnavailable(t) \/ Abort(t)
      PROVE  RecordedInv'
  BY <1>8, <1>f DEF LlmPicksNobody, LlmUnavailable, Abort
<1>9. ASSUME NEW t \in Threads, NEW u \in Users, NEW c \in Conversations,
             NEW s \in InitialStatuses, CreateConversation(t, u, c, s)
      PROVE  RecordedInv'
  <2>1. \A d \in Conversations : conversations'[d].expert = conversations[d].expert
    BY <1>9, <1>t DEF CreateConversation, RecordedInv, Exists
  <2> QED
    BY <1>9, <2>1, <1>b DEF CreateConversation
<1>10. ASSUME NEW t \in Threads, NEW u \in Users, NEW c \in Conversations,
              RequestAutoAssign(t, u, c) \/ LoadForMessage(t, u, c)
       PROVE  RecordedInv'
  <2>1. /\ UNCHANGED assignments
        /\ \A d \in Conversations : conversations'[d].expert = conversations[d].expert
    BY <1>10 DEF RequestAutoAssign, LoadForMessage
  <2>2. \/ Begin(t, "call llm", c, conversations[c], NoUser)
        \/ Begin(t, "activate conversation", c, conversations[c], conversations[c].expert)
    BY <1>10 DEF RequestAutoAssign, LoadForMessage
  <2>3. /\ requests'[t].step \in {"call llm", "activate conversation"}
        /\ requests' = [requests EXCEPT ![t] = requests'[t]]
    <3>1. ASSUME NEW step, NEW e, Begin(t, step, c, conversations[c], e)
          PROVE  /\ requests'[t].step = step
                 /\ requests' = [requests EXCEPT ![t] = requests'[t]]
      BY <1>t, <3>1 DEF Begin
    <3> QED
      BY <2>2, <3>1
  <2> QED
    BY <2>1, <2>3, <1>q
<1>11. ASSUME NEW t \in Threads, NEW u \in Users, NEW c \in Conversations,
              LoadForClaim(t, u, c) \/ LoadForUnclaim(t, u, c)
       PROVE  FALSE
  BY <1>11 DEF LoadForClaim, LoadForUnclaim, Shipped
<1> QED
  BY <1>1, <1>2, <1>3, <1>4, <1>5, <1>6, <1>7, <1>8, <1>9, <1>10, <1>11
     DEF Next, Step, LlmAnswers, Admit, ServeWithoutEffect

\* The strengthening the two theorems below follow from.
LEMMA ShippedInvariant ==
  ASSUME Shipped
  PROVE  Spec => [](TypeInv /\ LoadedInv /\ RecordedInv)
<1>1. Init => TypeInv /\ LoadedInv /\ RecordedInv
  BY TypeInit, LoadedInit, RecordedInit
<1>2. TypeInv /\ LoadedInv /\ RecordedInv /\ [Next]_vars
        => (TypeInv /\ LoadedInv /\ RecordedInv)'
  BY TypeStep, LoadedStep, RecordedStep
<1> QED
  BY <1>1, <1>2, PTL DEF Spec

\* With the shipped router no expert ever holds a conversation without an open
\* row of expert_assignments, whichever threads race and wherever one dies
\* between ExpertAssignment.create! and conversation.update!.
THEOREM HolderHasOpenAssignmentAlways ==
  ASSUME Shipped
  PROVE  Spec => []HolderHasOpenAssignment
<1>1. RecordedInv => HolderHasOpenAssignment
  BY DEF RecordedInv, HolderHasOpenAssignment, HasOpenAssignment
<1> QED
  BY <1>1, ShippedInvariant, PTL

-----------------------------------------------------------------------------
(* Without claim and unclaim a conversation only ever becomes "active".    *)

\* Whoever has an expert is active, and what a thread has seen active still is.
ActiveInv ==
  /\ HolderMeansActive
  /\ \A t \in Threads :
        requests[t].step # "idle" /\ requests[t].loaded.status = "active"
          => conversations[requests[t].conversation].status = "active"

\* An update! to "active" leaves the row active, whatever the copy said.
LEMMA WriteActivates ==
  ASSUME TypeInv, ActiveInv, NEW t \in Threads, requests[t] \in BusyRequest,
         NEW e, WriteConversation(t, e, "active")
  PROVE  /\ requests[t].conversation \in Conversations
         /\ conversations'[requests[t].conversation].status = "active"
         /\ \A c \in Conversations \ {requests[t].conversation} :
               conversations'[c] = conversations[c]
<1>1. /\ requests[t].conversation \in Conversations
      /\ requests[t].step # "idle"
  BY BusyFields DEF BusySteps
<1>2. requests[t].loaded.status = "active"
        => conversations[requests[t].conversation].status = "active"
  BY <1>1 DEF ActiveInv
<1> QED
  BY <1>1, <1>2 DEF WriteConversation, DirtyWrite, TypeInv, TypeOK, Row

\* Before the first request nobody holds a conversation or a copy.
LEMMA ActiveInit == Init => ActiveInv
<1>1. Absent.expert = NoUser
  BY DEF Absent
<1> QED
  BY <1>1, IdleStep DEF Init, ActiveInv, HolderMeansActive

\* With the shipped router every write activates.
LEMMA ActiveStep ==
  ASSUME Shipped
  PROVE  TypeInv /\ LoadedInv /\ RecordedInv /\ ActiveInv /\ [Next]_vars => ActiveInv'
<1> SUFFICES ASSUME TypeInv, LoadedInv, RecordedInv, ActiveInv, [Next]_vars
             PROVE  ActiveInv'
  OBVIOUS
<1>t. requests \in [Threads -> Request] /\ conversations \in [Conversations -> Row]
  BY DEF TypeInv, TypeOK
<1>c. \A t \in Threads : requests[t].step # "idle" =>
         requests[t].conversation \in Conversations
  BY <1>t, BusyIsRequest, BusyFields
\* A thread goes on with its copy or finishes, and the rows stay.
<1>k. ASSUME UNCHANGED conversations, NEW t \in Threads,
             requests' = [requests EXCEPT ![t] = requests'[t]],
             requests'[t].step # "idle" =>
                /\ requests[t].step # "idle"
                /\ requests'[t].conversation = requests[t].conversation
                /\ requests'[t].loaded = requests[t].loaded
      PROVE  ActiveInv'
  BY <1>k, <1>t DEF ActiveInv, HolderMeansActive
\* A thread loads the row as it is.
<1>b. ASSUME UNCHANGED conversations, NEW t \in Threads, NEW step,
             NEW c \in Conversations, NEW e, Begin(t, step, c, conversations[c], e)
      PROVE  ActiveInv'
  BY <1>b, <1>t DEF ActiveInv, HolderMeansActive, Begin
<1>f. ASSUME UNCHANGED conversations, NEW t \in Threads, Finish(t) PROVE ActiveInv'
  BY <1>f, <1>t, <1>k, IdleStep DEF Finish
<1>1. CASE UNCHANGED vars
  BY <1>1 DEF vars, ActiveInv, HolderMeansActive
<1>2. ASSUME NEW t \in Threads, LoadForJob(t) PROVE ActiveInv'
  <2>1. requests[t].conversation \in Conversations
    BY <1>2, <1>t, AtType, BusyFields DEF LoadForJob, BusySteps
  <2> QED
    BY <1>2, <2>1, <1>b, <1>f DEF LoadForJob
<1>3. ASSUME NEW t \in Threads, RecordAssignment(t) PROVE ActiveInv'
  <2>1. requests[t] \in BusyRequest /\ requests[t].step # "idle"
    BY <1>3, AtType DEF RecordAssignment, BusySteps, At
  <2>2. /\ requests'[t].conversation = requests[t].conversation
        /\ requests'[t].loaded = requests[t].loaded
        /\ requests' = [requests EXCEPT ![t] = requests'[t]]
    BY <1>3, <1>t, <2>1 DEF RecordAssignment, Proceed, BusyRequest
  <2> QED
    BY <1>3, <1>k, <2>1, <2>2 DEF RecordAssignment
<1>4. ASSUME NEW t \in Threads, AssignConversation(t) \/ ActivateConversation(t)
      PROVE  ActiveInv'
  <2>1. requests[t] \in BusyRequest
    BY <1>4, AtType DEF AssignConversation, ActivateConversation, BusySteps
  <2>2. requests' = [requests EXCEPT ![t] = Idle]
    BY <1>4 DEF AssignConversation, ActivateConversation, Finish
  <2>3. \A c \in Conversations : conversations'[c].status = "active"
                                   \/ conversations'[c] = conversations[c]
    BY <1>4, <2>1, WriteActivates DEF AssignConversation, ActivateConversation
  <2> QED
    BY <1>t, <1>c, <2>2, <2>3, IdleStep DEF ActiveInv, HolderMeansActive
<1>5. ASSUME NEW t \in Threads, ClaimConversation(t) \/ RecordClaim(t)
               \/ UnclaimConversation(t) \/ ResolveAssignment(t)
      PROVE  FALSE
  BY <1>5 DEF ClaimConversation, RecordClaim, UnclaimConversation,
     ResolveAssignment, At, RecordedInv
<1>6. ASSUME NEW t \in Threads, NEW e \in Users, LlmPicks(t, e) PROVE ActiveInv'
  <2>1. requests[t] \in BusyRequest /\ requests[t].step # "idle"
    BY <1>6, AtType DEF LlmPicks, BusySteps, At
  <2>2. /\ requests'[t].conversation = requests[t].conversation
        /\ requests'[t].loaded = requests[t].loaded
        /\ requests' = [requests EXCEPT ![t] = requests'[t]]
    BY <1>6, <1>t, <2>1 DEF LlmPicks, BusyRequest
  <2> QED
    BY <1>6, <1>k, <2>1, <2>2 DEF LlmPicks
<1>7. ASSUME NEW t \in Threads, LlmPicksNobody(t) \/ LlmUnavailable(t) \/ Abort(t)
      PROVE  ActiveInv'
  BY <1>7, <1>f DEF LlmPicksNobody, LlmUnavailable, Abort
<1>8. ASSUME NEW t \in Threads, NEW u \in Users, NEW c \in Conversations,
             NEW s \in InitialStatuses, CreateConversation(t, u, c, s)
      PROVE  ActiveInv'
  <2> DEFINE row == [initiator |-> u, expert |-> NoUser, status |-> s]
  <2>1. /\ conversations' = [conversations EXCEPT ![c] = row]
        /\ Begin(t, "load for job", c, row, NoUser)
        /\ ~Exists(c)
    BY <1>8 DEF CreateConversation
  <2>2. row.expert = NoUser
    OBVIOUS
  <2> HIDE DEF row
  <2>3. \A x \in Threads \ {t} : requests[x].step # "idle" =>
           requests[x].conversation # c
    BY <2>1 DEF LoadedInv, Exists
  <2> QED
    BY <1>t, <1>c, <2>1, <2>2, <2>3 DEF ActiveInv, HolderMeansActive, Begin
<1>9. ASSUME NEW t \in Threads, NEW u \in Users, NEW c \in Conversations,
             RequestAutoAssign(t, u, c) \/ LoadForClaim(t, u, c)
               \/ LoadForUnclaim(t, u, c) \/ LoadForMessage(t, u, c)
      PROVE  ActiveInv'
  BY <1>9, <1>b DEF RequestAutoAssign, LoadForClaim, LoadForUnclaim, LoadForMessage
<1> QED
  BY <1>1, <1>2, <1>3, <1>4, <1>5, <1>6, <1>7, <1>8, <1>9
     DEF Next, Step, LlmAnswers, Admit, ServeWithoutEffect

\* With the shipped router a conversation that has an expert is "active",
\* whatever status its client created it with, although a job whose copy was
\* already "active" leaves the column out of its UPDATE.
THEOREM HolderMeansActiveAlways ==
  ASSUME Shipped
  PROVE  Spec => []HolderMeansActive
<1>1. Spec => [](TypeInv /\ LoadedInv /\ RecordedInv)
  BY ShippedInvariant
<1>2. Init => ActiveInv
  BY ActiveInit
<1>3. TypeInv /\ LoadedInv /\ RecordedInv /\ ActiveInv /\ [Next]_vars => ActiveInv'
  BY ActiveStep
<1>4. ActiveInv => HolderMeansActive
  BY DEF ActiveInv
<1> QED
  BY <1>1, <1>2, <1>3, <1>4, PTL DEF Spec

-----------------------------------------------------------------------------
(* With claim and unclaim in play and no thread dying, every holder is in  *)
(* the history or about to be entered there.                               *)

\* A claimant e of conversation c has written the row and will insert its own.
ClaimPending(c, e) ==
  \E t \in Threads : /\ At(t, "record claim")
                     /\ requests[t].conversation = c
                     /\ requests[t].expert = e

\* The job inserts its row before it writes the conversation, the claim after.
PendingInv ==
  /\ \A t \in Threads :
        requests[t].step = "assign conversation"
          => RowsOf(requests[t].conversation, requests[t].expert) # {}
  /\ \A c \in Conversations :
        conversations[c].expert # NoUser
          => \/ RowsOf(c, conversations[c].expert) # {}
             \/ ClaimPending(c, conversations[c].expert)

\* Closing a row leaves it where it is.
LEMMA ResolveKeepsRows ==
  ASSUME TypeInv, NEW t \in Threads, ResolveAssignment(t)
  PROVE  \A c, e : RowsOf(c, e)' = RowsOf(c, e)
<1>1. assignments \in Seq(AssignmentRecord)
  BY DEF TypeInv, TypeOK
<1>2. CASE UNCHANGED assignments
  BY <1>2 DEF RowsOf
<1>3. ASSUME NEW i \in DOMAIN assignments,
             assignments' = [assignments EXCEPT ![i].status = "resolved"]
      PROVE  \A c, e : RowsOf(c, e)' = RowsOf(c, e)
  <2>1. /\ DOMAIN assignments' = DOMAIN assignments
        /\ \A j \in DOMAIN assignments :
             /\ assignments'[j].conversation = assignments[j].conversation
             /\ assignments'[j].expert = assignments[j].expert
    BY <1>1, <1>3 DEF AssignmentRecord
  <2> QED
    BY <2>1 DEF RowsOf
<1> QED
  BY <1>2, <1>3 DEF ResolveAssignment, RowsOf

\* A claim's update! makes the claimant the holder and leaves the other
\* conversations alone.
LEMMA ClaimSetsExpert ==
  ASSUME TypeInv, LoadedInv, NEW t \in Threads, ClaimConversation(t)
  PROVE  \A c \in Conversations : conversations'[c].expert =
            IF c = requests[t].conversation THEN requests[t].expert
                                            ELSE conversations[c].expert
<1>1. /\ requests[t] \in BusyRequest /\ requests[t].expert \in Users
      /\ requests[t].step = "claim conversation"
  BY AtType DEF ClaimConversation, BusySteps, At
<1>2. /\ requests[t].conversation \in Conversations
      /\ requests[t].loaded.expert = NoUser
  BY <1>1, BusyFields DEF LoadedInv
<1> QED
  BY <1>1, <1>2, NoUserAssumption DEF ClaimConversation, WriteConversation,
     DirtyWrite, TypeInv, TypeOK, Row

\* An unclaim leaves every conversation with the expert it had or with none.
LEMMA UnclaimReleases ==
  ASSUME TypeInv, NEW t \in Threads, UnclaimConversation(t)
  PROVE  \A c \in Conversations :
            conversations'[c].expert \in {conversations[c].expert, NoUser}
  BY DEF UnclaimConversation, WriteConversation, DirtyWrite, TypeInv, TypeOK, Row

\* Before the first request nobody holds a conversation.
LEMMA PendingInit == Init => PendingInv
<1>1. Absent.expert = NoUser
  BY DEF Absent
<1> QED
  BY <1>1, IdleStep DEF Init, PendingInv

\* A claimant that is not killed inserts its row as it leaves "record claim".
LEMMA PendingStep ==
  ASSUME ~Failures
  PROVE  TypeInv /\ LoadedInv /\ PendingInv /\ [Next]_vars => PendingInv'
<1> SUFFICES ASSUME TypeInv, LoadedInv, PendingInv, [Next]_vars PROVE PendingInv'
  OBVIOUS
<1>t. requests \in [Threads -> Request] /\ conversations \in [Conversations -> Row]
  BY DEF TypeInv, TypeOK
<1>a. UNCHANGED assignments => \A c, e : RowsOf(c, e)' = RowsOf(c, e)
  BY DEF RowsOf
\* A thread that is not at "record claim" moves: other claimants stay pending.
<1>p. ASSUME NEW t \in Threads, requests' = [requests EXCEPT ![t] = requests'[t]],
             requests[t].step # "record claim"
      PROVE  \A c, e : ClaimPending(c, e) => ClaimPending(c, e)'
  BY <1>p, <1>t DEF ClaimPending, At
\* No row is inserted and no thread is new at "assign conversation": what is
\* left to show is that the experts are recorded or pending.
<1>n. ASSUME NEW t \in Threads, requests' = [requests EXCEPT ![t] = requests'[t]],
             requests'[t].step # "assign conversation",
             \A c, e : RowsOf(c, e)' = RowsOf(c, e),
             \A c \in Conversations : \A x : (x = conversations'[c].expert /\ x # NoUser)
                => RowsOf(c, x) # {} \/ ClaimPending(c, x)'
      PROVE  PendingInv'
  <2>1. \A x \in Threads : requests'[x].step = "assign conversation"
           => requests'[x] = requests[x]
    BY <1>n, <1>t
  <2>2. \A x \in Threads : requests'[x].step = "assign conversation"
           => RowsOf(requests[x].conversation, requests[x].expert) # {}
    BY <2>1 DEF PendingInv
  <2>3. ASSUME NEW x \in Threads, requests'[x].step = "assign conversation",
               NEW c, NEW e, c = requests'[x].conversation, e = requests'[x].expert
        PROVE  RowsOf(c, e)' # {}
    BY <1>n, <2>1, <2>2, <2>3
  <2>4. ASSUME NEW c \in Conversations, NEW x, x = conversations'[c].expert, x # NoUser
        PROVE  RowsOf(c, x)' # {} \/ ClaimPending(c, x)'
    BY <1>n, <2>4
  <2> QED
    BY <2>3, <2>4 DEF PendingInv
\* Rows and claims stay, no expert is new, and no thread is new at
\* "assign conversation".
<1>q. ASSUME NEW t \in Threads, requests' = [requests EXCEPT ![t] = requests'[t]],
             requests[t].step # "record claim",
             requests'[t].step # "assign conversation",
             \A c, e : RowsOf(c, e)' = RowsOf(c, e),
             \A c \in Conversations :
                conversations'[c].expert \in {conversations[c].expert, NoUser}
      PROVE  PendingInv'
  <2>1. \A c \in Conversations :
           conversations'[c].expert # NoUser
             => \/ RowsOf(c, conversations'[c].expert) # {}
                \/ ClaimPending(c, conversations'[c].expert)
    BY <1>q DEF PendingInv
  <2>2. ASSUME NEW c \in Conversations, NEW x, x = conversations'[c].expert, x # NoUser
        PROVE  RowsOf(c, x) # {} \/ ClaimPending(c, x)'
    BY <1>q, <1>p, <2>1, <2>2
  <2> QED
    BY <1>q, <1>n, <2>2
<1>b. ASSUME UNCHANGED <<conversations, assignments>>, NEW t \in Threads,
             requests[t].step # "record claim", NEW step, NEW c, NEW row, NEW e,
             Begin(t, step, c, row, e), step # "assign conversation"
      PROVE  PendingInv'
  <2>1. requests'[t].step = step /\ requests' = [requests EXCEPT ![t] = requests'[t]]
    BY <1>b, <1>t DEF Begin
  <2>2. \A d \in Conversations :
           conversations'[d].expert \in {conversations[d].expert, NoUser}
    BY <1>b
  <2> QED
    BY <1>a, <1>b, <1>q, <2>1, <2>2
<1>f. ASSUME UNCHANGED <<conversations, assignments>>, NEW t \in Threads,
             requests[t].step # "record claim", Finish(t)
      PROVE  PendingInv'
  <2>1. /\ requests'[t].step = "idle"
        /\ requests' = [requests EXCEPT ![t] = requests'[t]]
    BY <1>f, <1>t, IdleStep DEF Finish
  <2>2. \A d \in Conversations :
           conversations'[d].expert \in {conversations[d].expert, NoUser}
    BY <1>f
  <2> QED
    BY <1>a, <1>f, <1>q, <2>1, <2>2
\* A row is inserted for the request of a thread that leaves "record
\* assignment" or "record claim".
<1>i. ASSUME NEW t \in Threads, requests' = [requests EXCEPT ![t] = requests'[t]],
             NEW status \in OpenStatuses, CreateAssignment(t, status),
             UNCHANGED conversations,
             requests'[t].step = "assign conversation" =>
                /\ requests'[t].conversation = requests[t].conversation
                /\ requests'[t].expert = requests[t].expert
      PROVE  PendingInv'
  <2>1. \A c, e : RowsOf(c, e)' # {} <=>
           \/ RowsOf(c, e) # {}
           \/ c = requests[t].conversation /\ e = requests[t].expert
    BY <1>i, InsertKeepsRows
  <2>2. \A c, e : ClaimPending(c, e) =>
           \/ ClaimPending(c, e)'
           \/ c = requests[t].conversation /\ e = requests[t].expert
    BY <1>i, <1>t DEF ClaimPending, At
  <2>3. ASSUME NEW c \in Conversations, NEW x, x = conversations'[c].expert, x # NoUser
        PROVE  RowsOf(c, x)' # {} \/ ClaimPending(c, x)'
    <3>1. RowsOf(c, x) # {} \/ ClaimPending(c, x)
      BY <1>i, <2>3 DEF PendingInv
    <3> QED
      BY <2>1, <2>2, <3>1
  <2>4. ASSUME NEW x \in Threads, requests'[x].step = "assign conversation",
               NEW c, NEW e, c = requests'[x].conversation, e = requests'[x].expert
        PROVE  RowsOf(c, e)' # {}
    <3>1. CASE x = t
      BY <1>i, <2>1, <2>4, <3>1
    <3>2. CASE x # t
      <4>1. requests'[x] = requests[x]
        BY <1>i, <1>t, <3>2
      <4>2. RowsOf(c, e) # {}
        BY <2>4, <4>1 DEF PendingInv
      <4> QED
        BY <2>1, <4>2
    <3> QED
      BY <3>1, <3>2
  <2> QED
    BY <2>3, <2>4 DEF PendingInv
<1>1. CASE UNCHANGED vars
  <2>1. \A c, e : (ClaimPending(c, e) <=> ClaimPending(c, e)')
                    /\ RowsOf(c, e)' = RowsOf(c, e)
    BY <1>1, <1>a DEF vars, ClaimPending, At
  <2> QED
    BY <1>1, <2>1 DEF vars, PendingInv
<1>2. ASSUME NEW t \in Threads, LoadForJob(t) PROVE PendingInv'
  BY <1>2, <1>b, <1>f DEF LoadForJob, At
<1>3. ASSUME NEW t \in Threads, RecordAssignment(t) PROVE PendingInv'
  <2>1. requests[t] \in BusyRequest
    BY <1>3, AtType DEF RecordAssignment, BusySteps
  <2>2. /\ requests'[t].conversation = requests[t].conversation
        /\ requests'[t].expert = requests[t].expert
        /\ requests' = [requests EXCEPT ![t] = requests'[t]]
    BY <1>3, <1>t, <2>1 DEF RecordAssignment, Proceed, BusyRequest
  <2> QED
    BY <1>3, <1>i, <2>2 DEF RecordAssignment, OpenStatuses
<1>4. ASSUME NEW t \in Threads, AssignConversation(t) PROVE PendingInv'
  <2>1. /\ requests[t].step = "assign conversation"
        /\ UNCHANGED assignments
        /\ requests'[t].step = "idle"
        /\ requests' = [requests EXCEPT ![t] = requests'[t]]
    BY <1>4, <1>t, IdleStep DEF AssignConversation, At, Finish
  <2>2. \A c \in Conversations : conversations'[c].expert # NoUser =>
           \/ RowsOf(c, conversations'[c].expert) # {}
           \/ ClaimPending(c, conversations'[c].expert)
    BY <1>4, <2>1, AssignSetsExpert DEF PendingInv
  <2>3. \A c, e : ClaimPending(c, e) => ClaimPending(c, e)'
    BY <1>p, <2>1
  <2>4. \A c \in Conversations : \A x : (x = conversations'[c].expert /\ x # NoUser)
           => RowsOf(c, x) # {} \/ ClaimPending(c, x)'
    BY <2>2, <2>3
  <2> QED
    BY <1>a, <1>n, <2>1, <2>4
<1>5. ASSUME NEW t \in Threads, ClaimConversation(t) PROVE PendingInv'
  <2>1. requests[t] \in BusyRequest
    BY <1>5, AtType DEF ClaimConversation, BusySteps
  <2>2. /\ requests[t].step = "claim conversation"
        /\ UNCHANGED assignments
        /\ requests'[t].step = "record claim"
        /\ requests'[t].conversation = requests[t].conversation
        /\ requests'[t].expert = requests[t].expert
        /\ requests' = [requests EXCEPT ![t] = requests'[t]]
    BY <1>5, <1>t, <2>1 DEF ClaimConversation, Proceed, At, BusyRequest
  <2>3. \A c, e : ClaimPending(c, e) => ClaimPending(c, e)'
    BY <1>p, <2>2
  <2>4. \A c, e : c = requests[t].conversation /\ e = requests[t].expert
           => ClaimPending(c, e)'
    BY <2>2 DEF ClaimPending, At
  <2>5. \A c \in Conversations : conversations'[c].expert # NoUser =>
           \/ RowsOf(c, conversations'[c].expert) # {}
           \/ ClaimPending(c, conversations'[c].expert)
           \/ c = requests[t].conversation /\ conversations'[c].expert = requests[t].expert
    BY <1>5, ClaimSetsExpert DEF PendingInv
  <2>6. \A c \in Conversations : \A x : (x = conversations'[c].expert /\ x # NoUser)
           => RowsOf(c, x) # {} \/ ClaimPending(c, x)'
    BY <2>3, <2>4, <2>5
  <2> QED
    BY <1>a, <1>n, <2>2, <2>6
<1>6. ASSUME NEW t \in Threads, RecordClaim(t) PROVE PendingInv'
  <2>1. requests'[t].step = "idle" /\ requests' = [requests EXCEPT ![t] = requests'[t]]
    BY <1>6, <1>t, IdleStep DEF RecordClaim, Finish
  <2> QED
    BY <1>6, <1>i, <2>1 DEF RecordClaim, OpenStatuses
<1>7. ASSUME NEW t \in Threads, UnclaimConversation(t) PROVE PendingInv'
  <2>1. requests[t] \in BusyRequest
    BY <1>7, AtType DEF UnclaimConversation, BusySteps
  <2>2. /\ requests[t].step = "unclaim conversation"
        /\ UNCHANGED assignments
        /\ requests'[t].step = "resolve assignment"
        /\ requests' = [requests EXCEPT ![t] = requests'[t]]
    BY <1>7, <1>t, <2>1 DEF UnclaimConversation, Proceed, At, BusyRequest
  <2> QED
    BY <1>7, <1>a, <1>q, <2>2, UnclaimReleases
<1>8. ASSUME NEW t \in Threads, ResolveAssignment(t) PROVE PendingInv'
  <2>1. /\ requests[t].step = "resolve assignment"
        /\ requests'[t].step = "idle"
        /\ UNCHANGED conversations
        /\ requests' = [requests EXCEPT ![t] = requests'[t]]
    BY <1>8, <1>t, IdleStep DEF ResolveAssignment, At, Finish
  <2> QED
    BY <1>8, <1>q, <2>1, ResolveKeepsRows
<1>9. ASSUME NEW t \in Threads, ActivateConversation(t) PROVE PendingInv'
  <2>1. /\ requests[t].step = "activate conversation"
        /\ requests'[t].step = "idle"
        /\ UNCHANGED assignments
        /\ requests' = [requests EXCEPT ![t] = requests'[t]]
    BY <1>9, <1>t, IdleStep DEF ActivateConversation, At, Finish
  <2> QED
    BY <1>9, <1>a, <1>q, <2>1, ActivateKeepsExperts
<1>10. ASSUME NEW t \in Threads, NEW e \in Users, LlmPicks(t, e) PROVE PendingInv'
  <2>1. requests[t] \in BusyRequest /\ requests[t].step = "call llm"
    BY <1>10, AtType DEF LlmPicks, BusySteps, At
  <2>2. /\ requests'[t].step = "record assignment"
        /\ requests' = [requests EXCEPT ![t] = requests'[t]]
        /\ UNCHANGED <<conversations, assignments>>
    BY <1>10, <1>t, <2>1 DEF LlmPicks, BusyRequest
  <2> QED
    BY <1>a, <1>q, <2>1, <2>2
<1>11. ASSUME NEW t \in Threads, LlmPicksNobody(t) \/ LlmUnavailable(t) PROVE PendingInv'
  BY <1>11, <1>f DEF LlmPicksNobody, LlmUnavailable, At
<1>12. ASSUME NEW t \in Threads, NEW u \in Users, NEW c \in Conversations,
              NEW s \in InitialStatuses, CreateConversation(t, u, c, s)
       PROVE  PendingInv'
  <2> DEFINE row == [initiator |-> u, expert |-> NoUser, status |-> s]
  <2>1. /\ conversations' = [conversations EXCEPT ![c] = row]
        /\ Begin(t, "load for job", c, row, NoUser)
        /\ UNCHANGED assignments
        /\ requests[t] = Idle
    BY <1>12 DEF CreateConversation, IsIdle
  <2>2. row.expert = NoUser
    OBVIOUS
  <2> HIDE DEF row
  <2>3. \A d \in Conversations :
           conversations'[d].expert \in {conversations[d].expert, NoUser}
    BY <1>t, <2>1, <2>2
  <2>4. /\ requests'[t].step = "load for job"
        /\ requests' = [requests EXCEPT ![t] = requests'[t]]
    BY <1>t, <2>1 DEF Begin
  <2> QED
    BY <1>a, <1>q, <2>1, <2>3, <2>4, IdleStep
<1>13. ASSUME NEW t \in Threads, NEW u \in Users, NEW c \in Conversations,
              RequestAutoAssign(t, u, c) \/ LoadForClaim(t, u, c)
                \/ LoadForUnclaim(t, u, c) \/ LoadForMessage(t, u, c)
       PROVE  PendingInv'
  <2>1. /\ requests[t].step # "record claim"
        /\ UNCHANGED <<conversations, assignments>>
    BY <1>13, IdleStep DEF RequestAutoAssign, LoadForClaim, LoadForUnclaim,
       LoadForMessage, IsIdle
  <2>2. \E e : \E step \in BusySteps \ {"assign conversation"} :
           Begin(t, step, c, conversations[c], e)
    BY <1>13 DEF RequestAutoAssign, LoadForClaim, LoadForUnclaim,
       LoadForMessage, BusySteps
  <2> QED
    BY <1>b, <2>1, <2>2
<1>14. ASSUME NEW t \in Threads, Abort(t) PROVE FALSE
  BY <1>14 DEF Abort
<1> QED
  BY <1>1, <1>2, <1>3, <1>4, <1>5, <1>6, <1>7, <1>8, <1>9, <1>10, <1>11, <1>12,
     <1>13, <1>14 DEF Next, Step, LlmAnswers, Admit, ServeWithoutEffect

\* When no thread dies between two statements, whoever holds a conversation is
\* in its history or is a claimant whose own request is about to insert the row,
\* for every routing and any race of claims, unclaims and jobs.  (A claimant
\* killed in between is the one way to hold a conversation without a row.)
THEOREM HolderIsRecordedOrPendingAlways ==
  ASSUME ~Failures
  PROVE  Spec => []HolderIsRecordedOrPending
<1>1. Init => TypeInv /\ LoadedInv /\ PendingInv
  BY TypeInit, LoadedInit, PendingInit
<1>2. TypeInv /\ LoadedInv /\ PendingInv /\ [Next]_vars
        => (TypeInv /\ LoadedInv /\ PendingInv)'
  BY TypeStep, LoadedStep, PendingStep
<1>3. PendingInv => HolderIsRecordedOrPending
  BY DEF PendingInv, ClaimPending, HolderIsRecordedOrPending
<1> QED
  BY <1>1, <1>2, <1>3, PTL DEF Spec

-----------------------------------------------------------------------------
(* One request at a time.                                                  *)

\* Puma with a single worker and a single thread.
OneThread == \A s, t \in Threads : s = t

\* What thread t has read of its conversation's expert is still so.
ThreadCurrent(t) ==
  LET r == requests[t] IN
  /\ r.step \in {"load for job", "call llm", "record assignment",
                 "assign conversation", "claim conversation", "resolve assignment"}
       => conversations[r.conversation].expert = NoUser
  /\ r.step \in {"record claim", "unclaim conversation"}
       => conversations[r.conversation].expert = r.expert
  /\ r.step = "unclaim conversation" => r.loaded.expert = r.expert

CurrentInv ==
  /\ \A c \in Conversations : ~Exists(c) => conversations[c].expert = NoUser
  /\ \A t \in Threads : ThreadCurrent(t)

\* An unclaim's update! clears the column that its copy has filled.
LEMMA UnclaimClears ==
  ASSUME TypeInv, CurrentInv, NEW t \in Threads, UnclaimConversation(t)
  PROVE  \A c \in Conversations : conversations'[c].expert =
            IF c = requests[t].conversation THEN NoUser ELSE conversations[c].expert
<1>1. /\ requests[t] \in BusyRequest /\ requests[t].expert \in Users
      /\ requests[t].step = "unclaim conversation"
  BY AtType DEF UnclaimConversation, BusySteps, At
<1>2. requests[t].conversation \in Conversations /\ requests[t].loaded.expert # NoUser
  BY <1>1, BusyFields, NoUserAssumption DEF CurrentInv, ThreadCurrent
<1> QED
  BY <1>1, <1>2 DEF UnclaimConversation, WriteConversation, DirtyWrite, TypeInv, TypeOK, Row

\* Creating a conversation gives nobody's conversation to anybody.
LEMMA CreateKeepsExperts ==
  ASSUME TypeInv, CurrentInv, NEW t \in Threads, NEW u \in Users,
         NEW c \in Conversations, NEW s \in InitialStatuses, CreateConversation(t, u, c, s)
  PROVE  \A d \in Conversations : conversations'[d].expert = conversations[d].expert
<1>1. conversations[c].expert = NoUser
  BY DEF CurrentInv, CreateConversation
<1> QED
  BY <1>1 DEF CreateConversation, TypeInv, TypeOK

LEMMA CurrentInit == Init => CurrentInv
<1>1. Absent.expert = NoUser
  BY DEF Absent
<1> QED
  BY <1>1, IdleStep DEF Init, CurrentInv, ThreadCurrent

LEMMA CurrentStep ==
  ASSUME OneThread
  PROVE  TypeInv /\ LoadedInv /\ CurrentInv /\ [Next]_vars => CurrentInv'
<1> SUFFICES ASSUME TypeInv, LoadedInv, CurrentInv, [Next]_vars PROVE CurrentInv'
  OBVIOUS
<1>t. requests \in [Threads -> Request] /\ conversations \in [Conversations -> Row]
  BY DEF TypeInv, TypeOK
<1>r. \A c \in Conversations : Exists(c) => Exists(c)'
  BY RowsStay
<1>e. \A t \in Threads : requests[t].step # "idle"
        => /\ requests[t].conversation \in Conversations
           /\ Exists(requests[t].conversation)
  BY <1>t, BusyIsRequest, BusyFields DEF LoadedInv, Exists
\* The only thread's step gives no expert to a conversation that is not there.
<1>c. ASSUME NEW t \in Threads, ThreadCurrent(t)',
             \A c \in Conversations : ~Exists(c) =>
                conversations'[c].expert \in {conversations[c].expert, NoUser}
      PROVE  CurrentInv'
  <2>1. \A c \in Conversations : ~Exists(c)' => conversations'[c].expert = NoUser
    BY <1>c, <1>r DEF CurrentInv
  <2>2. \A x \in Threads : x = t
    BY DEF OneThread
  <2>3. \A x \in Threads : ThreadCurrent(x)'
    BY <1>c, <2>2
  <2> QED
    BY <2>1, <2>3 DEF CurrentInv
<1>f. ASSUME NEW t \in Threads, Finish(t), \A c \in Conversations : ~Exists(c) =>
                conversations'[c].expert \in {conversations[c].expert, NoUser}
      PROVE  CurrentInv'
  <2>1. requests'[t].step = "idle"
    BY <1>f, <1>t, IdleStep DEF Finish
  <2>2. ThreadCurrent(t)'
    BY <2>1 DEF ThreadCurrent
  <2> QED
    BY <1>c, <1>f, <2>2
<1>p. ASSUME NEW t \in Threads, NEW step \in BusySteps, Proceed(t, step),
             requests[t] \in BusyRequest
      PROVE  /\ requests'[t].step = step
             /\ requests'[t].conversation = requests[t].conversation
             /\ requests'[t].loaded = requests[t].loaded
             /\ requests'[t].expert = requests[t].expert
  BY <1>p, <1>t DEF Proceed, BusyRequest
<1>b. BusySteps = {"load for job", "call llm", "record assignment",
              "assign conversation", "claim conversation", "record claim",
              "unclaim conversation", "resolve assignment",
              "activate conversation"}
  BY DEF BusySteps
<1>1. CASE UNCHANGED vars
  BY <1>1 DEF vars, CurrentInv, ThreadCurrent, Exists
<1>2. ASSUME NEW t \in Threads, LoadForJob(t) PROVE CurrentInv'
  <2>1. CASE Finish(t)
    BY <1>2, <1>f, <2>1 DEF LoadForJob
  <2>2. CASE ~ Finish(t)
    <3> DEFINE c == requests[t].conversation
    <3>1. /\ conversations[c].expert = NoUser
          /\ Begin(t, "call llm", c, conversations[c], NoUser)
          /\ UNCHANGED conversations
      BY <1>2, <2>2 DEF LoadForJob
    <3>2. requests'[t].step = "call llm" /\ requests'[t].conversation = c
      BY <1>t, <3>1 DEF Begin
    <3>3. ThreadCurrent(t)'
      BY <3>1, <3>2 DEF ThreadCurrent
    <3> QED
      BY <1>c, <3>1, <3>3
  <2> QED
    BY <2>1, <2>2
<1>3. ASSUME NEW t \in Threads, RecordAssignment(t) PROVE CurrentInv'
  <2>1. requests[t] \in BusyRequest /\ requests[t].step = "record assignment"
    BY <1>3, AtType DEF RecordAssignment, BusySteps, At
  <2>2. /\ requests'[t].step = "assign conversation"
        /\ requests'[t].conversation = requests[t].conversation
        /\ UNCHANGED conversations
    BY <1>3, <1>b, <1>p, <2>1 DEF RecordAssignment
  <2>3. ThreadCurrent(t)'
    BY <2>1, <2>2 DEF CurrentInv, ThreadCurrent
  <2> QED
    BY <1>c, <2>2, <2>3
<1>4. ASSUME NEW t \in Threads, AssignConversation(t) PROVE CurrentInv'
  <2>1. \A c \in Conversations : ~Exists(c) => conversations'[c].expert = conversations[c].expert
    BY <1>4, AssignSetsExpert
  <2> QED
    BY <1>4, <1>f, <2>1 DEF AssignConversation
<1>5. ASSUME NEW t \in Threads, ClaimConversation(t) PROVE CurrentInv'
  <2>1. requests[t] \in BusyRequest /\ requests[t].step = "claim conversation"
    BY <1>5, AtType DEF ClaimConversation, BusySteps, At
  <2>2. /\ requests'[t].step = "record claim"
        /\ requests'[t].conversation = requests[t].conversation
        /\ requests'[t].expert = requests[t].expert
    BY <1>5, <1>b, <1>p, <2>1 DEF ClaimConversation
  <2>3. \A c \in Conversations : conversations'[c].expert =
           IF c = requests[t].conversation THEN requests[t].expert
                                           ELSE conversations[c].expert
    BY <1>5, ClaimSetsExpert
  <2>4. requests[t].conversation \in Conversations /\ Exists(requests[t].conversation)
    BY <1>e, <2>1
  <2>5. ThreadCurrent(t)'
    BY <2>2, <2>3, <2>4 DEF ThreadCurrent
  <2> QED
    BY <1>c, <2>3, <2>4, <2>5
<1>6. ASSUME NEW t \in Threads, RecordClaim(t) PROVE CurrentInv'
  BY <1>6, <1>f DEF RecordClaim
<1>7. ASSUME NEW t \in Threads, UnclaimConversation(t) PROVE CurrentInv'
  <2>1. requests[t] \in BusyRequest /\ requests[t].step = "unclaim conversation"
    BY <1>7, AtType DEF UnclaimConversation, BusySteps, At
  <2>2. /\ requests'[t].step = "resolve assignment"
        /\ requests'[t].conversation = requests[t].conversation
    BY <1>7, <1>b, <1>p, <2>1 DEF UnclaimConversation
  <2>3. \A c \in Conversations : conversations'[c].expert =
           IF c = requests[t].conversation THEN NoUser ELSE conversations[c].expert
    BY <1>7, UnclaimClears
  <2>4. requests[t].conversation \in Conversations
    BY <1>e, <2>1
  <2>5. ThreadCurrent(t)'
    BY <2>2, <2>3, <2>4 DEF ThreadCurrent
  <2> QED
    BY <1>c, <2>3, <2>5
<1>8. ASSUME NEW t \in Threads, ResolveAssignment(t) PROVE CurrentInv'
  BY <1>8, <1>f DEF ResolveAssignment
<1>9. ASSUME NEW t \in Threads, ActivateConversation(t) PROVE CurrentInv'
  BY <1>9, <1>f, ActivateKeepsExperts DEF ActivateConversation
<1>10. ASSUME NEW t \in Threads, NEW e \in Users, LlmPicks(t, e) PROVE CurrentInv'
  <2>1. requests[t] \in BusyRequest /\ requests[t].step = "call llm"
    BY <1>10, AtType DEF LlmPicks, BusySteps, At
  <2>2. /\ requests'[t].step = "record assignment"
        /\ requests'[t].conversation = requests[t].conversation
        /\ UNCHANGED conversations
    BY <1>10, <1>t, <2>1 DEF LlmPicks, BusyRequest
  <2>3. ThreadCurrent(t)'
    BY <2>1, <2>2 DEF CurrentInv, ThreadCurrent
  <2> QED
    BY <1>c, <2>2, <2>3
<1>11. ASSUME NEW t \in Threads, LlmPicksNobody(t) \/ LlmUnavailable(t) \/ Abort(t)
       PROVE  CurrentInv'
  BY <1>11, <1>f DEF LlmPicksNobody, LlmUnavailable, Abort
<1>12. ASSUME NEW t \in Threads, NEW u \in Users, NEW c \in Conversations,
              NEW s \in InitialStatuses, CreateConversation(t, u, c, s)
       PROVE  CurrentInv'
  <2>1. /\ requests'[t].step = "load for job"
        /\ requests'[t].conversation = c
        /\ conversations'[c].expert = NoUser
    BY <1>12, <1>t DEF CreateConversation, Begin
  <2>2. \A d \in Conversations : conversations'[d].expert = conversations[d].expert
    BY <1>12, CreateKeepsExperts
  <2>3. ThreadCurrent(t)'
    BY <2>1 DEF ThreadCurrent
  <2> QED
    BY <1>c, <2>2, <2>3
<1>13. ASSUME NEW t \in Threads, NEW u \in Users, NEW c \in Conversations,
              RequestAutoAssign(t, u, c) \/ LoadForClaim(t, u, c)
                \/ LoadForUnclaim(t, u, c) \/ LoadForMessage(t, u, c)
       PROVE  CurrentInv'
  <2>1. UNCHANGED conversations
    BY <1>13 DEF RequestAutoAssign, LoadForClaim, LoadForUnclaim, LoadForMessage
  <2>2. PICK step, e :
           /\ Begin(t, step, c, conversations[c], e)
           /\ \/ step \in {"call llm", "claim conversation"} /\ conversations[c].expert = NoUser
              \/ step = "unclaim conversation" /\ conversations[c].expert = e
              \/ step = "activate conversation"
    BY <1>13 DEF RequestAutoAssign, LoadForClaim, LoadForUnclaim, LoadForMessage
  <2>3. /\ requests'[t].step = step /\ requests'[t].conversation = c
        /\ requests'[t].loaded = conversations[c] /\ requests'[t].expert = e
    BY <1>t, <2>2 DEF Begin
  <2>4. ThreadCurrent(t)'
    BY <2>1, <2>2, <2>3 DEF ThreadCurrent
  <2> QED
    BY <1>c, <2>1, <2>4
<1> QED
  BY <1>1, <1>2, <1>3, <1>4, <1>5, <1>6, <1>7, <1>8, <1>9, <1>10, <1>11, <1>12,
     <1>13 DEF Next, Step, LlmAnswers, Admit, ServeWithoutEffect

\* When requests are served one after the other no conversation passes from one
\* expert to another, for every routing, LLM and crash: that a takeover happens
\* (the run assignment_takeover) is due to the race of two threads alone.
THEOREM NoTakeoverByOneThread ==
  ASSUME OneThread
  PROVE  Spec => NoTakeover
<1> DEFINE I == TypeInv /\ LoadedInv /\ CurrentInv
           A == \A c \in Conversations :
                   conversations[c].expert # NoUser =>
                      conversations'[c].expert \in {conversations[c].expert, NoUser}
<1>1. Init => I
  BY TypeInit, LoadedInit, CurrentInit
<1>2. I /\ [Next]_vars => I'
  BY TypeStep, LoadedStep, CurrentStep
<1>3. I /\ [Next]_vars => [A]_vars
  <2> SUFFICES ASSUME TypeInv, LoadedInv, CurrentInv, [Next]_vars PROVE A
    OBVIOUS
  <2>1. CASE UNCHANGED conversations
    BY <2>1
  <2>2. ASSUME NEW t \in Threads, AssignConversation(t) PROVE A
    <3>1. conversations[requests[t].conversation].expert = NoUser
      BY <2>2 DEF AssignConversation, At, CurrentInv, ThreadCurrent
    <3> QED
      BY <2>2, <3>1, AssignSetsExpert
  <2>3. ASSUME NEW t \in Threads, ClaimConversation(t) PROVE A
    <3>1. conversations[requests[t].conversation].expert = NoUser
      BY <2>3 DEF ClaimConversation, At, CurrentInv, ThreadCurrent
    <3> QED
      BY <2>3, <3>1, ClaimSetsExpert
  <2>4. ASSUME NEW t \in Threads, UnclaimConversation(t) PROVE A
    BY <2>4, UnclaimReleases
  <2>5. ASSUME NEW t \in Threads, ActivateConversation(t) PROVE A
    BY <2>5, ActivateKeepsExperts
  <2>6. ASSUME NEW t \in Threads, NEW u \in Users, NEW c \in Conversations,
               NEW s \in InitialStatuses, CreateConversation(t, u, c, s)
        PROVE  A
    BY <2>6, CreateKeepsExperts
  <2> QED
    <3> HIDE DEF A
    <3> QED
      BY <2>1, <2>2, <2>3, <2>4, <2>5, <2>6, ConversationWriters DEF WritesConversations
<1>4. [A]_vars => [\A c \in Conversations :
                      conversations[c].expert # NoUser =>
                         conversations'[c].expert \in {conversations[c].expert, NoUser}]_vars
  OBVIOUS
<1> QED
  <2> HIDE DEF I, A
  <2> QED
    BY <1>1, <1>2, <1>3, <1>4, PTL DEF Spec, NoTakeover

\* The open rows of conversation c for expert e.
OpenRows(c, e) == {i \in RowsOf(c, e) : assignments[i].status \in OpenStatuses}

\* A thread is about to make e the holder of c, or has just released c of e.
Changing(c, e) ==
  \E t \in Threads : /\ requests[t].step \in {"assign conversation", "resolve assignment"}
                     /\ requests[t].conversation = c
                     /\ requests[t].expert = e

Claiming(c) ==
  \E t \in Threads : requests[t].step = "record claim" /\ requests[t].conversation = c

\* Why a row may be open: its expert holds the conversation, or a thread is
\* between the history and the conversation.
Justified(c, e) ==
  \/ conversations[c].expert = e /\ ~Claiming(c)
  \/ Changing(c, e)

\* An open row is justified, and it is the latest of its conversation and expert,
\* the one that unclaim resolves.
OpenInv ==
  \A c \in Conversations, e \in Users : \A i \in OpenRows(c, e) :
     /\ Justified(c, e)
     /\ \A j \in RowsOf(c, e) : j <= i

\* Inserting a row, row by row.
LEMMA InsertAddsRow ==
  ASSUME TypeInv, NEW t \in Threads, NEW status \in OpenStatuses,
         CreateAssignment(t, status)
  PROVE  /\ \A c, e : c = requests[t].conversation /\ e = requests[t].expert
              => \E n : /\ OpenRows(c, e)' = OpenRows(c, e) \cup {n}
                        /\ \A j \in RowsOf(c, e)' : j <= n
         /\ \A c, e : ~ (c = requests[t].conversation /\ e = requests[t].expert)
              => RowsOf(c, e)' = RowsOf(c, e) /\ OpenRows(c, e)' = OpenRows(c, e)
<1> DEFINE new == [conversation |-> requests[t].conversation,
                   expert |-> requests[t].expert, status |-> status]
           n == Len(assignments) + 1
<1>1. assignments \in Seq(AssignmentRecord) /\ assignments' = Append(assignments, new)
  BY DEF TypeInv, TypeOK, CreateAssignment
<1>2. /\ DOMAIN assignments' = DOMAIN assignments \cup {n}
      /\ n \notin DOMAIN assignments
      /\ \A i \in DOMAIN assignments : assignments'[i] = assignments[i] /\ i <= n
      /\ assignments'[n] = new
      /\ n <= n
  BY <1>1
<1>3. new.conversation = requests[t].conversation /\ new.expert = requests[t].expert
        /\ new.status \in OpenStatuses
  OBVIOUS
<1> HIDE DEF new, n
<1>4. \A c, e : RowsOf(c, e)' = RowsOf(c, e) \cup
         IF c = requests[t].conversation /\ e = requests[t].expert THEN {n} ELSE {}
  BY <1>2, <1>3 DEF RowsOf
<1>5. \A c, e : OpenRows(c, e)' = OpenRows(c, e) \cup
         IF c = requests[t].conversation /\ e = requests[t].expert THEN {n} ELSE {}
  BY <1>2, <1>3, <1>4 DEF OpenRows, RowsOf
<1>6. \A c, e : \A j \in RowsOf(c, e)' : j <= n
  BY <1>2 DEF RowsOf
<1>7. ASSUME NEW c, NEW e, c = requests[t].conversation /\ e = requests[t].expert
      PROVE  \E m : /\ OpenRows(c, e)' = OpenRows(c, e) \cup {m}
                    /\ \A j \in RowsOf(c, e)' : j <= m
  BY <1>5, <1>6, <1>7
<1>8. ASSUME NEW c, NEW e, ~ (c = requests[t].conversation /\ e = requests[t].expert)
      PROVE  RowsOf(c, e)' = RowsOf(c, e) /\ OpenRows(c, e)' = OpenRows(c, e)
  BY <1>4, <1>5, <1>8
<1> QED
  BY <1>7, <1>8

\* Resolving a row closes that row and no other.
LEMMA ResolveClosesRow ==
  ASSUME TypeInv, NEW k \in DOMAIN assignments,
         assignments' = [assignments EXCEPT ![k].status = "resolved"]
  PROVE  \A c, e : RowsOf(c, e)' = RowsOf(c, e) /\ OpenRows(c, e)' = OpenRows(c, e) \ {k}
<1>1. assignments \in Seq(AssignmentRecord) /\ "resolved" \notin OpenStatuses
  BY DEF TypeInv, TypeOK, OpenStatuses
<1>2. /\ DOMAIN assignments' = DOMAIN assignments
      /\ \A j \in DOMAIN assignments :
           /\ assignments'[j].conversation = assignments[j].conversation
           /\ assignments'[j].expert = assignments[j].expert
           /\ j # k => assignments'[j].status = assignments[j].status
      /\ assignments'[k].status = "resolved"
  <2>1. /\ DOMAIN assignments' = DOMAIN assignments
        /\ \A j \in DOMAIN assignments : j # k => assignments'[j] = assignments[j]
        /\ assignments'[k] = [assignments[k] EXCEPT !.status = "resolved"]
        /\ assignments[k] \in AssignmentRecord
    BY <1>1
  <2>2. /\ assignments'[k].conversation = assignments[k].conversation
        /\ assignments'[k].expert = assignments[k].expert
        /\ assignments'[k].status = "resolved"
    BY <2>1 DEF AssignmentRecord
  <2> QED
    BY <2>1, <2>2
<1>3. \A c, e : RowsOf(c, e)' = RowsOf(c, e)
  BY <1>2 DEF RowsOf
<1> QED
  BY <1>1, <1>2, <1>3 DEF OpenRows, RowsOf

LEMMA OpenInit == Init => OpenInv
  BY DEF Init, OpenInv, OpenRows, RowsOf

LEMMA OpenStep ==
  ASSUME OneThread, ~Failures
  PROVE  TypeInv /\ LoadedInv /\ CurrentInv /\ OpenInv /\ [Next]_vars => OpenInv'
<1> SUFFICES ASSUME TypeInv, LoadedInv, CurrentInv, OpenInv, [Next]_vars PROVE OpenInv'
  OBVIOUS
<1>t. requests \in [Threads -> Request] /\ conversations \in [Conversations -> Row]
  BY DEF TypeInv, TypeOK
<1>u. \A c \in Conversations, e \in Users : conversations[c].expert = e
        => conversations[c].expert # NoUser
  BY NoUserAssumption
<1>e. \A t \in Threads : requests[t].step # "idle"
        => requests[t].conversation \in Conversations
  BY <1>t, BusyIsRequest, BusyFields
\* No row is inserted or resolved, and every open row stays justified.
<1>k. ASSUME UNCHANGED assignments,
             \A c \in Conversations, e \in Users :
                OpenRows(c, e) # {} => Justified(c, e)'
      PROVE  OpenInv'
  <2>1. \A c, e : RowsOf(c, e)' = RowsOf(c, e) /\ OpenRows(c, e)' = OpenRows(c, e)
    BY <1>k DEF OpenRows, RowsOf
  <2> QED
    BY <1>k, <2>1 DEF OpenInv
\* The only thread is not between history and conversation: open rows are their
\* holders'.
<1>h. ASSUME NEW t \in Threads,
             requests[t].step \notin {"assign conversation", "resolve assignment"},
             NEW c \in Conversations, NEW e \in Users, OpenRows(c, e) # {}
      PROVE  /\ conversations[c].expert = e
             /\ ~ (requests[t].step = "record claim" /\ requests[t].conversation = c)
  <2>1. \A x \in Threads : x = t
    BY DEF OneThread
  <2>2. Justified(c, e)
    BY <1>h DEF OpenInv
  <2> QED
    BY <1>h, <2>1, <2>2 DEF Justified, Changing, Claiming
\* Nor does it become so that it claims.
<1>c. ASSUME NEW t \in Threads, requests'[t].step # "record claim",
             NEW c, NEW e, conversations'[c].expert = e
      PROVE  Justified(c, e)'
  <2>1. \A x \in Threads : x = t
    BY DEF OneThread
  <2>2. ~ Claiming(c)'
    BY <1>c, <2>1 DEF Claiming
  <2> QED
    BY <1>c, <2>2 DEF Justified
<1>n. ASSUME NEW t \in Threads, UNCHANGED assignments,
             requests[t].step \notin {"assign conversation", "resolve assignment"},
             requests'[t].step # "record claim",
             \A c \in Conversations : conversations'[c].expert = conversations[c].expert
      PROVE  OpenInv'
  <2>1. ASSUME NEW c \in Conversations, NEW e \in Users, OpenRows(c, e) # {}
        PROVE  Justified(c, e)'
    <3>1. conversations'[c].expert = e
      BY <1>n, <1>h, <2>1
    <3> QED
      BY <1>c, <1>n, <3>1
  <2> QED
    BY <1>k, <1>n, <2>1
<1>f. ASSUME NEW t \in Threads, Finish(t) PROVE requests'[t].step = "idle"
  BY <1>f, <1>t, IdleStep DEF Finish
<1>p. ASSUME NEW t \in Threads, NEW step \in BusySteps, Proceed(t, step),
             requests[t] \in BusyRequest
      PROVE  /\ requests'[t].step = step
             /\ requests'[t].conversation = requests[t].conversation
             /\ requests'[t].expert = requests[t].expert
  BY <1>p, <1>t DEF Proceed, BusyRequest
<1>b. {"assign conversation", "record claim", "resolve assignment"} \subseteq BusySteps
  BY DEF BusySteps
\* A row is inserted for a conversation that has no open one.
<1>i. ASSUME NEW t \in Threads, NEW status \in OpenStatuses, CreateAssignment(t, status),
             requests[t].step \notin {"assign conversation", "resolve assignment"},
             requests'[t].step # "record claim",
             UNCHANGED conversations,
             \A e \in Users : OpenRows(requests[t].conversation, e) = {},
             NEW c0, c0 = requests[t].conversation, NEW e0, e0 = requests[t].expert,
             Justified(c0, e0)'
      PROVE  OpenInv'
  <2>o. \A c, e : ~ (c = requests[t].conversation /\ e = requests[t].expert)
           => RowsOf(c, e)' = RowsOf(c, e) /\ OpenRows(c, e)' = OpenRows(c, e)
    BY <1>i, InsertAddsRow
  <2>1. ASSUME NEW c \in Conversations, NEW e \in Users, NEW i \in OpenRows(c, e)'
        PROVE  Justified(c, e)' /\ \A j \in RowsOf(c, e)' : j <= i
    <3>1. CASE c = c0 /\ e = e0
      <4>1. PICK n : OpenRows(c, e)' = OpenRows(c, e) \cup {n} /\ \A j \in RowsOf(c, e)' : j <= n
        BY <1>i, <3>1, InsertAddsRow
      <4>2. i = n
        BY <1>i, <2>1, <3>1, <4>1
      <4> QED
        BY <1>i, <3>1, <4>1, <4>2
    <3>2. CASE ~ (c = c0 /\ e = e0)
      <4>1. RowsOf(c, e)' = RowsOf(c, e) /\ OpenRows(c, e)' = OpenRows(c, e)
        BY <1>i, <2>o, <3>2
      <4>2. conversations[c].expert = e
        <5>1. OpenRows(c, e) # {}
          BY <2>1, <4>1
        <5> QED
          BY <1>h, <1>i, <5>1
      <4>3. Justified(c, e)'
        BY <1>c, <1>i, <4>2
      <4> QED
        BY <2>1, <4>1, <4>3 DEF OpenInv
    <3> QED
      BY <3>1, <3>2
  <2> QED
    BY <2>1 DEF OpenInv
<1>1. CASE UNCHANGED vars
  <2>1. \A c, e : RowsOf(c, e)' = RowsOf(c, e)
    BY <1>1 DEF vars, RowsOf
  <2>2. \A c, e : OpenRows(c, e)' = OpenRows(c, e)
    BY <1>1, <2>1 DEF vars, OpenRows
  <2>3. \A c, e : Justified(c, e)' <=> Justified(c, e)
    BY <1>1 DEF vars, Justified, Changing, Claiming
  <2> QED
    BY <2>1, <2>2, <2>3 DEF OpenInv
<1>2. ASSUME NEW t \in Threads, LoadForJob(t) PROVE OpenInv'
  <2>1. requests[t].step = "load for job" /\ requests'[t].step # "record claim"
          /\ UNCHANGED <<conversations, assignments>>
    <3>1. CASE Finish(t)
      BY <1>2, <1>f, <3>1 DEF LoadForJob, At
    <3>2. CASE ~ Finish(t)
      <4>1. PICK c, row : Begin(t, "call llm", c, row, NoUser)
        BY <1>2, <3>2 DEF LoadForJob
      <4>2. requests'[t].step = "call llm"
        BY <1>t, <4>1 DEF Begin
      <4> QED
        BY <1>2, <4>2 DEF LoadForJob, At
    <3> QED
      BY <3>1, <3>2
  <2> QED
    BY <1>n, <2>1
<1>3. ASSUME NEW t \in Threads, RecordAssignment(t) PROVE OpenInv'
  <2>1. /\ requests[t] \in BusyRequest /\ requests[t].step = "record assignment"
        /\ requests[t].expert \in Users
    BY <1>3, AtType DEF RecordAssignment, BusySteps, At
  <2>2. /\ requests'[t].step = "assign conversation"
        /\ requests'[t].conversation = requests[t].conversation
        /\ requests'[t].expert = requests[t].expert
        /\ UNCHANGED conversations
    BY <1>3, <1>b, <1>p, <2>1 DEF RecordAssignment
  <2>3. conversations[requests[t].conversation].expert = NoUser
    BY <2>1 DEF CurrentInv, ThreadCurrent
  <2>4. \A e \in Users : OpenRows(requests[t].conversation, e) = {}
    BY <1>e, <1>h, <1>u, <2>1, <2>3
  <2>5. ASSUME NEW c, NEW e, c = requests[t].conversation, e = requests[t].expert
        PROVE  Justified(c, e)'
    BY <2>2, <2>5 DEF Justified, Changing
  <2> QED
    BY <1>3, <1>i, <2>1, <2>2, <2>4, <2>5 DEF RecordAssignment, OpenStatuses
<1>4. ASSUME NEW t \in Threads, AssignConversation(t) PROVE OpenInv'
  <2>1. requests[t].step = "assign conversation" /\ requests'[t].step = "idle"
          /\ UNCHANGED assignments
    BY <1>4, <1>f DEF AssignConversation, At
  <2>2. conversations[requests[t].conversation].expert = NoUser
    BY <2>1 DEF CurrentInv, ThreadCurrent
  <2>3. \A x \in Threads : x = t
    BY DEF OneThread
  <2>4. ASSUME NEW c \in Conversations, NEW e \in Users, OpenRows(c, e) # {}
        PROVE  Justified(c, e)'
    <3>j. Justified(c, e)
      BY <2>4 DEF OpenInv
    <3>1. \/ conversations[c].expert = e /\ c # requests[t].conversation
          \/ c = requests[t].conversation /\ e = requests[t].expert
      BY <1>u, <2>2, <2>3, <3>j DEF Justified, Changing
    <3>2. conversations'[c].expert = e
      BY <1>4, <3>1, AssignSetsExpert
    <3> QED
      BY <1>c, <2>1, <3>2
  <2> QED
    BY <1>k, <2>1, <2>4
<1>5. ASSUME NEW t \in Threads, ClaimConversation(t) PROVE OpenInv'
  <2>1. requests[t] \in BusyRequest /\ requests[t].step = "claim conversation"
    BY <1>5, AtType DEF ClaimConversation, BusySteps, At
  <2>2. /\ requests'[t].step = "record claim"
        /\ requests'[t].conversation = requests[t].conversation
        /\ UNCHANGED assignments
    BY <1>5, <1>b, <1>p, <2>1 DEF ClaimConversation
  <2>3. conversations[requests[t].conversation].expert = NoUser
    BY <2>1 DEF CurrentInv, ThreadCurrent
  <2>4. \A x \in Threads : x = t
    BY DEF OneThread
  <2>5. ASSUME NEW c \in Conversations, NEW e \in Users, OpenRows(c, e) # {}
        PROVE  Justified(c, e)'
    <3>1. conversations[c].expert = e /\ c # requests[t].conversation
      BY <1>h, <1>u, <2>1, <2>3, <2>5
    <3>2. conversations'[c].expert = e
      BY <1>5, <3>1, ClaimSetsExpert
    <3>3. ~ Claiming(c)'
      BY <2>2, <2>4, <3>1 DEF Claiming
    <3> QED
      BY <3>2, <3>3 DEF Justified
  <2> QED
    BY <1>k, <2>2, <2>5
<1>6. ASSUME NEW t \in Threads, RecordClaim(t) PROVE OpenInv'
  <2>1. /\ requests[t] \in BusyRequest /\ requests[t].step = "record claim"
        /\ requests[t].expert \in Users
    BY <1>6, AtType DEF RecordClaim, BusySteps, At
  <2>2. requests'[t].step = "idle" /\ UNCHANGED conversations
    BY <1>6, <1>f DEF RecordClaim
  <2>3. conversations[requests[t].conversation].expert = requests[t].expert
    BY <2>1 DEF CurrentInv, ThreadCurrent
  <2>4. \A e \in Users : OpenRows(requests[t].conversation, e) = {}
    BY <1>e, <1>h, <2>1
  <2>5. ASSUME NEW c, NEW e, c = requests[t].conversation, e = requests[t].expert
        PROVE  Justified(c, e)'
    BY <1>c, <2>2, <2>3, <2>5
  <2> QED
    BY <1>6, <1>i, <2>1, <2>2, <2>4, <2>5 DEF RecordClaim, OpenStatuses
<1>7. ASSUME NEW t \in Threads, UnclaimConversation(t) PROVE OpenInv'
  <2>1. requests[t] \in BusyRequest /\ requests[t].step = "unclaim conversation"
    BY <1>7, AtType DEF UnclaimConversation, BusySteps, At
  <2>2. /\ requests'[t].step = "resolve assignment"
        /\ requests'[t].conversation = requests[t].conversation
        /\ requests'[t].expert = requests[t].expert
        /\ UNCHANGED assignments
    BY <1>7, <1>b, <1>p, <2>1 DEF UnclaimConversation
  <2>3. conversations[requests[t].conversation].expert = requests[t].expert
    BY <2>1 DEF CurrentInv, ThreadCurrent
  <2>4. ASSUME NEW c \in Conversations, NEW e \in Users, OpenRows(c, e) # {}
        PROVE  Justified(c, e)'
    <3>1. conversations[c].expert = e
      BY <1>h, <2>1, <2>4
    <3>2. CASE c = requests[t].conversation
      <4>1. e = requests'[t].expert /\ c = requests'[t].conversation
        BY <2>2, <2>3, <3>1, <3>2
      <4> QED
        BY <2>2, <4>1 DEF Justified, Changing
    <3>3. CASE c # requests[t].conversation
      <4>1. conversations'[c].expert = e
        BY <1>7, <3>1, <3>3, UnclaimClears
      <4> QED
        BY <1>c, <2>2, <4>1
    <3> QED
      BY <3>2, <3>3
  <2> QED
    BY <1>k, <2>2, <2>4
<1>8. ASSUME NEW t \in Threads, ResolveAssignment(t) PROVE OpenInv'
  <2>1. /\ requests[t].step = "resolve assignment"
        /\ requests'[t].step = "idle"
        /\ UNCHANGED conversations
    BY <1>8, <1>f DEF ResolveAssignment, At
  <2>2. \A x \in Threads : x = t
    BY DEF OneThread
  \* An open row is its holder's, or it is among those looked through.
  <2>3. ASSUME NEW c \in Conversations, NEW e \in Users, OpenRows(c, e) # {}
        PROVE  \/ Justified(c, e)'
               \/ c = requests[t].conversation /\ e = requests[t].expert
    <3>j. Justified(c, e)
      BY <2>3 DEF OpenInv
    <3>1. \/ conversations[c].expert = e
          \/ c = requests[t].conversation /\ e = requests[t].expert
      BY <2>2, <3>j DEF Justified, Changing
    <3>2. conversations[c].expert = e => Justified(c, e)'
      BY <1>c, <2>1
    <3> QED
      BY <3>1, <3>2
  <2> DEFINE rows == RowsOf(requests[t].conversation, requests[t].expert)
  <2>4. CASE rows = {} /\ UNCHANGED assignments
    <3>1. \A c, e : OpenRows(c, e) # {} =>
             ~ (c = requests[t].conversation /\ e = requests[t].expert)
      BY <2>4 DEF OpenRows
    <3> QED
      BY <1>k, <2>3, <2>4, <3>1
  <2>5. ASSUME NEW k \in rows, \A i \in rows : i <= k,
               assignments' = [assignments EXCEPT ![k].status = "resolved"]
        PROVE  OpenInv'
    <3>1. \A c, e : RowsOf(c, e)' = RowsOf(c, e) /\ OpenRows(c, e)' = OpenRows(c, e) \ {k}
      BY <2>5, ResolveClosesRow DEF RowsOf
    <3>2. ASSUME NEW c \in Conversations, NEW e \in Users, NEW i \in OpenRows(c, e)'
          PROVE  Justified(c, e)' /\ \A j \in RowsOf(c, e)' : j <= i
      <4>1. i \in OpenRows(c, e) /\ i # k /\ i \in RowsOf(c, e)
        BY <3>1, <3>2 DEF OpenRows
      <4>2. \A j \in RowsOf(c, e) : j <= i
        BY <4>1 DEF OpenInv
      <4>3. ~ (c = requests[t].conversation /\ e = requests[t].expert)
        <5>1. SUFFICES ASSUME c = requests[t].conversation, e = requests[t].expert
                       PROVE  FALSE
          OBVIOUS
        <5>2. i \in rows /\ k \in RowsOf(c, e)
          BY <2>5, <4>1, <5>1
        <5>3. i <= k /\ k <= i
          BY <2>5, <4>2, <5>2
        <5>4. i \in Nat /\ k \in Nat
          BY <5>2 DEF RowsOf, TypeInv, TypeOK
        <5> QED
          BY <4>1, <5>3, <5>4
      <4> QED
        BY <2>3, <3>1, <4>1, <4>2, <4>3
    <3> QED
      BY <3>2 DEF OpenInv
  <2> QED
    BY <1>8, <2>4, <2>5 DEF ResolveAssignment
<1>9. ASSUME NEW t \in Threads, ActivateConversation(t) PROVE OpenInv'
  <2>1. requests[t].step = "activate conversation" /\ requests'[t].step = "idle"
          /\ UNCHANGED assignments
    BY <1>9, <1>f DEF ActivateConversation, At
  <2> QED
    BY <1>9, <1>n, <2>1, ActivateKeepsExperts
<1>10. ASSUME NEW t \in Threads, NEW e \in Users, LlmPicks(t, e) PROVE OpenInv'
  <2>1. requests[t] \in BusyRequest /\ requests[t].step = "call llm"
    BY <1>10, AtType DEF LlmPicks, BusySteps, At
  <2>2. requests'[t].step = "record assignment" /\ UNCHANGED <<conversations, assignments>>
    BY <1>10, <1>t, <2>1 DEF LlmPicks, BusyRequest
  <2> QED
    BY <1>n, <2>1, <2>2
<1>11. ASSUME NEW t \in Threads, LlmPicksNobody(t) \/ LlmUnavailable(t) PROVE OpenInv'
  <2>1. requests[t].step = "call llm" /\ requests'[t].step = "idle"
          /\ UNCHANGED <<conversations, assignments>>
    BY <1>11, <1>f DEF LlmPicksNobody, LlmUnavailable, At
  <2> QED
    BY <1>n, <2>1
<1>12. ASSUME NEW t \in Threads, NEW u \in Users, NEW c \in Conversations,
              NEW s \in InitialStatuses, CreateConversation(t, u, c, s)
       PROVE  OpenInv'
  <2>1. requests[t].step = "idle" /\ requests'[t].step = "load for job"
          /\ UNCHANGED assignments
    BY <1>12, <1>t, IdleStep DEF CreateConversation, IsIdle, Begin
  <2> QED
    BY <1>12, <1>n, <2>1, CreateKeepsExperts
<1>13. ASSUME NEW t \in Threads, NEW u \in Users, NEW c \in Conversations,
              RequestAutoAssign(t, u, c) \/ LoadForClaim(t, u, c)
                \/ LoadForUnclaim(t, u, c) \/ LoadForMessage(t, u, c)
       PROVE  OpenInv'
  <2>1. requests[t].step = "idle" /\ UNCHANGED <<conversations, assignments>>
    BY <1>13, IdleStep DEF RequestAutoAssign, LoadForClaim, LoadForUnclaim,
       LoadForMessage, IsIdle
  <2>2. requests'[t].step # "record claim"
    <3>1. ASSUME NEW step, NEW row, NEW e, Begin(t, step, c, row, e), step # "record claim"
          PROVE  requests'[t].step # "record claim"
      BY <1>t, <3>1 DEF Begin
    <3>2. CASE RequestAutoAssign(t, u, c)
      BY <3>1, <3>2 DEF RequestAutoAssign
    <3>3. CASE LoadForClaim(t, u, c)
      BY <3>1, <3>3 DEF LoadForClaim
    <3>4. CASE LoadForUnclaim(t, u, c)
      BY <3>1, <3>4 DEF LoadForUnclaim
    <3>5. CASE LoadForMessage(t, u, c)
      BY <3>1, <3>5 DEF LoadForMessage
    <3> QED
      BY <1>13, <3>2, <3>3, <3>4, <3>5
  <2> QED
    BY <1>n, <2>1, <2>2
<1>14. ASSUME NEW t \in Threads, Abort(t) PROVE FALSE
  BY <1>14 DEF Abort
<1> QED
  BY <1>1, <1>2, <1>3, <1>4, <1>5, <1>6, <1>7, <1>8, <1>9, <1>10, <1>11, <1>12,
     <1>13, <1>14 DEF Next, Step, LlmAnswers, Admit, ServeWithoutEffect

\* When requests are served one after the other and none dies half-way, every
\* open assignment is its conversation's current one whenever the server is at
\* rest: unclaim, which resolves the latest row whatever its status, always finds
\* the open one, however often one expert comes back to one conversation.
THEOREM OpenAssignmentIsCurrentByOneThread ==
  ASSUME OneThread, ~Failures
  PROVE  Spec => []OpenAssignmentIsCurrent
<1> DEFINE I == TypeInv /\ LoadedInv /\ CurrentInv /\ OpenInv
<1>1. Init => I
  BY TypeInit, LoadedInit, CurrentInit, OpenInit
<1>2. I /\ [Next]_vars => I'
  BY TypeStep, LoadedStep, CurrentStep, OpenStep
<1>3. I => OpenAssignmentIsCurrent
  <2> SUFFICES ASSUME TypeInv, OpenInv, \A t \in Threads : IsIdle(t),
                      NEW i \in DOMAIN assignments, assignments[i].status \in OpenStatuses,
                      NEW c, c = assignments[i].conversation, NEW e, e = assignments[i].expert
               PROVE  conversations[c].expert = e
    BY DEF OpenAssignmentIsCurrent
  <2>1. assignments[i] \in AssignmentRecord
    BY DEF TypeInv, TypeOK
  <2>2. c \in Conversations /\ e \in Users
    BY <2>1 DEF AssignmentRecord
  <2>3. i \in OpenRows(c, e)
    BY DEF OpenRows, RowsOf
  <2>4. Justified(c, e)
    BY <2>2, <2>3 DEF OpenInv
  <2>5. ~ Changing(c, e)
    BY IdleStep DEF Changing, IsIdle
  <2> QED
    BY <2>4, <2>5 DEF Justified
<1> QED
  <2> HIDE DEF I
  <2> QED
    BY <1>1, <1>2, <1>3, PTL DEF Spec

-----------------------------------------------------------------------------
(* The tables implement the lifecycle.                                     *)

\* Empty tables are the lifecycle before the first conversation.
LEMMA LifecycleInit == Init => Lifecycle!Init
<1> SUFFICES ASSUME Init PROVE Lifecycle!Init
  OBVIOUS
<1>1. Absent.expert = NoUser /\ Absent.status = "absent"
  BY DEF Absent
<1>2. \A c, e : RowsOf(c, e) = {}
  BY DEF Init, RowsOf
<1> QED
  BY <1>1, <1>2 DEF Init, Lifecycle!Init, Exists

\* Each statement is a step of the lifecycle or invisible to it.
LEMMA LifecycleStep ==
  ASSUME Shipped
  PROVE  TypeInv /\ LoadedInv /\ RecordedInv /\ [Next]_vars
           => [Lifecycle!Next]_(Lifecycle!lifecycleVars)
<1> SUFFICES ASSUME TypeInv, LoadedInv, RecordedInv, [Next]_vars
             PROVE  [Lifecycle!Next]_(Lifecycle!lifecycleVars)
  OBVIOUS
<1> DEFINE opened  == {c \in Conversations : Exists(c)}
           holder  == [c \in Conversations |-> conversations[c].expert]
           history == [c \in Conversations |-> {e \in Users : RowsOf(c, e) # {}}]
<1>t. conversations \in [Conversations -> Row]
  BY DEF TypeInv, TypeOK
<1>o. UNCHANGED conversations => UNCHANGED <<opened, holder>>
  BY DEF Exists
<1>h. UNCHANGED assignments => UNCHANGED history
  BY DEF RowsOf
<1>s. UNCHANGED <<opened, holder, history>> =>
        [Lifecycle!Next]_(Lifecycle!lifecycleVars)
  BY DEF Lifecycle!lifecycleVars
<1>1. CASE UNCHANGED <<conversations, assignments>>
  BY <1>1, <1>o, <1>h, <1>s
<1>2. ASSUME NEW t \in Threads, RecordAssignment(t)
      PROVE  [Lifecycle!Next]_(Lifecycle!lifecycleVars)
  <2>1. /\ requests[t].conversation \in Conversations
        /\ requests[t].expert \in Users
        /\ Exists(requests[t].conversation)
    BY <1>2, AtType, BusyFields DEF RecordAssignment, BusySteps, At, LoadedInv, Exists
  <2>2. \A c, e : RowsOf(c, e)' # {} <=>
           \/ RowsOf(c, e) # {}
           \/ c = requests[t].conversation /\ e = requests[t].expert
    BY <1>2, InsertKeepsRows DEF RecordAssignment, OpenStatuses
  <2>3. history' = [history EXCEPT ![requests[t].conversation]
                                     = @ \cup {requests[t].expert}]
    BY <2>1, <2>2
  <2>4. UNCHANGED <<opened, holder>>
    BY <1>2, <1>o DEF RecordAssignment
  <2>5. Lifecycle!Record(requests[t].conversation, requests[t].expert)
    BY <2>1, <2>3, <2>4 DEF Lifecycle!Record
  <2> QED
    BY <2>1, <2>5 DEF Lifecycle!Next
<1>3. ASSUME NEW t \in Threads, AssignConversation(t)
      PROVE  [Lifecycle!Next]_(Lifecycle!lifecycleVars)
  <2>1. PICK c \in Conversations, e \in Users :
           /\ c = requests[t].conversation /\ e = requests[t].expert
           /\ Exists(c)
           /\ \A d \in Conversations :
                conversations'[d].expert = IF d = c THEN e ELSE conversations[d].expert
    BY <1>3, AssignSetsExpert
  <2>2. RowsOf(c, e) # {}
    BY <1>3, <2>1 DEF AssignConversation, At, RecordedInv, HasOpenAssignment
  <2>3. holder' = [holder EXCEPT ![c] = e]
    BY <2>1
  <2>4. \A d \in Conversations : Exists(d)' <=> Exists(d)
    BY <1>3, <1>t, <2>1, RowsStay DEF AssignConversation, WriteConversation, Exists
  <2>5. UNCHANGED opened /\ UNCHANGED history
    BY <1>3, <1>h, <2>4 DEF AssignConversation
  <2>6. Lifecycle!Assign(c, e)
    BY <2>1, <2>2, <2>3, <2>5 DEF Lifecycle!Assign
  <2> QED
    BY <2>6 DEF Lifecycle!Next
<1>4. ASSUME NEW t \in Threads, ActivateConversation(t)
      PROVE  [Lifecycle!Next]_(Lifecycle!lifecycleVars)
  <2>1. requests[t] \in BusyRequest /\ Exists(requests[t].conversation)
    BY <1>4, AtType DEF ActivateConversation, BusySteps, At, LoadedInv, Exists
  <2>2. \A c \in Conversations : Exists(c)' <=> Exists(c)
    BY <1>4, <1>t, <2>1, RowsStay DEF ActivateConversation, WriteConversation, Exists
  <2>3. UNCHANGED <<opened, holder, history>>
    BY <1>4, <1>h, <2>2, ActivateKeepsExperts DEF ActivateConversation
  <2> QED
    BY <2>3, <1>s
<1>5. ASSUME NEW t \in Threads, NEW u \in Users, NEW c \in Conversations,
             NEW s \in InitialStatuses, CreateConversation(t, u, c, s)
      PROVE  [Lifecycle!Next]_(Lifecycle!lifecycleVars)
  <2>1. conversations' = [conversations EXCEPT ![c] =
           [initiator |-> u, expert |-> NoUser, status |-> s]]
          /\ ~Exists(c) /\ UNCHANGED assignments
    BY <1>5 DEF CreateConversation
  <2>2. s # "absent"
    BY StatusesAssumption DEF Statuses
  <2>3. opened' = opened \cup {c}
    BY <1>t, <2>1, <2>2 DEF Exists
  <2>4. conversations[c].expert = NoUser
    BY <2>1 DEF RecordedInv
  <2>5. UNCHANGED holder /\ UNCHANGED history
    BY <1>t, <1>h, <2>1, <2>4
  <2>6. Lifecycle!Open(c)
    BY <2>1, <2>3, <2>5 DEF Lifecycle!Open
  <2> QED
    BY <2>6 DEF Lifecycle!Next
<1>6. ASSUME NEW t \in Threads, ClaimConversation(t) \/ RecordClaim(t)
               \/ UnclaimConversation(t) \/ ResolveAssignment(t)
      PROVE  FALSE
  BY <1>6 DEF ClaimConversation, RecordClaim, UnclaimConversation,
     ResolveAssignment, At, RecordedInv
<1> QED
  BY <1>1, <1>2, <1>3, <1>4, <1>5, <1>6 DEF Next, Step, LlmAnswers, Admit,
     ServeWithoutEffect, vars, LoadForJob, LlmPicks, LlmPicksNobody,
     LlmUnavailable, Abort, RequestAutoAssign, LoadForClaim, LoadForUnclaim,
     LoadForMessage

\* With the shipped router the tables implement ConversationLifecycle: whoever
\* is made the holder of a conversation was entered in its history before.
THEOREM ImplementsLifecycleAlways ==
  ASSUME Shipped
  PROVE  Spec => ImplementsLifecycle
<1>1. Spec => [](TypeInv /\ LoadedInv /\ RecordedInv)
  BY ShippedInvariant
<1>2. Init => Lifecycle!Init
  BY LifecycleInit
<1>3. TypeInv /\ LoadedInv /\ RecordedInv /\ [Next]_vars
        => [Lifecycle!Next]_(Lifecycle!lifecycleVars)
  BY LifecycleStep
<1> QED
  BY <1>1, <1>2, <1>3, PTL DEF Spec, ImplementsLifecycle, Lifecycle!Spec
=============================================================================

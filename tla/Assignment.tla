----------------------------- MODULE Assignment -----------------------------
(***************************************************************************)
(* The backend's assignment of experts to conversations: the rows of the   *)
(* tables "conversations" and "expert_assignments", and the request        *)
(* threads of Puma that read a row, call the LLM and write the row back.   *)
(*                                                                         *)
(* No controller opens a transaction or takes a row lock, so every SELECT, *)
(* INSERT and UPDATE is a step of its own and the steps of the threads     *)
(* interleave.  ActiveRecord's update! writes only the attributes that     *)
(* differ from the values the thread LOADED (dirty tracking): DirtyWrite.  *)
(***************************************************************************)
EXTENDS Naturals, Sequences, FiniteSets

CONSTANTS
  Threads,          \* Puma's request threads
  Conversations,    \* ids conversations are created with
  Users,            \* registered users; registering creates an ExpertProfile
  NoUser,           \* NULL in assigned_expert_id
  InitialStatuses,  \* the values of params[:status] || "waiting" on creation
  PublicActions,    \* the ExpertsController methods the router can reach
  LlmOutcomes,      \* what BedrockClient.call may come back with
  Failures,         \* whether a thread may die between two statements
  MaxAssignments    \* bound: rows ever written to expert_assignments

Statuses == {"waiting", "active", "resolved"}

ASSUME NoUserAssumption     == NoUser \notin Users
ASSUME StatusesAssumption   == InitialStatuses \subseteq Statuses
ASSUME LlmAssumption        == LlmOutcomes \subseteq {"pick", "none", "unavailable"}
ASSUME ActionsAssumption    == PublicActions \subseteq {"queue", "claim", "unclaim"}
ASSUME FailuresAssumption   == Failures \in BOOLEAN
ASSUME BoundAssumption      == MaxAssignments \in Nat

VARIABLES
  conversations,    \* [Conversations -> Row]
  assignments,      \* the rows of expert_assignments, in order of assigned_at
  requests          \* what each thread is doing

vars == <<conversations, assignments, requests>>

-----------------------------------------------------------------------------
(* The tables and the threads.                                             *)

MaybeUser == Users \cup {NoUser}

\* A row of "conversations"; "absent" stands for an id not inserted yet.
Row == [initiator : MaybeUser, expert : MaybeUser,
        status : Statuses \cup {"absent"}]

Absent == [initiator |-> NoUser, expert |-> NoUser, status |-> "absent"]

Exists(c) == conversations[c].status # "absent"

\* What an assignment row's status may be while it is open: the service writes
\* "Active", a claim writes "active".
OpenStatuses == {"Active", "active"}

\* A row of "expert_assignments".
AssignmentRecord == [conversation : Conversations, expert : Users,
                     status : OpenStatuses \cup {"resolved"}]

\* The statement a thread is about to execute.
BusySteps == {"load for job", "call llm", "record assignment",
              "assign conversation", "claim conversation", "record claim",
              "unclaim conversation", "resolve assignment",
              "activate conversation"}

Idle == [step |-> "idle"]

BusyRequest == [step : BusySteps, conversation : Conversations,
                loaded : Row, expert : MaybeUser]

Request == {Idle} \cup BusyRequest

IsIdle(t) == requests[t] = Idle

BusyThreads == {t \in Threads : ~IsIdle(t)}

\* A new request is admitted only while the bound leaves room for the row it
\* may insert.
RoomForAssignment == Len(assignments) + Cardinality(BusyThreads) < MaxAssignments

At(t, step) == requests[t].step = step

\* Thread t starts working on conversation c for expert e, holding the copy
\* "loaded" of the row.
Begin(t, step, c, row, e) ==
  requests' = [requests EXCEPT ![t] =
                 [step |-> step, conversation |-> c, loaded |-> row, expert |-> e]]

\* The thread's next statement; everything else it holds stays the same.
Proceed(t, step) == requests' = [requests EXCEPT ![t].step = step]

Finish(t) == requests' = [requests EXCEPT ![t] = Idle]

\* conversation.update!(assigned_expert: e, status: s) on a copy that was
\* loaded earlier: only attributes that differ from the copy reach the row.
DirtyWrite(row, loaded, e, s) ==
  [row EXCEPT !.expert = IF e # loaded.expert THEN e ELSE @,
              !.status = IF s # loaded.status THEN s ELSE @]

WriteConversation(t, e, s) ==
  LET r == requests[t] IN
  conversations' = [conversations EXCEPT ![r.conversation] =
                      DirtyWrite(@, r.loaded, e, s)]

\* Mutant: the assignment row names the conversation's initiator.
CreateAssignmentForInitiator(t, status) ==
  LET r == requests[t] IN
  assignments' = Append(assignments, [conversation |-> r.conversation,
                                      expert |-> r.loaded.initiator,
                                      status |-> status])

\* ExpertAssignment.create!
CreateAssignment(t, status) ==
  LET r == requests[t] IN
  assignments' = Append(assignments, [conversation |-> r.conversation,
                                      expert |-> r.expert, status |-> status])

Init ==
  /\ conversations = [c \in Conversations |-> Absent]
  /\ assignments   = <<>>
  /\ requests      = [t \in Threads |-> Idle]

-----------------------------------------------------------------------------
(* POST /conversations and POST /conversations/:id/auto_assign: the row is *)
(* inserted (by create only), then AutoAssignExpertJob.perform_now runs in *)
(* the same thread.                                                        *)

\* Mutant: create no longer runs the job.
CreateConversationWithoutJob(t, u, c, s) ==
  /\ IsIdle(t)
  /\ RoomForAssignment
  /\ ~Exists(c)
  /\ conversations' = [conversations EXCEPT ![c] =
                         [initiator |-> u, expert |-> NoUser, status |-> s]]
  /\ UNCHANGED <<assignments, requests>>

\* ConversationsController#create up to conversation.save.
CreateConversation(t, u, c, s) ==
  LET row == [initiator |-> u, expert |-> NoUser, status |-> s] IN
  /\ IsIdle(t)
  /\ RoomForAssignment
  /\ ~Exists(c)
  /\ s \in InitialStatuses
  /\ conversations' = [conversations EXCEPT ![c] = row]
  /\ Begin(t, "load for job", c, row, NoUser)
  /\ UNCHANGED assignments

\* AutoAssignExpertJob#perform after create: find_by, then skip or go on.
LoadForJob(t) ==
  LET c == requests[t].conversation IN
  /\ At(t, "load for job")
  /\ IF conversations[c].expert # NoUser
       THEN Finish(t)
       ELSE Begin(t, "call llm", c, conversations[c], NoUser)
  /\ UNCHANGED <<conversations, assignments>>

\* ExpertAssignmentsController#auto_assign and the job it runs.  The job's
\* find_by repeats the controller's query within one request and is answered
\* by the query cache, so both work on the row read here.
RequestAutoAssign(t, u, c) ==
  /\ IsIdle(t)
  /\ RoomForAssignment
  /\ Exists(c)
  /\ conversations[c].initiator = u
  /\ conversations[c].expert = NoUser
  /\ Begin(t, "call llm", c, conversations[c], NoUser)
  /\ UNCHANGED <<conversations, assignments>>

\* Mutant: an id no profile has is not rejected.
LlmPicksUnchecked(t, e) ==
  /\ At(t, "call llm")
  /\ \E x \in {e, NoUser} :
        requests' = [requests EXCEPT ![t].step = "record assignment",
                                     ![t].expert = x]
  /\ UNCHANGED <<conversations, assignments>>

\* Mutant: the conversation is written before its history row.
LlmPicksAndWritesFirst(t, e) ==
  /\ At(t, "call llm")
  /\ requests' = [requests EXCEPT ![t].step = "claim conversation",
                                  ![t].expert = e]
  /\ UNCHANGED <<conversations, assignments>>

\* The LLM names the id of an existing expert profile.
LlmPicks(t, e) ==
  /\ At(t, "call llm")
  /\ "pick" \in LlmOutcomes
  /\ requests' = [requests EXCEPT ![t].step = "record assignment",
                                  ![t].expert = e]
  /\ UNCHANGED <<conversations, assignments>>

\* "NONE", an answer without a number, or an id no profile has.
LlmPicksNobody(t) ==
  /\ At(t, "call llm")
  /\ "none" \in LlmOutcomes
  /\ Finish(t)
  /\ UNCHANGED <<conversations, assignments>>

\* The call raises; assign rescues and reports failure.
LlmUnavailable(t) ==
  /\ At(t, "call llm")
  /\ "unavailable" \in LlmOutcomes
  /\ Finish(t)
  /\ UNCHANGED <<conversations, assignments>>

\* ExpertAssignment.create! of AutoExpertAssignmentService#assign.
RecordAssignment(t) ==
  /\ At(t, "record assignment")
  /\ CreateAssignment(t, "Active")
  /\ Proceed(t, "assign conversation")
  /\ UNCHANGED conversations

\* Mutant: the update! forgets the status.
AssignConversationKeepingStatus(t) ==
  /\ At(t, "assign conversation")
  /\ WriteConversation(t, requests[t].expert, requests[t].loaded.status)
  /\ Finish(t)
  /\ UNCHANGED assignments

\* @conversation.update! of AutoExpertAssignmentService#assign.
AssignConversation(t) ==
  /\ At(t, "assign conversation")
  /\ WriteConversation(t, requests[t].expert, "active")
  /\ Finish(t)
  /\ UNCHANGED assignments

-----------------------------------------------------------------------------
(* POST /expert/conversations/:id/claim and .../unclaim.  The handlers     *)
(* stand below "private" in ExpertsController, so the router reaches them  *)
(* only if PublicActions says so.                                          *)

\* ExpertsController#claim: find, and 422 if an expert is present.
LoadForClaim(t, u, c) ==
  /\ "claim" \in PublicActions
  /\ IsIdle(t)
  /\ RoomForAssignment
  /\ Exists(c)
  /\ conversations[c].expert = NoUser
  /\ Begin(t, "claim conversation", c, conversations[c], u)
  /\ UNCHANGED <<conversations, assignments>>

\* Mutant: the claim's update! forgets the status.
ClaimConversationKeepingStatus(t) ==
  /\ At(t, "claim conversation")
  /\ WriteConversation(t, requests[t].expert, requests[t].loaded.status)
  /\ Proceed(t, "record claim")
  /\ UNCHANGED assignments

\* Mutant: the claim is not recorded.
ClaimConversationUnrecorded(t) ==
  /\ At(t, "claim conversation")
  /\ WriteConversation(t, requests[t].expert, "active")
  /\ Finish(t)
  /\ UNCHANGED assignments

\* conversation.update! of ExpertsController#claim.
ClaimConversation(t) ==
  /\ At(t, "claim conversation")
  /\ WriteConversation(t, requests[t].expert, "active")
  /\ Proceed(t, "record claim")
  /\ UNCHANGED assignments

RecordClaim(t) ==
  /\ At(t, "record claim")
  /\ CreateAssignment(t, "active")
  /\ Finish(t)
  /\ UNCHANGED conversations

\* ExpertsController#unclaim: find, and 403 (500 if none) unless it is the
\* caller's.
LoadForUnclaim(t, u, c) ==
  /\ "unclaim" \in PublicActions
  /\ IsIdle(t)
  /\ Exists(c)
  /\ conversations[c].expert = u
  /\ Begin(t, "unclaim conversation", c, conversations[c], u)
  /\ UNCHANGED <<conversations, assignments>>

\* conversation.update! of ExpertsController#unclaim.
UnclaimConversation(t) ==
  /\ At(t, "unclaim conversation")
  /\ WriteConversation(t, NoUser, "waiting")
  /\ Proceed(t, "resolve assignment")
  /\ UNCHANGED assignments

\* The positions of the rows of conversation c for expert e.
RowsOf(c, e) ==
  {i \in DOMAIN assignments :
     assignments[i].conversation = c /\ assignments[i].expert = e}

\* where(...).order(assigned_at: :desc).first, whatever its status; nothing
\* to do if there is none.
ResolveAssignment(t) ==
  LET rows == RowsOf(requests[t].conversation, requests[t].expert) IN
  /\ At(t, "resolve assignment")
  /\ \/ /\ rows = {}
        /\ UNCHANGED assignments
     \/ \E latest \in rows :
           /\ \A i \in rows : i <= latest
           /\ assignments' = [assignments EXCEPT ![latest].status = "resolved"]
  /\ Finish(t)
  /\ UNCHANGED conversations

-----------------------------------------------------------------------------
(* POST /messages activates a waiting conversation that has an expert.     *)

\* MessagesController#create finds the conversation and checks access.
LoadForMessage(t, u, c) ==
  /\ IsIdle(t)
  /\ Exists(c)
  /\ u \in {conversations[c].initiator, conversations[c].expert}
  /\ conversations[c].status = "waiting"
  /\ conversations[c].expert # NoUser
  /\ Begin(t, "activate conversation", c, conversations[c], conversations[c].expert)
  /\ UNCHANGED <<conversations, assignments>>

\* conversation.update(status: "active") of MessagesController#create.
ActivateConversation(t) ==
  /\ At(t, "activate conversation")
  /\ WriteConversation(t, requests[t].loaded.expert, "active")
  /\ Finish(t)
  /\ UNCHANGED assignments

-----------------------------------------------------------------------------
\* The server is killed or the database connection is lost between two
\* statements: what was written stays, the rest of the handler never runs.
Abort(t) ==
  /\ Failures
  /\ ~IsIdle(t)
  /\ Finish(t)
  /\ UNCHANGED <<conversations, assignments>>

\* GET /conversations and GET /conversations/:id, and every request the
\* guards of the handlers answer with 403, 404 or 422: nothing is written.
ServeWithoutEffect(t) ==
  /\ IsIdle(t)
  /\ UNCHANGED vars

\* The statements of a request that is being served, without the LLM's answer.
Step(t) ==
  \/ LoadForJob(t)
  \/ RecordAssignment(t)
  \/ AssignConversation(t)
  \/ ClaimConversation(t)
  \/ RecordClaim(t)
  \/ UnclaimConversation(t)
  \/ ResolveAssignment(t)
  \/ ActivateConversation(t)

\* What BedrockClient.call comes back with.
LlmAnswers(t) ==
  \/ \E e \in Users : LlmPicks(t, e)
  \/ LlmPicksNobody(t)
  \/ LlmUnavailable(t)

\* A request of user u about conversation c is admitted to thread t.
Admit(t, u, c) ==
  \/ \E s \in InitialStatuses : CreateConversation(t, u, c, s)
  \/ RequestAutoAssign(t, u, c)
  \/ LoadForClaim(t, u, c)
  \/ LoadForUnclaim(t, u, c)
  \/ LoadForMessage(t, u, c)

Next ==
  \E t \in Threads :
     \/ Step(t)
     \/ LlmAnswers(t)
     \/ Abort(t)
     \/ ServeWithoutEffect(t)
     \/ \E u \in Users, c \in Conversations : Admit(t, u, c)

Spec == Init /\ [][Next]_vars

\* Puma runs every thread and the AWS client's time-outs end every call, so
\* a request that has been admitted is never suspended for ever.
Fairness == \A t \in Threads : WF_vars(Step(t) \/ LlmAnswers(t))

FairSpec == Spec /\ Fairness

-----------------------------------------------------------------------------
(* Properties.                                                             *)

TypeOK ==
  /\ conversations \in [Conversations -> Row]
  /\ assignments \in Seq(AssignmentRecord)
  /\ requests \in [Threads -> Request]

\* The two columns that say whether a conversation has an expert agree:
\* "waiting" exactly when assigned_expert_id is NULL
\* (types/conversation.ts:4-14), whatever the threads write over each other.
StatusMatchesExpert ==
  \A c \in Conversations :
     Exists(c) => (conversations[c].status = "waiting"
                     <=> conversations[c].expert = NoUser)

\* Whoever holds a conversation has an open row in expert_assignments: the
\* service inserts it before it touches the conversation, so neither a race
\* nor a crash in between leaves an expert whose history lacks the work.
HolderHasOpenAssignment ==
  \A c \in Conversations :
     conversations[c].expert # NoUser =>
        \E i \in RowsOf(c, conversations[c].expert) :
           assignments[i].status \in OpenStatuses

\* With claim and unclaim in play the claim is written before its history
\* row: the holder has a row, open or not, or the claimant's thread is just
\* about to insert it.
HolderIsRecordedOrPending ==
  \A c \in Conversations :
     conversations[c].expert # NoUser =>
        \/ RowsOf(c, conversations[c].expert) # {}
        \/ \E t \in Threads : /\ At(t, "record claim")
                              /\ requests[t].conversation = c
                              /\ requests[t].expert = conversations[c].expert

\* Whatever status a client created the conversation with, once it has an
\* expert it is "active" (the router reaching neither claim nor unclaim).
HolderMeansActive ==
  \A c \in Conversations :
     conversations[c].expert # NoUser => conversations[c].status = "active"

\* No stale write brings an assigned conversation back to "resolved", also
\* when claim, unclaim and clients' own initial statuses race.
HolderNeverResolved ==
  \A c \in Conversations :
     conversations[c].expert # NoUser => conversations[c].status # "resolved"

\* A conversation that has an expert never passes to another expert without
\* being released first ("Skip if already assigned", auto_assign_expert_job).
\* One thread keeps this; two do not.
NoTakeover ==
  [][\A c \in Conversations :
       conversations[c].expert # NoUser =>
         conversations'[c].expert \in {conversations[c].expert, NoUser}]_vars

\* An open assignment is the conversation's current one
\* (types/expert.ts:19-22), at least when no request is being served, and if
\* requests are served one after the other: unclaim, which resolves the latest
\* row whatever its status, then never leaves an open one behind, however often
\* one expert claims and releases the same conversation.
OpenAssignmentIsCurrent ==
  (\A t \in Threads : IsIdle(t)) =>
     \A i \in DOMAIN assignments :
        assignments[i].status \in OpenStatuses =>
           conversations[assignments[i].conversation].expert = assignments[i].expert

\* Every conversation a user opens ends up with an expert.
EveryConversationGetsExpert ==
  \A c \in Conversations : Exists(c) ~> conversations[c].expert # NoUser

\* The lifecycle users are promised, read off the tables.
Lifecycle == INSTANCE ConversationLifecycle WITH
  opened  <- {c \in Conversations : Exists(c)},
  holder  <- [c \in Conversations |-> conversations[c].expert],
  history <- [c \in Conversations |->
                {e \in Users : RowsOf(c, e) # {}}]

ImplementsLifecycle == Lifecycle!Spec
=============================================================================

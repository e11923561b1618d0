------------------------------ MODULE Messaging ------------------------------
(***************************************************************************)
(* The messages and the summary of one conversation.  POST /messages saves *)
(* the message, lets the LLM answer for the expert, and has the            *)
(* conversation summarised, each in a statement of its own and all from the*)
(* copy of the conversation that was loaded first.  GET /conversations     *)
(* summarises too.                                                         *)
(*                                                                         *)
(* The expert changes meanwhile, as module Assignment says; status and     *)
(* last_message_at, which POST /messages writes as well, are modelled there*)
(* and in MessageFeed.                                                     *)
(***************************************************************************)
EXTENDS Integers, Sequences, FiniteSets

CONSTANTS
  Threads,      \* Puma threads
  Users,
  Initiator,    \* who opened the conversation
  Nobody,       \* assigned_expert_id IS NULL
  MaxMessages   \* rows of messages (bound)

ASSUME PartiesAssumption == Initiator \in Users /\ Nobody \notin Users

VARIABLES
  expert,     \* conversations.assigned_expert_id
  experts,    \* history: who has ever been the expert
  messages,   \* rows of messages, in the order of their ids
  summary,    \* conversations.summary: Null, 0 if empty, or how many messages it is about
  requests,   \* requests[t]: what thread t is doing
  spoiled     \* history: a thread has died, or its summary failed or was empty

vars == <<expert, experts, messages, summary, requests, spoiled>>

MaybeUser == Users \cup {Nobody}

Null == -1

Summaries == {Null} \cup Nat

\* summary.present?
Present(s) == s > 0

Roles == {"initiator", "expert"}

\* A row of messages; an automatic reply answers the row at an index.
Message == [sender : Users, role : Roles, answers : Nat]

Steps == {"idle", "save", "ask llm", "save reply", "count", "start summary",
          "summarise", "write summary"}

\* What a thread does next and what it remembers: the sender, the expert and
\* whether the summary was blank when it loaded the conversation, its message,
\* the summary its job found and the one the LLM has written.  History: another
\* thread has written a summary while this one was making its own.
Request == [step : Steps, sender : Users, expert : MaybeUser, blank : BOOLEAN,
            question : Nat, found : Summaries, text : Nat, raced : BOOLEAN]

Idle == [step |-> "idle", sender |-> Initiator, expert |-> Nobody, blank |-> TRUE,
         question |-> 0, found |-> Null, text |-> 0, raced |-> FALSE]

Init ==
  /\ expert = Nobody
  /\ experts = {}
  /\ messages = <<>>
  /\ summary = Null
  /\ requests = [t \in Threads |-> Idle]
  /\ spoiled = FALSE

-----------------------------------------------------------------------------
At(t, step) == requests[t].step = step

Proceed(t, step) == requests' = [requests EXCEPT ![t].step = step]

Finish(t) == requests' = [requests EXCEPT ![t] = Idle]

\* GenerateSummaryJob gets the id of the conversation and nothing else.
CallJob(t) == requests' = [requests EXCEPT ![t] = [Idle EXCEPT !.step = "start summary"]]

\* There is room for a message and its reply beside those of the busy threads.
Room == Len(messages) + 2 * Cardinality({t \in Threads : ~At(t, "idle")})
          <= MaxMessages - 2

\* Mutant: anyone may write to the conversation.
LoadForMessageUnchecked(t, u) ==
  /\ At(t, "idle")
  /\ Room
  /\ requests' = [requests EXCEPT ![t] =
                    [Idle EXCEPT !.step = "save", !.sender = u, !.expert = expert,
                                 !.blank = ~Present(summary)]]
  /\ UNCHANGED <<expert, experts, messages, summary, spoiled>>

\* MessagesController#create loads the conversation and checks that u belongs
\* to it.
LoadForMessage(t, u) ==
  /\ At(t, "idle")
  /\ Room
  /\ u \in {Initiator, expert}
  /\ requests' = [requests EXCEPT ![t] =
                    [Idle EXCEPT !.step = "save", !.sender = u, !.expert = expert,
                                 !.blank = ~Present(summary)]]
  /\ UNCHANGED <<expert, experts, messages, summary, spoiled>>

\* The initiator writes as such, even as his own expert.
Role(r) == IF r.sender = Initiator THEN "initiator" ELSE "expert"

\* message.save.  An initiator who has an expert gets an automatic reply.
SaveMessage(t) ==
  LET r == requests[t] IN
  /\ At(t, "save")
  /\ messages' = Append(messages, [sender |-> r.sender, role |-> Role(r), answers |-> 0])
  /\ requests' = [requests EXCEPT
                    ![t].question = Len(messages) + 1,
                    ![t].step = IF Role(r) = "initiator" /\ r.expert # Nobody
                                  THEN "ask llm" ELSE "count"]
  /\ UNCHANGED <<expert, experts, summary, spoiled>>

\* AutoResponseService finds an answer in the expert's FAQ.
LlmReplies(t) ==
  /\ At(t, "ask llm")
  /\ Proceed(t, "save reply")
  /\ UNCHANGED <<expert, experts, messages, summary, spoiled>>

\* No FAQ, no answer in it, or no LLM.
LlmHasNoReply(t) ==
  /\ At(t, "ask llm")
  /\ Proceed(t, "count")
  /\ UNCHANGED <<expert, experts, messages, summary, spoiled>>

\* Mutant: the reply is made again from the start, as a retry would.
SaveReplyAndAskAgain(t) ==
  LET r == requests[t] IN
  /\ At(t, "save reply")
  /\ Len(messages) < MaxMessages
  /\ messages' = Append(messages, [sender |-> r.expert, role |-> "expert",
                                   answers |-> r.question])
  /\ Proceed(t, "ask llm")
  /\ UNCHANGED <<expert, experts, summary, spoiled>>

\* Mutant: the reply is made in the name of whoever is the expert by now.
SaveReplyReloaded(t) ==
  LET r == requests[t] IN
  /\ At(t, "save reply")
  /\ messages' = Append(messages, [sender |-> expert, role |-> "expert",
                                   answers |-> r.question])
  /\ Proceed(t, "count")
  /\ UNCHANGED <<expert, experts, summary, spoiled>>

\* Message.create in the name of the expert the thread knows.
SaveReply(t) ==
  LET r == requests[t] IN
  /\ At(t, "save reply")
  /\ messages' = Append(messages, [sender |-> r.expert, role |-> "expert",
                                   answers |-> r.question])
  /\ Proceed(t, "count")
  /\ UNCHANGED <<expert, experts, summary, spoiled>>

\* Mutant: a summary only after more than three messages.
CountMessagesBeyondThree(t) ==
  /\ At(t, "count")
  /\ IF Len(messages) > 3 /\ requests[t].blank
       THEN CallJob(t) ELSE Finish(t)
  /\ UNCHANGED <<expert, experts, messages, summary, spoiled>>

\* Three messages start a summary, if there was none when the thread looked.
CountMessages(t) ==
  /\ At(t, "count")
  /\ IF Len(messages) >= 3 /\ requests[t].blank
       THEN CallJob(t) ELSE Finish(t)
  /\ UNCHANGED <<expert, experts, messages, summary, spoiled>>

-----------------------------------------------------------------------------
\* A conversation that is listed or shown is summarised from the first message on.
ShowConversation(t) ==
  /\ At(t, "idle")
  /\ ~Present(summary)
  /\ messages # <<>>
  /\ CallJob(t)
  /\ UNCHANGED <<expert, experts, messages, summary, spoiled>>

\* Mutant: the job trusts the look its caller had at the summary.
StartSummaryUnchecked(t) ==
  /\ At(t, "start summary")
  /\ IF messages # <<>>
       THEN requests' = [requests EXCEPT ![t].step = "summarise", ![t].found = summary]
       ELSE Finish(t)
  /\ UNCHANGED <<expert, experts, messages, summary, spoiled>>

\* GenerateSummaryJob#perform loads the conversation again.
StartSummary(t) ==
  /\ At(t, "start summary")
  /\ IF messages # <<>> /\ ~Present(summary)
       THEN requests' = [requests EXCEPT ![t].step = "summarise", ![t].found = summary]
       ELSE Finish(t)
  /\ UNCHANGED <<expert, experts, messages, summary, spoiled>>

\* The first messages, at most twenty, go to the LLM, which may answer with no
\* text at all; when the call fails the summary is the first message.
Summarise(t) ==
  /\ At(t, "summarise")
  /\ \E text \in {0, 1, IF Len(messages) <= 20 THEN Len(messages) ELSE 20} :
        requests' = [requests EXCEPT ![t].step = "write summary", ![t].text = text]
  /\ UNCHANGED <<expert, experts, messages, summary, spoiled>>

Summarising(t) == requests[t].step \in {"summarise", "write summary"}

\* @conversation.update(summary: summary), whatever has been written meanwhile: an
\* empty text is written too, and only one equal to what the job found is not.
WriteSummary(t) ==
  LET r == requests[t] IN
  /\ At(t, "write summary")
  /\ summary' = IF r.text = r.found THEN summary ELSE r.text
  /\ requests' = [u \in Threads |->
                    IF u = t THEN Idle
                    ELSE [requests[u] EXCEPT
                            !.raced = @ \/ (Summarising(u) /\ Present(r.text))]]
  /\ spoiled' = (spoiled \/ ~Present(r.text))
  /\ UNCHANGED <<expert, experts, messages>>

\* Any error in the job is logged and the request goes on without a summary.
RescueSummary(t) ==
  /\ Summarising(t) \/ At(t, "start summary")
  /\ Finish(t)
  /\ spoiled' = TRUE
  /\ UNCHANGED <<expert, experts, messages, summary>>

-----------------------------------------------------------------------------
\* Another thread assigns the conversation, or its expert gives it back.
ChangeExpert(e) ==
  /\ expert' = e
  /\ experts' = experts \cup ({e} \ {Nobody})
  /\ UNCHANGED <<messages, summary, requests, spoiled>>

\* The server is stopped while t serves a request.
Abort(t) ==
  /\ ~At(t, "idle")
  /\ Finish(t)
  /\ spoiled' = TRUE
  /\ UNCHANGED <<expert, experts, messages, summary>>

\* The next statement of a request.
Step(t) ==
  \/ SaveMessage(t)
  \/ LlmReplies(t)
  \/ LlmHasNoReply(t)
  \/ SaveReply(t)
  \/ CountMessages(t)
  \/ StartSummary(t)
  \/ Summarise(t)
  \/ WriteSummary(t)

Next ==
  \/ \E t \in Threads :
        \/ \E u \in Users : LoadForMessage(t, u)
        \/ ShowConversation(t)
        \/ Step(t)
        \/ RescueSummary(t)
        \/ Abort(t)
  \/ \E e \in MaybeUser : ChangeExpert(e)

Spec == Init /\ [][Next]_vars

\* Puma runs every thread and LLM calls time out.
Fairness == \A t \in Threads : WF_vars(Step(t))

FairSpec == Spec /\ Fairness

-----------------------------------------------------------------------------
(* Properties.                                                             *)

TypeOK ==
  /\ expert \in MaybeUser
  /\ experts \subseteq Users
  /\ messages \in Seq(Message)
  /\ summary \in Summaries
  /\ requests \in [Threads -> Request]
  /\ spoiled \in BOOLEAN

\* Whoever's name stands on a message, typed or automatic, is the initiator or
\* has been the expert, however the conversation changed hands meanwhile.
SendersWereParties ==
  \A i \in DOMAIN messages : messages[i].sender \in {Initiator} \cup experts

\* Automatic replies are the expert's, each after a question of the initiator, and
\* no question has two, whichever threads work on the conversation and wherever
\* they die.
RepliesAnswerQuestions ==
  \A i \in DOMAIN messages : messages[i].answers # 0 =>
     /\ messages[i].role = "expert"
     /\ messages[i].answers < i
     /\ messages[messages[i].answers].role = "initiator"
     /\ \A j \in DOMAIN messages : messages[j].answers = messages[i].answers => i = j

\* A summary in place is overwritten only by threads that were making theirs when
\* it was written: however old the look at the conversation that sent a thread to
\* the job, nobody starts to summarise what has a summary.
OnlyRacersOverwrite ==
  Present(summary) => \A t \in Threads : Summarising(t) => requests[t].raced

\* A conversation of three messages gets a summary, unless a thread was stopped or
\* an attempt failed or came out empty: of the threads that saved them, the last to
\* count sees all three.
EverySummarised == Len(messages) >= 3 ~> (Present(summary) \/ spoiled)
=============================================================================

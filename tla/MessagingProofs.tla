--------------------------- MODULE MessagingProofs ---------------------------
(* Theorems about Messaging, for any number of threads and users.          *)
EXTENDS Messaging, SequenceTheorems, TLAPS

\* A thread that is to answer for an expert knows one, and a thread in a request
\* works for a party to the conversation.
ThreadsKnowParties ==
  /\ expert \in experts \cup {Nobody}
  /\ \A t \in Threads :
        /\ requests[t].sender \in {Initiator} \cup experts
        /\ requests[t].expert \in experts \cup {Nobody}
        /\ At(t, "ask llm") \/ At(t, "save reply") => requests[t].expert # Nobody

\* A thread that is to answer has a question of its own, which nobody has answered.
Answering(t) == At(t, "ask llm") \/ At(t, "save reply")

QuestionsAreOpen ==
  /\ \A t \in Threads : Answering(t) =>
        /\ requests[t].question \in DOMAIN messages
        /\ messages[requests[t].question].role = "initiator"
        /\ \A i \in DOMAIN messages : messages[i].answers # requests[t].question
  /\ \A t, u \in Threads :
        Answering(t) /\ Answering(u) /\ requests[t].question = requests[u].question
          => t = u

-----------------------------------------------------------------------------
\* Before the first request the state is typed and its threads are idle.
LEMMA MessagingInit ==
  Init => TypeOK /\ ThreadsKnowParties /\ SendersWereParties /\ QuestionsAreOpen
            /\ RepliesAnswerQuestions /\ OnlyRacersOverwrite
<1> SUFFICES ASSUME Init
             PROVE  TypeOK /\ ThreadsKnowParties /\ SendersWereParties /\ QuestionsAreOpen
                      /\ RepliesAnswerQuestions /\ OnlyRacersOverwrite
  OBVIOUS
<1>1. Idle \in Request
  BY PartiesAssumption DEF Idle, Request, Steps, MaybeUser, Summaries
<1>2. TypeOK
  <2>1. messages \in Seq(Message)
    BY DEF Init
  <2>2. requests \in [Threads -> Request]
    BY <1>1 DEF Init
  <2> QED
    BY <2>1, <2>2 DEF Init, TypeOK, MaybeUser, Summaries
<1>3. DOMAIN messages = {}
  BY DEF Init
<1>4. ThreadsKnowParties /\ QuestionsAreOpen
  BY <1>3 DEF Init, Idle, At, Answering, ThreadsKnowParties, QuestionsAreOpen
<1>5. OnlyRacersOverwrite
  BY DEF Init, Null, Present, OnlyRacersOverwrite
<1> QED
  BY <1>2, <1>3, <1>4, <1>5 DEF SendersWereParties, RepliesAnswerQuestions

\* The row a thread appends is the last one and the others stay.
LEMMA Appended ==
  ASSUME TypeOK, NEW m \in Message, messages' = Append(messages, m)
  PROVE  /\ messages' \in Seq(Message)
         /\ Len(messages) \in Nat
         /\ DOMAIN messages = 1..Len(messages)
         /\ DOMAIN messages' = 1..(Len(messages) + 1)
         /\ messages'[Len(messages) + 1] = m
         /\ \A i \in DOMAIN messages : messages'[i] = messages[i]
  BY DEF TypeOK

\* The statements of a request keep the types and what the threads know.
LEMMA PartiesStep ==
  TypeOK /\ ThreadsKnowParties /\ [Next]_vars => TypeOK' /\ ThreadsKnowParties'
<1> SUFFICES ASSUME TypeOK, ThreadsKnowParties, [Next]_vars
             PROVE  TypeOK' /\ ThreadsKnowParties'
  OBVIOUS
<1>i. Idle \in Request
  BY PartiesAssumption DEF Idle, Request, Steps, MaybeUser, Summaries
<1>1. ASSUME NEW t \in Threads, NEW u \in Users, LoadForMessage(t, u)
      PROVE  TypeOK' /\ ThreadsKnowParties'
  <2>1. [Idle EXCEPT !.step = "save", !.sender = u, !.expert = expert,
                     !.blank = ~Present(summary)] \in Request
    BY <1>i DEF Request, Steps, TypeOK, Present
  <2> QED
    BY <1>1, <2>1, PartiesAssumption
    DEF LoadForMessage, TypeOK, ThreadsKnowParties, At, Idle
<1>2. ASSUME NEW t \in Threads, SaveMessage(t) PROVE TypeOK' /\ ThreadsKnowParties'
  <2>1. [sender |-> requests[t].sender, role |-> Role(requests[t]), answers |-> 0] \in Message
    BY DEF TypeOK, Request, Role, Roles, Message
  <2>2. messages' \in Seq(Message) /\ Len(messages) \in Nat
    BY <1>2, <2>1, Appended DEF SaveMessage
  <2>3. requests' \in [Threads -> Request]
    <3> DEFINE step == IF Role(requests[t]) = "initiator" /\ requests[t].expert # Nobody
                         THEN "ask llm" ELSE "count"
               request == [requests[t] EXCEPT !.question = Len(messages) + 1, !.step = step]
    <3>1. requests' = [requests EXCEPT ![t] = request]
      BY <1>2 DEF SaveMessage, TypeOK
    <3>2. requests[t] \in Request /\ step \in Steps /\ Len(messages) + 1 \in Nat
      BY <2>2 DEF TypeOK, Steps
    <3> HIDE DEF step
    <3>3. request \in Request
      BY <3>2 DEF Request
    <3> HIDE DEF request
    <3> QED
      BY <3>1, <3>3 DEF TypeOK
  <2>4. ThreadsKnowParties'
    BY <1>2 DEF SaveMessage, TypeOK, Request, ThreadsKnowParties, At
  <2> QED
    BY <1>2, <2>2, <2>3, <2>4 DEF SaveMessage, TypeOK
<1>3. ASSUME NEW t \in Threads, SaveReply(t) PROVE TypeOK' /\ ThreadsKnowParties'
  <2>1. [sender |-> requests[t].expert, role |-> "expert",
         answers |-> requests[t].question] \in Message
    BY <1>3 DEF SaveReply, ThreadsKnowParties, TypeOK, Request, MaybeUser, Roles, Message
  <2>2. messages' \in Seq(Message)
    BY <1>3, <2>1, Appended DEF SaveReply
  <2> QED
    BY <1>3, <2>2
    DEF SaveReply, Proceed, TypeOK, Request, Steps, ThreadsKnowParties, At
<1>4. ASSUME NEW t \in Threads, NEW step \in Steps, Proceed(t, step),
             step \in {"ask llm", "save reply"} => At(t, "ask llm") \/ At(t, "save reply"),
             UNCHANGED <<expert, experts, messages, summary, spoiled>>
      PROVE  TypeOK' /\ ThreadsKnowParties'
  BY <1>4 DEF Proceed, TypeOK, Request, ThreadsKnowParties, At
<1>5. ASSUME NEW t \in Threads, Finish(t), UNCHANGED <<expert, experts, messages>>,
             summary' \in Summaries, spoiled' \in BOOLEAN
      PROVE  TypeOK' /\ ThreadsKnowParties'
  BY <1>5, <1>i DEF Finish, TypeOK, Request, ThreadsKnowParties, At, Idle
<1>6. ASSUME NEW t \in Threads, Summarise(t) PROVE TypeOK' /\ ThreadsKnowParties'
  <2>1. Len(messages) \in Nat
    BY DEF TypeOK
  <2>2. requests' \in [Threads -> Request]
    <3>1. PICK text \in {0, 1, IF Len(messages) <= 20 THEN Len(messages) ELSE 20} :
             requests' = [requests EXCEPT ![t].step = "write summary", ![t].text = text]
      BY <1>6 DEF Summarise
    <3>2. text \in Nat /\ requests[t] \in Request
      BY <2>1 DEF TypeOK
    <3> DEFINE request == [requests[t] EXCEPT !.step = "write summary", !.text = text]
    <3>3. request \in Request
      BY <3>2 DEF Request, Steps
    <3>4. requests' = [requests EXCEPT ![t] = request]
      BY <3>1 DEF TypeOK
    <3> HIDE DEF request
    <3> QED
      BY <3>3, <3>4 DEF TypeOK
  <2> QED
    <3>1. TypeOK'
      BY <1>6, <2>2 DEF Summarise, TypeOK
    <3>2. PICK text : requests' = [requests EXCEPT ![t].step = "write summary", ![t].text = text]
      BY <1>6 DEF Summarise
    <3>3. ThreadsKnowParties'
      <4>1. \A u \in Threads :
               /\ requests'[u].sender = requests[u].sender
               /\ requests'[u].expert = requests[u].expert
               /\ u # t => requests'[u].step = requests[u].step
        BY <3>2 DEF TypeOK, Request
      <4>2. requests'[t].step = "write summary"
        BY <3>2 DEF TypeOK, Request
      <4>3. UNCHANGED <<expert, experts>>
        BY <1>6 DEF Summarise
      <4> QED
        BY <4>1, <4>2, <4>3 DEF ThreadsKnowParties, At
    <3> QED
      BY <3>1, <3>3
<1>7. ASSUME NEW e \in MaybeUser, ChangeExpert(e) PROVE TypeOK' /\ ThreadsKnowParties'
  BY <1>7 DEF ChangeExpert, TypeOK, MaybeUser, ThreadsKnowParties, At
<1>8. ASSUME NEW t \in Threads, LlmReplies(t) \/ LlmHasNoReply(t)
      PROVE  TypeOK' /\ ThreadsKnowParties'
  <2>1. "save reply" \in Steps /\ "count" \in Steps
    BY DEF Steps
  <2> QED
    BY <1>8, <1>4, <2>1 DEF LlmReplies, LlmHasNoReply
<1>9. ASSUME NEW t \in Threads, NEW request \in Request,
             request.sender = Initiator, request.expert = Nobody,
             request.step \notin {"ask llm", "save reply"},
             requests' = [requests EXCEPT ![t] = request],
             UNCHANGED <<expert, experts, messages, summary, spoiled>>
      PROVE  TypeOK' /\ ThreadsKnowParties'
  BY <1>9 DEF TypeOK, ThreadsKnowParties, At
<1>11. ASSUME NEW t \in Threads, CountMessages(t) \/ ShowConversation(t) \/ StartSummary(t)
       PROVE  TypeOK' /\ ThreadsKnowParties'
  <2> DEFINE called == [Idle EXCEPT !.step = "start summary"]
             started == [requests[t] EXCEPT !.step = "summarise", !.found = summary]
  <2>1. called \in Request /\ called.sender = Initiator /\ called.expert = Nobody
          /\ called.step = "start summary"
    BY <1>i DEF Request, Steps, Idle
  <2>2. summary \in Summaries /\ spoiled \in BOOLEAN /\ requests[t] \in Request
    BY DEF TypeOK
  <2>3. ASSUME CallJob(t), UNCHANGED <<expert, experts, messages, summary, spoiled>>
        PROVE  TypeOK' /\ ThreadsKnowParties'
    <3>1. requests' = [requests EXCEPT ![t] = called]
      BY <2>3 DEF CallJob
    <3> HIDE DEF called
    <3> QED
      BY <1>9, <2>1, <2>3, <3>1
  <2>4. ASSUME requests' = [requests EXCEPT ![t].step = "summarise", ![t].found = summary],
               UNCHANGED <<expert, experts, messages, summary, spoiled>>
        PROVE  TypeOK' /\ ThreadsKnowParties'
    <3>1. requests' = [requests EXCEPT ![t] = started]
      BY <2>4 DEF TypeOK
    <3>2. /\ started \in Request
          /\ started.sender = requests[t].sender
          /\ started.expert = requests[t].expert
          /\ started.step = "summarise"
      BY <2>2 DEF Request, Steps
    <3> HIDE DEF started
    <3> QED
      BY <2>4, <3>1, <3>2 DEF TypeOK, ThreadsKnowParties, At
  <2> QED
    BY <1>5, <1>11, <2>2, <2>3, <2>4 DEF CountMessages, ShowConversation, StartSummary
<1>12. ASSUME NEW t \in Threads, RescueSummary(t) \/ Abort(t)
       PROVE  TypeOK' /\ ThreadsKnowParties'
  <2>1. summary \in Summaries
    BY DEF TypeOK
  <2> QED
    BY <1>12, <1>5, <2>1 DEF RescueSummary, Abort
<1>13. ASSUME NEW t \in Threads, WriteSummary(t) PROVE TypeOK' /\ ThreadsKnowParties'
  <2>1. requests[t].text \in Nat /\ summary \in Summaries
    BY DEF TypeOK, Request
  <2>2. /\ summary' \in Summaries /\ spoiled' \in BOOLEAN
        /\ UNCHANGED <<expert, experts, messages>>
    BY <1>13, <2>1 DEF WriteSummary, Summaries, TypeOK, Present
  <2>3. ASSUME NEW u \in Threads
        PROVE  /\ requests'[u] \in Request
               /\ requests'[u].sender \in {Initiator, requests[u].sender}
               /\ requests'[u].expert \in {Nobody, requests[u].expert}
               /\ requests'[u].step \in {"idle", requests[u].step}
               /\ requests'[u].step = "idle" \/ requests'[u].expert = requests[u].expert
    <3>1. CASE u = t
      BY <1>13, <1>i, <3>1 DEF WriteSummary, Idle
    <3>2. CASE u # t
      <4> DEFINE race == requests[u].raced \/ (Summarising(u) /\ Present(requests[t].text))
      <4>1. requests'[u] = [requests[u] EXCEPT !.raced = race]
        BY <1>13, <3>2 DEF WriteSummary
      <4>2. requests[u] \in Request /\ race \in BOOLEAN
        BY DEF TypeOK, Request, Summarising, Present
      <4> HIDE DEF race
      <4> QED
        BY <4>1, <4>2 DEF Request
    <3> QED
      BY <3>1, <3>2
  <2>4. requests' \in [Threads -> Request]
    <3>1. DOMAIN requests' = Threads /\ requests' = [u \in Threads |-> requests'[u]]
      BY <1>13 DEF WriteSummary
    <3> QED
      BY <2>3, <3>1
  <2>5. TypeOK'
    BY <2>2, <2>4 DEF TypeOK
  <2>6. ThreadsKnowParties'
    BY <2>2, <2>3 DEF ThreadsKnowParties, At
  <2> QED
    BY <2>5, <2>6
<1>10. CASE UNCHANGED vars
  BY <1>10 DEF vars, TypeOK, ThreadsKnowParties, At
<1> QED
  BY <1>1, <1>2, <1>3, <1>6, <1>7, <1>8, <1>10, <1>11, <1>12, <1>13 DEF Next, Step

\* Rows, requests and the summary keep their types: no reply is written without
\* an expert to sign it.
THEOREM MessagingTypeCorrect == Spec => []TypeOK
  BY MessagingInit, PartiesStep, PTL DEF Spec

-----------------------------------------------------------------------------
\* Who signs a row was a party when the thread loaded the conversation, and
\* nobody is taken off the list of those who have been experts.
LEMMA SendersStep ==
  TypeOK /\ ThreadsKnowParties /\ SendersWereParties /\ [Next]_vars => SendersWereParties'
<1> SUFFICES ASSUME TypeOK, ThreadsKnowParties, SendersWereParties, [Next]_vars
             PROVE  SendersWereParties'
  OBVIOUS
<1>1. ASSUME NEW m \in Message, messages' = Append(messages, m), UNCHANGED experts,
             m.sender \in {Initiator} \cup experts
      PROVE  SendersWereParties'
  <2>1. /\ DOMAIN messages = 1..Len(messages) /\ Len(messages) \in Nat
        /\ DOMAIN messages' = 1..(Len(messages) + 1)
        /\ messages'[Len(messages) + 1] = m
        /\ \A i \in DOMAIN messages : messages'[i] = messages[i]
    BY <1>1, Appended
  <2> QED
    BY <1>1, <2>1 DEF SendersWereParties
<1>2. ASSUME NEW t \in Threads, SaveMessage(t) PROVE SendersWereParties'
  <2>1. [sender |-> requests[t].sender, role |-> Role(requests[t]), answers |-> 0] \in Message
    BY DEF TypeOK, Request, Role, Roles, Message
  <2> QED
    BY <1>1, <1>2, <2>1 DEF SaveMessage, ThreadsKnowParties
<1>3. ASSUME NEW t \in Threads, SaveReply(t) PROVE SendersWereParties'
  <2>1. [sender |-> requests[t].expert, role |-> "expert",
         answers |-> requests[t].question] \in Message
    BY <1>3 DEF SaveReply, ThreadsKnowParties, TypeOK, Request, MaybeUser, Roles, Message
  <2>2. requests[t].expert \in experts
    BY <1>3 DEF SaveReply, ThreadsKnowParties
  <2> QED
    BY <1>1, <1>3, <2>1, <2>2 DEF SaveReply
<1>4. CASE UNCHANGED messages /\ experts \subseteq experts'
  BY <1>4 DEF SendersWereParties
<1> QED
  BY <1>2, <1>3, <1>4 DEF Next, Step, LoadForMessage, ShowConversation, LlmReplies,
     LlmHasNoReply, CountMessages, StartSummary, Summarise, WriteSummary, RescueSummary,
     Abort, ChangeExpert, vars

\* Nobody's name comes to stand on a message who was never a party, although the
\* check and the insert are apart and the expert changes in between.
THEOREM SendersWerePartiesAlways == Spec => []SendersWereParties
  BY MessagingInit, PartiesStep, SendersStep, PTL DEF Spec

-----------------------------------------------------------------------------
\* What an appended question or reply does to the questions that are open and to
\* the replies; every other statement leaves the rows alone and gives no thread a
\* question.
RepliesInv == QuestionsAreOpen /\ RepliesAnswerQuestions

\* A saved message is nobody's reply, and its thread's question is new.
LEMMA MessageSaved ==
  ASSUME TypeOK, RepliesInv, NEW t \in Threads, SaveMessage(t)
  PROVE  RepliesInv'
<1> DEFINE n == Len(messages) + 1
           m == [sender |-> requests[t].sender, role |-> Role(requests[t]), answers |-> 0]
<1>1. m \in Message
  BY DEF TypeOK, Request, Role, Roles, Message
<1>2. /\ Len(messages) \in Nat
      /\ DOMAIN messages = 1..Len(messages)
      /\ DOMAIN messages' = 1..n
      /\ messages'[n] = m
      /\ \A i \in DOMAIN messages : messages'[i] = messages[i]
  BY <1>1, Appended DEF SaveMessage
<1>3. \A u \in Threads : u # t => requests'[u] = requests[u]
  BY DEF SaveMessage, TypeOK
<1>4. /\ requests'[t].question = n
      /\ Answering(t)' => m.role = "initiator"
  BY DEF SaveMessage, TypeOK, Request, Answering, At
<1>5. \A u \in Threads : u # t =>
         /\ requests'[u].question = requests[u].question
         /\ Answering(u)' = Answering(u)
  BY <1>3 DEF Answering, At
<1>6. m.answers = 0
  OBVIOUS
<1>7. \A i \in DOMAIN messages : messages[i].answers \in Nat /\ messages[i].answers # n
  <2> SUFFICES ASSUME NEW i \in DOMAIN messages
               PROVE  messages[i].answers \in Nat /\ messages[i].answers # n
    OBVIOUS
  <2>1. messages[i] \in Message
    BY DEF TypeOK
  <2>2. messages[i].answers \in Nat
    BY <2>1 DEF Message
  <2> QED
    BY <1>2, <2>2 DEF RepliesInv, RepliesAnswerQuestions
<1> HIDE DEF m
<1>8. QuestionsAreOpen'
  <2>1. ASSUME NEW u \in Threads, Answering(u)'
        PROVE  /\ requests'[u].question \in DOMAIN messages'
               /\ messages'[requests'[u].question].role = "initiator"
               /\ \A i \in DOMAIN messages' : messages'[i].answers # requests'[u].question
    <3>1. CASE u = t
      <4>1. requests'[u].question = n /\ messages'[n].role = "initiator"
        BY <1>2, <1>4, <2>1, <3>1
      <4>2. \A i \in DOMAIN messages' : messages'[i].answers # n
        BY <1>2, <1>6, <1>7
      <4> QED
        BY <1>2, <4>1, <4>2
    <3>2. CASE u # t
      BY <1>2, <1>5, <1>6, <2>1, <3>2 DEF RepliesInv, QuestionsAreOpen
    <3> QED
      BY <3>1, <3>2
  <2>2. ASSUME NEW u \in Threads, NEW v \in Threads, Answering(u)', Answering(v)',
               requests'[u].question = requests'[v].question
        PROVE  u = v
    <3>1. \A w \in Threads : w # t /\ Answering(w)' =>
             /\ Answering(w)
             /\ requests'[w].question = requests[w].question
             /\ requests[w].question # n
      BY <1>2, <1>5 DEF RepliesInv, QuestionsAreOpen
    <3> QED
      BY <1>4, <2>2, <3>1 DEF RepliesInv, QuestionsAreOpen
  <2> QED
    BY <2>1, <2>2 DEF QuestionsAreOpen
<1>9. RepliesAnswerQuestions'
  BY <1>2, <1>6, <1>7 DEF RepliesInv, RepliesAnswerQuestions
<1> QED
  BY <1>8, <1>9 DEF RepliesInv

\* A saved reply closes the question of its thread, which is no other thread's.
LEMMA ReplySaved ==
  ASSUME TypeOK, ThreadsKnowParties, RepliesInv, NEW t \in Threads, SaveReply(t)
  PROVE  RepliesInv'
<1> DEFINE n == Len(messages) + 1
           q == requests[t].question
           m == [sender |-> requests[t].expert, role |-> "expert", answers |-> q]
<1>1. m \in Message
  BY DEF SaveReply, ThreadsKnowParties, TypeOK, Request, MaybeUser, Roles, Message
<1>2. /\ Len(messages) \in Nat
      /\ DOMAIN messages = 1..Len(messages)
      /\ DOMAIN messages' = 1..n
      /\ messages'[n] = m
      /\ \A i \in DOMAIN messages : messages'[i] = messages[i]
  BY <1>1, Appended DEF SaveReply
<1>3. /\ q \in DOMAIN messages
      /\ messages[q].role = "initiator"
      /\ \A i \in DOMAIN messages : messages[i].answers # q
  BY DEF SaveReply, RepliesInv, QuestionsAreOpen, Answering
<1>4. /\ ~Answering(t)'
      /\ \A u \in Threads : u # t => requests'[u] = requests[u]
  BY DEF SaveReply, Proceed, Answering, At, TypeOK, Request
<1>5. \A u \in Threads : u # t =>
         /\ requests'[u].question = requests[u].question
         /\ Answering(u)' = Answering(u)
  BY <1>4 DEF Answering, At
<1>6. m.answers = q /\ m.role = "expert"
  OBVIOUS
<1>7. \A i \in DOMAIN messages : messages[i].answers # 0 => messages[i].answers \in 1..Len(messages)
  <2> SUFFICES ASSUME NEW i \in DOMAIN messages, messages[i].answers # 0
               PROVE  messages[i].answers \in 1..Len(messages)
    OBVIOUS
  <2>1. messages[i] \in Message
    BY DEF TypeOK
  <2>2. messages[i].answers \in Nat
    BY <2>1 DEF Message
  <2> QED
    BY <1>2, <2>2 DEF RepliesInv, RepliesAnswerQuestions
<1>8. Answering(t)
  BY DEF SaveReply, Answering
<1> HIDE DEF m, q
<1>9. QuestionsAreOpen'
  <2>1. ASSUME NEW u \in Threads, Answering(u)'
        PROVE  /\ u # t /\ Answering(u)
               /\ requests'[u].question \in DOMAIN messages'
               /\ messages'[requests'[u].question].role = "initiator"
               /\ \A i \in DOMAIN messages' : messages'[i].answers # requests'[u].question
    <3>1. u # t /\ Answering(u) /\ requests'[u].question = requests[u].question
      BY <1>4, <1>5, <2>1
    <3>2. requests[u].question # q
      BY <1>8, <3>1 DEF RepliesInv, QuestionsAreOpen, q
    <3> QED
      BY <1>2, <1>6, <3>1, <3>2 DEF RepliesInv, QuestionsAreOpen
  <2>2. ASSUME NEW u \in Threads, NEW v \in Threads, Answering(u)', Answering(v)',
               requests'[u].question = requests'[v].question
        PROVE  u = v
    BY <1>5, <2>1, <2>2 DEF RepliesInv, QuestionsAreOpen
  <2> QED
    BY <2>1, <2>2 DEF QuestionsAreOpen
<1>10. RepliesAnswerQuestions'
  BY <1>2, <1>3, <1>6, <1>7 DEF RepliesInv, RepliesAnswerQuestions
<1> QED
  BY <1>9, <1>10 DEF RepliesInv

\* The other steps append nothing and open no question.
LEMMA RepliesStep ==
  TypeOK /\ ThreadsKnowParties /\ RepliesInv /\ [Next]_vars => RepliesInv'
<1> SUFFICES ASSUME TypeOK, ThreadsKnowParties, RepliesInv, [Next]_vars
             PROVE  RepliesInv'
  OBVIOUS
<1>1. ASSUME UNCHANGED messages,
             \A u \in Threads : Answering(u)' =>
                Answering(u) /\ requests'[u].question = requests[u].question
      PROVE  RepliesInv'
  <2>1. QuestionsAreOpen'
    BY <1>1 DEF RepliesInv, QuestionsAreOpen
  <2> QED
    BY <1>1, <2>1 DEF RepliesInv, RepliesAnswerQuestions
<1>2. CASE UNCHANGED <<messages, requests>>
  BY <1>1, <1>2 DEF Answering, At
<1>3. ASSUME NEW t \in Threads, UNCHANGED messages, ~Answering(t)',
             \A u \in Threads : u # t => requests'[u] = requests[u]
      PROVE  RepliesInv'
  BY <1>1, <1>3 DEF Answering, At
<1>4. ASSUME NEW t \in Threads, LlmReplies(t) PROVE RepliesInv'
  <2>1. \A u \in Threads : Answering(u)' =>
           Answering(u) /\ requests'[u].question = requests[u].question
    BY <1>4 DEF LlmReplies, Proceed, Answering, At, TypeOK, Request
  <2> QED
    BY <1>1, <1>4, <2>1 DEF LlmReplies
<1>5. ASSUME NEW t \in Threads, NEW u \in Users, LoadForMessage(t, u) PROVE RepliesInv'
  BY <1>3, <1>5 DEF LoadForMessage, Idle, Answering, At, TypeOK
<1>6. ASSUME NEW t \in Threads, NEW step, step \notin {"ask llm", "save reply"},
             Proceed(t, step), UNCHANGED messages
      PROVE  RepliesInv'
  <2>1. requests'[t].step = step /\ \A u \in Threads : u # t => requests'[u] = requests[u]
    BY <1>6 DEF Proceed, TypeOK, Request
  <2> QED
    BY <1>3, <1>6, <2>1 DEF Answering, At
<1>7. ASSUME NEW t \in Threads, Finish(t), UNCHANGED messages PROVE RepliesInv'
  <2>1. requests'[t].step = "idle" /\ \A u \in Threads : u # t => requests'[u] = requests[u]
    BY <1>7 DEF Finish, Idle, TypeOK
  <2> QED
    BY <1>3, <1>7, <2>1 DEF Answering, At
<1>8. ASSUME NEW t \in Threads, Summarise(t) PROVE RepliesInv'
  <2>1. PICK text : requests' = [requests EXCEPT ![t].step = "write summary", ![t].text = text]
    BY <1>8 DEF Summarise
  <2>2. /\ requests'[t].step = "write summary"
        /\ \A u \in Threads : u # t => requests'[u] = requests[u]
    BY <2>1 DEF TypeOK, Request
  <2>3. UNCHANGED messages
    BY <1>8 DEF Summarise
  <2> QED
    BY <1>3, <2>2, <2>3 DEF Answering, At
<1>9. ASSUME NEW t \in Threads, CallJob(t), UNCHANGED messages PROVE RepliesInv'
  BY <1>3, <1>9 DEF CallJob, Idle, Answering, At, TypeOK
<1>10. ASSUME NEW t \in Threads, StartSummary(t) PROVE RepliesInv'
  <2>1. CASE Finish(t)
    BY <1>7, <1>10, <2>1 DEF StartSummary
  <2>2. CASE requests' = [requests EXCEPT ![t].step = "summarise", ![t].found = summary]
    <3>1. /\ requests'[t].step = "summarise"
          /\ \A u \in Threads : u # t => requests'[u] = requests[u]
      BY <2>2 DEF TypeOK, Request
    <3> QED
      BY <1>3, <1>10, <3>1 DEF StartSummary, Answering, At
  <2> QED
    BY <1>10, <2>1, <2>2 DEF StartSummary
<1>11. ASSUME NEW t \in Threads, WriteSummary(t) PROVE RepliesInv'
  <2>1. ASSUME NEW u \in Threads
        PROVE  /\ Answering(u)' => Answering(u)
               /\ Answering(u)' => requests'[u].question = requests[u].question
    <3>1. CASE u = t
      BY <1>11, <3>1 DEF WriteSummary, Idle, Answering, At
    <3>2. CASE u # t
      <4> DEFINE race == requests[u].raced \/ (Summarising(u) /\ Present(requests[t].text))
      <4>1. requests'[u] = [requests[u] EXCEPT !.raced = race]
        BY <1>11, <3>2 DEF WriteSummary
      <4> HIDE DEF race
      <4>2. requests'[u].step = requests[u].step /\ requests'[u].question = requests[u].question
        BY <4>1 DEF TypeOK, Request
      <4> QED
        BY <4>2 DEF Answering, At
    <3> QED
      BY <3>1, <3>2
  <2> QED
    BY <1>1, <1>11, <2>1 DEF WriteSummary
<1>12. ASSUME NEW t \in Threads,
              ShowConversation(t) \/ LlmHasNoReply(t) \/ CountMessages(t)
                \/ RescueSummary(t) \/ Abort(t)
       PROVE  RepliesInv'
  BY <1>6, <1>7, <1>9, <1>12
  DEF ShowConversation, LlmHasNoReply, CountMessages, RescueSummary, Abort
<1> QED
  BY <1>2, <1>4, <1>5, <1>8, <1>10, <1>11, <1>12, MessageSaved, ReplySaved
  DEF Next, Step, ChangeExpert, vars

\* Every automatic reply has its own question, asked before it by the initiator,
\* for any number of threads and wherever they die.
THEOREM RepliesAnswerQuestionsAlways == Spec => []RepliesAnswerQuestions
<1>1. Init => RepliesInv
  BY MessagingInit DEF RepliesInv
<1>2. RepliesInv => RepliesAnswerQuestions
  BY DEF RepliesInv
<1> QED
  BY <1>1, <1>2, MessagingInit, PartiesStep, RepliesStep, PTL DEF Spec

-----------------------------------------------------------------------------
\* A thread starts to summarise only what has no summary, and who writes one marks
\* those that are at it.
LEMMA RacersStep ==
  TypeOK /\ OnlyRacersOverwrite /\ [Next]_vars => OnlyRacersOverwrite'
<1> SUFFICES ASSUME TypeOK, OnlyRacersOverwrite, [Next]_vars
             PROVE  OnlyRacersOverwrite'
  OBVIOUS
<1>1. ASSUME NEW t \in Threads, UNCHANGED summary,
             \A u \in Threads : u # t => requests'[u] = requests[u],
             requests'[t].step \in {"summarise", "write summary"} /\ Present(summary)
               => requests'[t].raced
      PROVE  OnlyRacersOverwrite'
  BY <1>1 DEF OnlyRacersOverwrite, Summarising
<1>2. ASSUME NEW t \in Threads, NEW step, step \notin {"summarise", "write summary"},
             requests'[t].step = step, UNCHANGED summary,
             \A u \in Threads : u # t => requests'[u] = requests[u]
      PROVE  OnlyRacersOverwrite'
  BY <1>1, <1>2
<1>3. ASSUME NEW t \in Threads, NEW step, step \notin {"summarise", "write summary"},
             Proceed(t, step), UNCHANGED summary
      PROVE  OnlyRacersOverwrite'
  BY <1>2, <1>3 DEF Proceed, TypeOK, Request
<1>4. ASSUME NEW t \in Threads, Finish(t), UNCHANGED summary PROVE OnlyRacersOverwrite'
  <2>1. /\ requests'[t].step = "idle"
        /\ \A u \in Threads : u # t => requests'[u] = requests[u]
    BY <1>4 DEF Finish, Idle, TypeOK
  <2> QED
    BY <1>2, <1>4, <2>1
<1>5. ASSUME NEW t \in Threads, CallJob(t), UNCHANGED summary PROVE OnlyRacersOverwrite'
  <2>1. /\ requests'[t].step = "start summary"
        /\ \A u \in Threads : u # t => requests'[u] = requests[u]
    BY <1>5 DEF CallJob, Idle, TypeOK
  <2> QED
    BY <1>2, <1>5, <2>1
<1>6. ASSUME NEW t \in Threads, NEW u \in Users, LoadForMessage(t, u)
      PROVE  OnlyRacersOverwrite'
  <2>1. /\ requests'[t].step = "save" /\ UNCHANGED summary
        /\ \A v \in Threads : v # t => requests'[v] = requests[v]
    BY <1>6 DEF LoadForMessage, Idle, TypeOK
  <2> QED
    BY <1>2, <2>1
<1>7. ASSUME NEW t \in Threads, SaveMessage(t) PROVE OnlyRacersOverwrite'
  <2> DEFINE step == IF Role(requests[t]) = "initiator" /\ requests[t].expert # Nobody
                       THEN "ask llm" ELSE "count"
             request == [requests[t] EXCEPT !.question = Len(messages) + 1, !.step = step]
  <2>1. requests' = [requests EXCEPT ![t] = request] /\ UNCHANGED summary
    BY <1>7 DEF SaveMessage, TypeOK
  <2>2. step \notin {"summarise", "write summary"}
    OBVIOUS
  <2> HIDE DEF step
  <2>3. request.step = step
    BY DEF TypeOK, Request
  <2> HIDE DEF request
  <2> QED
    BY <1>2, <2>1, <2>2, <2>3 DEF TypeOK
<1>8. ASSUME NEW t \in Threads, StartSummary(t) PROVE OnlyRacersOverwrite'
  <2>1. CASE Finish(t)
    BY <1>4, <1>8, <2>1 DEF StartSummary
  <2>2. CASE ~Present(summary)
               /\ requests' = [requests EXCEPT ![t].step = "summarise", ![t].found = summary]
    BY <1>8, <2>2 DEF StartSummary, OnlyRacersOverwrite
  <2> QED
    BY <1>8, <2>1, <2>2 DEF StartSummary
<1>9. ASSUME NEW t \in Threads, Summarise(t) PROVE OnlyRacersOverwrite'
  <2>1. PICK text : requests' = [requests EXCEPT ![t].step = "write summary", ![t].text = text]
    BY <1>9 DEF Summarise
  <2>2. /\ requests'[t].raced = requests[t].raced
        /\ \A u \in Threads : u # t => requests'[u] = requests[u]
    BY <2>1 DEF TypeOK, Request
  <2>3. Summarising(t) /\ UNCHANGED summary
    BY <1>9 DEF Summarise, Summarising, At
  <2> QED
    BY <1>1, <2>2, <2>3 DEF OnlyRacersOverwrite
<1>10. ASSUME NEW t \in Threads, WriteSummary(t) PROVE OnlyRacersOverwrite'
  <2> SUFFICES ASSUME Present(summary'), NEW u \in Threads,
                      requests'[u].step \in {"summarise", "write summary"}
               PROVE  requests'[u].raced
    BY DEF OnlyRacersOverwrite, Summarising
  <2>1. u # t
    BY <1>10 DEF WriteSummary, Idle
  <2> DEFINE race == requests[u].raced \/ (Summarising(u) /\ Present(requests[t].text))
  <2>2. requests'[u] = [requests[u] EXCEPT !.raced = race]
    BY <1>10, <2>1 DEF WriteSummary
  <2>3. requests'[u].raced = race /\ requests'[u].step = requests[u].step
    <3> HIDE DEF race
    <3> QED
      BY <2>2 DEF TypeOK, Request
  <2>4. Summarising(u)
    BY <2>3 DEF Summarising
  <2>5. CASE summary' = requests[t].text
    BY <2>3, <2>4, <2>5
  <2>6. CASE summary' = summary
    BY <2>3, <2>4, <2>6 DEF OnlyRacersOverwrite
  <2> QED
    BY <1>10, <2>5, <2>6 DEF WriteSummary
<1>11. ASSUME NEW t \in Threads,
              LlmReplies(t) \/ LlmHasNoReply(t) \/ SaveReply(t) \/ CountMessages(t)
                \/ ShowConversation(t) \/ RescueSummary(t) \/ Abort(t)
       PROVE  OnlyRacersOverwrite'
  BY <1>3, <1>4, <1>5, <1>11
  DEF LlmReplies, LlmHasNoReply, SaveReply, CountMessages, ShowConversation,
      RescueSummary, Abort
<1>12. CASE UNCHANGED <<summary, requests>>
  BY <1>12 DEF OnlyRacersOverwrite, Summarising
<1> QED
  BY <1>6, <1>7, <1>8, <1>9, <1>10, <1>11, <1>12 DEF Next, Step, ChangeExpert, vars

\* For any number of threads a summary in place is safe from all but those that
\* were making theirs when it was written.
THEOREM OnlyRacersOverwriteAlways == Spec => []OnlyRacersOverwrite
  BY MessagingInit, PartiesStep, RacersStep, PTL DEF Spec
=============================================================================

--------------------------- MODULE ExpertDeskProofs ---------------------------
(* Theorems about ExpertDesk, for any number of users and requests.         *)
EXTENDS ExpertDesk, TLAPS

\* The parts of TypeOK, for steps that need no more.
LEMMA DeskTypes ==
  ASSUME TypeOK
  PROVE  /\ profiles \in [Users -> Text \cup {NoAccount, NoProfile}]
         /\ user \in Users \cup {Nobody}
         /\ shown \in Shown \cup {NotLoaded}
         /\ panel \in Panel
         /\ requests \in [Requests -> Request]
         /\ late \in BOOLEAN
         /\ careless \subseteq Users
  BY DEF TypeOK

\* A request that is not free is somebody's.
LEMMA RequestOwner ==
  ASSUME TypeOK, NEW r \in Requests, requests[r] # Free
  PROVE  /\ requests[r] \in Request
         /\ requests[r].user \in Users
         /\ requests[r].text \in Text
  BY DEF TypeOK, Request

\* What a request that is sent looks like.
LEMMA SentTyped ==
  ASSUME NEW kind \in {"load", "save"}, NEW u \in Users, NEW text \in Text
  PROVE  /\ Sent(kind, u, text) \in Request
         /\ Sent(kind, u, text).kind = kind
         /\ Sent(kind, u, text).user = u
         /\ Sent(kind, u, text).text = text
         /\ ~Sent(kind, u, text).answered
         /\ u # Nobody
         /\ Sent(kind, u, text) # Free
  BY NobodyAssumption DEF Request, Sent, Free

\* Empty is a text, and a draft is one: a profile that is shown has a text.
LEMMA DraftTyped ==
  /\ Empty \in Text
  /\ TypeOK => Draft \in Text
<1>1. Empty \in Text
  BY DEF Empty, Text
<1>2. ASSUME TypeOK, shown # NotLoaded PROVE shown.text \in Text
  BY <1>2 DEF TypeOK, Shown
<1> QED
  BY <1>1, <1>2 DEF Draft

\* What cancelling half-way makes of the panel: the bio of the profile shown is in
\* the draft, which is the user's own only if it was and the profile is his.
LEMMA HalfCancelled ==
  ASSUME TypeOK, CancelEdit, shown # NotLoaded, ~shown.list
  PROVE  /\ panel' \in Panel
         /\ panel'.draft.by = shown.text.by
         /\ panel'.own => ShowsOwn
<1> DEFINE draft == [panel.draft EXCEPT !.by = shown.text.by]
           own == panel.own /\ ShowsOwn
<1>1. panel \in Panel /\ shown.text \in Text
  BY DEF TypeOK, Shown
<1>2. draft \in Text /\ draft.by = shown.text.by
  BY <1>1 DEF Panel, Text
<1>3. own \in BOOLEAN
  BY <1>1 DEF Panel, ShowsOwn
<1>4. panel' = [panel EXCEPT !.draft = draft, !.own = own]
  BY DEF CancelEdit
<1>5. own => ShowsOwn
  OBVIOUS
<1> HIDE DEF draft, own
<1>6. panel' \in Panel /\ panel'.draft = draft /\ panel'.own = own
  BY <1>1, <1>2, <1>3, <1>4 DEF Panel
<1> QED
  BY <1>2, <1>5, <1>6

\* Free is a request of nobody.
LEMMA FreeTyped == Free \in Request /\ Free.user = Nobody
  BY DraftTyped DEF Free, Sent, Request

\* Requests that are dropped or lost stay requests of their users.
LEMMA ForgottenTyped ==
  ASSUME NEW q \in Request, q.user = Nobody <=> q = Free
  PROVE  /\ Forgotten(q) \in Request
         /\ Forgotten(q).user = Nobody <=> Forgotten(q) = Free
         /\ Forgotten(q) # Free =>
              /\ q.kind \in {"save", "lost"}
              /\ Forgotten(q).kind = "lost"
              /\ Forgotten(q).user = q.user
              /\ Forgotten(q).text = q.text
<1>1. CASE q.kind \in {"save", "lost"} /\ ~q.answered
  <2>1. Forgotten(q) = [q EXCEPT !.kind = "lost"]
    BY <1>1 DEF Forgotten
  <2>2. /\ Forgotten(q) \in Request
        /\ Forgotten(q).kind = "lost"
        /\ Forgotten(q).user = q.user
        /\ Forgotten(q).text = q.text
    BY <2>1 DEF Request
  <2>3. q # Free
    BY <1>1 DEF Free, Sent
  <2>4. Forgotten(q) # Free
    BY <2>2 DEF Free, Sent
  <2> QED
    BY <1>1, <2>2, <2>3, <2>4
<1>2. CASE ~(q.kind \in {"save", "lost"} /\ ~q.answered)
  <2>1. Forgotten(q) = Free
    BY <1>2 DEF Forgotten
  <2> QED
    BY <2>1, FreeTyped
<1> QED
  BY <1>1, <1>2

-----------------------------------------------------------------------------
\* The requests keep their types when one is replaced by another of somebody's,
\* or freed.
LEMMA RequestsKeepType ==
  ASSUME TypeOK, NEW r \in Requests, NEW q \in Request,
         q.user = Nobody <=> q = Free,
         requests' = [requests EXCEPT ![r] = q]
  PROVE  /\ requests' \in [Requests -> Request]
         /\ \A s \in Requests : requests'[s].user = Nobody <=> requests'[s] = Free
<1>1. requests \in [Requests -> Request]
      /\ \A s \in Requests : requests[s].user = Nobody <=> requests[s] = Free
  BY DEF TypeOK
<1>2. \A s \in Requests : requests'[s] = IF s = r THEN q ELSE requests[s]
  BY <1>1
<1>3. requests' \in [Requests -> Request]
  BY <1>1
<1> QED
  BY <1>1, <1>2, <1>3

\* The same for a request that is sent.
LEMMA SendKeepsType ==
  ASSUME TypeOK, NEW r \in Requests, NEW kind \in {"load", "save"},
         NEW u \in Users, NEW text \in Text, Send(r, kind, u, text)
  PROVE  /\ requests' \in [Requests -> Request]
         /\ \A s \in Requests : requests'[s].user = Nobody <=> requests'[s] = Free
<1> DEFINE q == Sent(kind, u, text)
<1>1. q \in Request /\ q # Free /\ q.user # Nobody
  BY SentTyped
<1>2. requests' = [requests EXCEPT ![r] = q]
  BY DEF Send
<1> HIDE DEF q
<1> QED
  BY <1>1, <1>2, RequestsKeepType

\* An answer keeps a request's kind and user.
LEMMA AnsweredSave ==
  ASSUME NEW q \in Request
  PROVE  /\ [q EXCEPT !.answered = TRUE] \in Request
         /\ [q EXCEPT !.answered = TRUE].kind = q.kind
         /\ [q EXCEPT !.answered = TRUE].user = q.user
         /\ [q EXCEPT !.answered = TRUE].text = q.text
  BY DEF Request

LEMMA AnsweredLoad ==
  ASSUME NEW q \in Request, NEW text \in Text
  PROVE  /\ [q EXCEPT !.answered = TRUE, !.text = text] \in Request
         /\ [q EXCEPT !.answered = TRUE, !.text = text].kind = q.kind
         /\ [q EXCEPT !.answered = TRUE, !.text = text].user = q.user
         /\ [q EXCEPT !.answered = TRUE, !.text = text].text = text
  BY DEF Request

\* What answering a request makes of it: one of the same kind and user with a
\* text that is what the row holds, or nothing when its page has gone.
LEMMA AnsweredRequest ==
  ASSUME TypeOK, NEW r \in Requests, AnswerLoad(r) \/ AnswerSave(r)
  PROVE  \E q \in Request :
           /\ requests' = [requests EXCEPT ![r] = q]
           /\ requests[r].kind \in {"load", "save", "lost"}
           /\ requests[r].user \in Users
           /\ \/ q = Free /\ requests[r].kind = "lost"
              \/ /\ q.kind = requests[r].kind /\ q.kind \in {"load", "save"}
                 /\ q.user = requests[r].user
                 /\ profiles[q.user] \in Text
                 /\ q.text = IF q.kind = "load" THEN profiles[q.user]
                             ELSE requests[r].text
<1>1. requests \in [Requests -> Request]
  BY DEF TypeOK
<1>2. /\ requests[r].kind \in {"load", "save", "lost"}
      /\ profiles[requests[r].user] \in Text
  BY DEF AnswerLoad, AnswerSave
<1>3. /\ requests[r] \in Request
      /\ requests[r].user \in Users
      /\ requests[r].text \in Text
  BY <1>2, RequestOwner DEF Free, Sent
<1>4. CASE AnswerLoad(r)
  <2>1. requests[r].kind = "load" /\
        requests' = [requests EXCEPT ![r] = [requests[r] EXCEPT
          !.answered = TRUE, !.text = profiles[requests[r].user]]]
    BY <1>4, <1>1 DEF AnswerLoad
  <2> DEFINE q == [requests[r] EXCEPT !.answered = TRUE,
                                      !.text = profiles[requests[r].user]]
  <2>2. /\ q \in Request
        /\ q.kind = requests[r].kind /\ q.user = requests[r].user
        /\ q.text = profiles[requests[r].user]
    BY <1>2, <1>3, AnsweredLoad
  <2>3. requests' = [requests EXCEPT ![r] = q]
    BY <2>1
  <2> HIDE DEF q
  <2> QED
    BY <1>2, <1>3, <2>1, <2>2, <2>3
<1>5. CASE AnswerSave(r) /\ requests[r].kind = "save"
  <2>1. requests' = [requests EXCEPT ![r].answered = TRUE]
    BY <1>5 DEF AnswerSave
  <2>2. requests' = [requests EXCEPT ![r] = [requests[r] EXCEPT !.answered = TRUE]]
    BY <1>1, <2>1
  <2> DEFINE q == [requests[r] EXCEPT !.answered = TRUE]
  <2>3. /\ q \in Request
        /\ q.kind = requests[r].kind /\ q.user = requests[r].user
        /\ q.text = requests[r].text
    BY <1>3, AnsweredSave
  <2>4. requests' = [requests EXCEPT ![r] = q]
    BY <2>2
  <2> HIDE DEF q
  <2> QED
    BY <1>2, <1>3, <1>5, <2>3, <2>4
<1>6. CASE AnswerSave(r) /\ requests[r].kind # "save"
  <2>1. requests[r].kind = "lost" /\ requests' = [requests EXCEPT ![r] = Free]
    BY <1>6 DEF AnswerSave
  <2> QED
    BY <1>2, <1>3, <2>1, FreeTyped
<1> QED
  BY <1>4, <1>5, <1>6

-----------------------------------------------------------------------------
\* Before anybody registers the state is typed.
LEMMA DeskTypeInit == Init => TypeOK
<1>1. Closed \in Panel
  BY DraftTyped DEF Closed, Panel
<1> QED
  BY <1>1, FreeTyped DEF Init, TypeOK

\* Every step keeps the types.
LEMMA DeskTypeStep == TypeOK /\ [Next]_vars => TypeOK'
<1> SUFFICES ASSUME TypeOK, [Next]_vars PROVE TypeOK'
  OBVIOUS
<1>t. /\ profiles \in [Users -> Text \cup {NoAccount, NoProfile}]
      /\ user \in Users \cup {Nobody}
      /\ shown \in Shown \cup {NotLoaded}
      /\ panel \in Panel
      /\ late \in BOOLEAN
      /\ careless \subseteq Users
  BY DeskTypes
<1>r. /\ requests \in [Requests -> Request]
      /\ \A s \in Requests : requests[s].user = Nobody <=> requests[s] = Free
  BY DEF TypeOK
<1>c. Closed \in Panel
  BY DraftTyped DEF Closed, Panel
<1>1. ASSUME NEW r \in Requests, NEW u \in Users, Register(u, r) \/ Login(u, r)
      PROVE  TypeOK'
  <2>1. /\ Send(r, "load", u, Empty) /\ user' = u /\ late' = FALSE
        /\ UNCHANGED <<shown, panel, careless>>
    BY <1>1 DEF Register, Login, Start
  <2>2. /\ requests' \in [Requests -> Request]
        /\ \A s \in Requests : requests'[s].user = Nobody <=> requests'[s] = Free
    BY <2>1, DraftTyped, SendKeepsType
  <2>3. [by |-> u, links |-> FALSE] \in Text
    BY DEF Text
  <2>4. profiles' \in [Users -> Text \cup {NoAccount, NoProfile}]
    BY <1>1, <1>t, <2>3 DEF Register, Login
  <2> QED
    BY <1>t, <2>1, <2>2, <2>4 DEF TypeOK
<1>2. ASSUME NEW u \in Users, RegisterHalf(u) PROVE TypeOK'
  BY <1>2, <1>t, <1>r DEF RegisterHalf, TypeOK
<1>3. CASE Logout
  BY <1>3, <1>t, <1>r, <1>c DEF Logout, TypeOK
<1>4. CASE Reload
  <2>1. \A s \in Requests :
          /\ Forgotten(requests[s]) \in Request
          /\ Forgotten(requests[s]).user = Nobody <=> Forgotten(requests[s]) = Free
    BY <1>r, ForgottenTyped
  <2>f. \A s \in Requests : Forgotten(requests[s]) \in Request
    BY <2>1
  <2>2. /\ requests' \in [Requests -> Request]
        /\ \A s \in Requests : requests'[s].user = Nobody <=> requests'[s] = Free
    <3>1. CASE requests' = [r \in Requests |-> Forgotten(requests[r])]
      <4>1. \A s \in Requests : requests'[s] = Forgotten(requests[s])
        BY <3>1
      <4>2. requests' \in [Requests -> Request]
        BY <2>f, <3>1
      <4> QED
        BY <2>1, <4>1, <4>2
    <3>2. ASSUME user # Nobody, NEW r \in Requests,
                 requests' = [s \in Requests |->
                   IF s = r THEN Sent("load", user, Empty)
                   ELSE Forgotten(requests[s])]
          PROVE  /\ requests' \in [Requests -> Request]
                 /\ \A s \in Requests : requests'[s].user = Nobody <=> requests'[s] = Free
      <4>1. /\ Sent("load", user, Empty) \in Request
            /\ Sent("load", user, Empty) # Free
            /\ Sent("load", user, Empty).user # Nobody
        BY <1>t, <3>2, SentTyped, DraftTyped
      <4>2. \A s \in Requests :
              requests'[s] = IF s = r THEN Sent("load", user, Empty)
                             ELSE Forgotten(requests[s])
        BY <3>2
      <4>3. requests' \in [Requests -> Request]
        BY <2>f, <3>2, <4>1
      <4> QED
        BY <2>1, <4>1, <4>2, <4>3
    <3> QED
      BY <1>4, <3>1, <3>2 DEF Reload
  <2> QED
    BY <1>4, <1>t, <1>c, <2>2 DEF Reload, TypeOK
<1>5. CASE Edit
  <2>1. panel' \in Panel
    <3>1. \A l \in BOOLEAN : user # Nobody => [by |-> user, links |-> l] \in Text
      BY <1>t DEF Text
    <3>2. Draft \in Text /\ ShowsOwn \in BOOLEAN
      BY DraftTyped DEF ShowsOwn
    <3>3. CASE Open \/ Close
      <4>1. PICK own \in BOOLEAN : ShowsOwn = own
        BY <3>2
      <4>2. [open |-> TRUE, editing |-> FALSE, draft |-> Draft, own |-> own] \in Panel
        BY <3>2 DEF Panel
      <4> QED
        BY <1>c, <3>3, <4>1, <4>2 DEF Open, Close
    <3>4. CASE ToggleEditing
      BY <1>t, <3>4 DEF ToggleEditing, Panel
    <3>5. CASE CancelEdit
      <4>1. CASE shown # NotLoaded /\ ~shown.list
        BY <3>5, <4>1, HalfCancelled
      <4>2. CASE ~(shown # NotLoaded /\ ~shown.list)
        BY <1>t, <3>2, <3>5, <4>2 DEF CancelEdit, Panel
      <4> QED
        BY <4>1, <4>2
    <3>6. ASSUME NEW l \in BOOLEAN, Write(l) PROVE panel' \in Panel
      BY <1>t, <3>1, <3>6 DEF Write, Working, Panel
    <3> QED
      BY <1>5, <3>3, <3>4, <3>5, <3>6 DEF Edit
  <2> QED
    BY <1>5, <1>t, <1>r, <2>1 DEF Edit, Open, Close, ToggleEditing, CancelEdit,
       Write, TypeOK
<1>6. ASSUME NEW r \in Requests, Save(r) PROVE TypeOK'
  <2>1. user \in Users /\ panel.draft \in Text
    BY <1>6, <1>t DEF Save, Working, Panel
  <2>2. /\ requests' \in [Requests -> Request]
        /\ \A s \in Requests : requests'[s].user = Nobody <=> requests'[s] = Free
    BY <1>6, <2>1, SendKeepsType DEF Save
  <2>3. panel' \in Panel
    BY <1>6, <1>t DEF Save, Panel
  <2> QED
    BY <1>6, <1>t, <2>1, <2>2, <2>3 DEF Save, TypeOK
<1>7. ASSUME NEW r \in Requests, AnswerLoad(r) \/ AnswerSave(r) PROVE TypeOK'
  <2>1. PICK q \in Request :
          /\ requests' = [requests EXCEPT ![r] = q]
          /\ requests[r].user \in Users
          /\ q = Free \/ q.user = requests[r].user
    BY <1>7, AnsweredRequest
  <2>2. q.user = Nobody <=> q = Free
    BY <2>1, FreeTyped, NobodyAssumption
  <2>3. /\ requests' \in [Requests -> Request]
        /\ \A s \in Requests : requests'[s].user = Nobody <=> requests'[s] = Free
    BY <2>1, <2>2, RequestsKeepType
  <2>4. requests[r].text \in Text
    BY <1>r DEF Request
  <2>5. profiles' \in [Users -> Text \cup {NoAccount, NoProfile}]
    BY <1>7, <1>t, <2>1, <2>4 DEF AnswerLoad, AnswerSave
  <2> QED
    BY <1>7, <1>t, <2>3, <2>5 DEF AnswerLoad, AnswerSave, TypeOK
<1>8. ASSUME NEW r \in Requests, DeliverLoad(r) \/ DeliverSave(r) \/ Fail(r)
      PROVE  TypeOK'
  <2>1. /\ requests' = [requests EXCEPT ![r] = Free]
        /\ requests[r] # Free
    BY <1>8 DEF DeliverLoad, DeliverSave, Deliver, Fail, Free, Sent
  <2>2. /\ requests' \in [Requests -> Request]
        /\ \A s \in Requests : requests'[s].user = Nobody <=> requests'[s] = Free
    BY <2>1, FreeTyped, RequestsKeepType
  <2>3. /\ requests[r].user \in Users /\ requests[r].text \in Text
        /\ requests[r].text.links \in BOOLEAN
    BY <2>1, RequestOwner DEF Text
  <2>4. shown' \in Shown \cup {NotLoaded}
    <3>1. \A l \in BOOLEAN :
            [owner |-> requests[r].user, text |-> requests[r].text, list |-> l] \in Shown
      BY <2>3 DEF Shown
    <3> QED
      BY <1>8, <1>t, <2>3, <3>1 DEF DeliverLoad, DeliverSave, Deliver, Fail
  <2> QED
    BY <1>8, <1>t, <2>2, <2>4 DEF DeliverLoad, DeliverSave, Deliver, Fail, TypeOK
<1>9. CASE UNCHANGED vars
  BY <1>9, <1>t, <1>r DEF vars, TypeOK
<1> QED
  BY <1>1, <1>2, <1>3, <1>4, <1>5, <1>6, <1>7, <1>8, <1>9 DEF Next, Session, Respond

\* Every reachable state is well typed, for any number of users and requests.
THEOREM DeskTypeCorrect == Spec => []TypeOK
  BY DeskTypeInit, DeskTypeStep, PTL DEF Spec
-----------------------------------------------------------------------------
\* Another user's data is shown only while a load of one's own is in flight, or
\* after one has failed: logging in sends the load, and an answer to it shows
\* one's own.
LEMMA OthersDataStep == TypeOK /\ OthersDataExcused /\ [Next]_vars => OthersDataExcused'
<1> SUFFICES ASSUME TypeOK, OthersDataExcused, [Next]_vars,
                    user' # Nobody, shown' # NotLoaded, shown'.owner # user', ~late'
             PROVE  \E s \in Requests : requests'[s].kind = "load"
                                        /\ requests'[s].user = user'
  BY DEF OthersDataExcused
<1>t. /\ requests \in [Requests -> Request]
      /\ \A s \in Requests : requests[s].kind = "load" => requests[s] # Free
  BY DEF TypeOK, Free, Sent
<1>i. ASSUME user' = user, shown' = shown, late' = late
      PROVE  \E s \in Requests : requests[s].kind = "load" /\ requests[s].user = user'
  BY <1>i DEF OthersDataExcused
<1>1. ASSUME NEW r \in Requests, NEW u \in Users, Register(u, r) \/ Login(u, r)
      PROVE  \E s \in Requests : requests'[s].kind = "load" /\ requests'[s].user = user'
  <2>1. /\ requests' = [requests EXCEPT ![r] = Sent("load", u, Empty)]
        /\ user' = u
    BY <1>1 DEF Register, Login, Start, Send
  <2>2. requests'[r] = Sent("load", u, Empty)
    BY <1>t, <2>1
  <2> QED
    BY <2>1, <2>2, SentTyped, DraftTyped
<1>2. CASE Logout \/ Reload
  BY <1>2 DEF Logout, Reload
<1>3. ASSUME NEW r \in Requests, Save(r)
      PROVE  \E s \in Requests : requests'[s].kind = "load" /\ requests'[s].user = user'
  <2>1. /\ requests[r] = Free /\ \E q : requests' = [requests EXCEPT ![r] = q]
        /\ UNCHANGED <<user, shown, late>>
    BY <1>3 DEF Save, Send
  <2> QED
    BY <1>i, <1>t, <2>1
<1>4. ASSUME NEW r \in Requests, AnswerLoad(r) \/ AnswerSave(r)
      PROVE  \E s \in Requests : requests'[s].kind = "load" /\ requests'[s].user = user'
  <2>1. PICK q \in Request :
          /\ requests' = [requests EXCEPT ![r] = q]
          /\ requests[r].kind = "load" =>
               q.kind = "load" /\ q.user = requests[r].user
    BY <1>4, AnsweredRequest
  <2>2. UNCHANGED <<user, shown, late>>
    BY <1>4 DEF AnswerLoad, AnswerSave
  <2> QED
    BY <1>i, <1>t, <2>1, <2>2
<1>5. ASSUME NEW r \in Requests, DeliverLoad(r) \/ DeliverSave(r)
      PROVE  FALSE
  <2>1. /\ shown'.owner = requests[r].user /\ user' = user
        /\ late' = (late \/ requests[r].user # user)
    BY <1>5 DEF DeliverLoad, DeliverSave, Deliver
  <2> QED
    BY <2>1
<1>6. ASSUME NEW r \in Requests, Fail(r)
      PROVE  \E s \in Requests : requests'[s].kind = "load" /\ requests'[s].user = user'
  <2>1. /\ requests[r].kind # "load" /\ ~late
        /\ requests' = [requests EXCEPT ![r] = Free]
        /\ UNCHANGED <<user, shown>>
    BY <1>6 DEF Fail
  <2> QED
    BY <1>t, <2>1 DEF OthersDataExcused
<1>7. CASE UNCHANGED <<user, shown, requests, late>>
  BY <1>7, <1>i
<1> QED
  BY <1>1, <1>2, <1>3, <1>4, <1>5, <1>6, <1>7
  DEF Next, Session, Respond, Edit, RegisterHalf, Open, Close, ToggleEditing,
      CancelEdit, Write, vars

\* Whoever logs in sees another user's data only with one of those excuses.
THEOREM OthersDataExcusedAlways == Spec => []OthersDataExcused
<1>1. Init => OthersDataExcused
  BY DEF Init, OthersDataExcused
<1> QED
  BY <1>1, DeskTypeInit, DeskTypeStep, OthersDataStep, PTL DEF Spec

-----------------------------------------------------------------------------
\* Text is u's own, or u has saved something that need not be.
Fine(u, text) == text.by = u \/ u \in careless

\* Rows, requests, what is shown, and a draft that was taken from the user's own
\* profile, hold texts of those they belong to, unless careless.
TextsFine ==
  /\ \A u \in Users : profiles[u] \in Text => Fine(u, profiles[u])
  /\ \A r \in Requests :
       \/ requests[r].kind \in {"save", "lost"}
       \/ requests[r].kind = "load" /\ requests[r].answered
       => Fine(requests[r].user, requests[r].text)
  /\ shown # NotLoaded => Fine(shown.owner, shown.text)
  /\ panel.own => user # Nobody /\ Fine(user, panel.draft)

\* Texts keep being their owners' as long as panels are closed when users
\* change: a save that need not be the user's own makes him careless, and every
\* other text is copied from one that was fine to where its owner's texts are.
LEMMA TextsFineStep == TypeOK /\ TextsFine /\ [Next]_vars => TextsFine'
<1> SUFFICES ASSUME TypeOK, TextsFine, [Next]_vars PROVE TextsFine'
  OBVIOUS
<1>t. /\ profiles \in [Users -> Text \cup {NoAccount, NoProfile}]
      /\ user \in Users \cup {Nobody}
      /\ requests \in [Requests -> Request]
      /\ panel \in Panel
      /\ careless \subseteq Users
  BY DeskTypes
<1>p. \A u \in Users : profiles[u] \in Text => Fine(u, profiles[u])
  BY DEF TextsFine
<1>q. \A r \in Requests :
        \/ requests[r].kind \in {"save", "lost"}
        \/ requests[r].kind = "load" /\ requests[r].answered
        => Fine(requests[r].user, requests[r].text)
  BY DEF TextsFine
<1>s. shown # NotLoaded => Fine(shown.owner, shown.text)
  BY DEF TextsFine
<1>d. panel.own => user # Nobody /\ Fine(user, panel.draft)
  BY DEF TextsFine
<1>c. ~Closed.own
  BY DEF Closed
<1>1. ASSUME NEW r \in Requests, NEW u \in Users, Register(u, r) \/ Login(u, r)
      PROVE  TextsFine'
  <2>1. /\ requests' = [requests EXCEPT ![r] = Sent("load", u, Empty)]
        /\ user = Nobody /\ UNCHANGED <<shown, panel, careless>>
    BY <1>1 DEF Register, Login, Start, Send
  <2>2. ~panel.own
    BY <1>d, <2>1
  <2>3. \A x \in Users : profiles'[x] \in Text =>
          profiles'[x].by = x \/ profiles'[x] = profiles[x]
    BY <1>1, <1>t DEF Register, Login
  <2>4. \A s \in Requests :
          requests'[s] = IF s = r THEN Sent("load", u, Empty) ELSE requests[s]
    BY <1>t, <2>1
  <2>5. Sent("load", u, Empty).kind = "load" /\ ~Sent("load", u, Empty).answered
    BY SentTyped, DraftTyped
  <2> QED
    BY <1>p, <1>q, <1>s, <2>1, <2>2, <2>3, <2>4, <2>5 DEF TextsFine, Fine
<1>2. ASSUME NEW u \in Users, RegisterHalf(u) PROVE TextsFine'
  BY <1>2, <1>t, <1>p, <1>q, <1>s, <1>d, ProfileAssumption
  DEF RegisterHalf, TextsFine, Fine
<1>3. CASE Logout
  BY <1>3, <1>p, <1>q, <1>s, <1>c DEF Logout, TextsFine, Fine
<1>4. CASE Reload
  <2>1. ASSUME NEW s \in Requests, Forgotten(requests[s]) # Free
        PROVE  /\ Forgotten(requests[s]).kind = "lost"
               /\ Fine(Forgotten(requests[s]).user, Forgotten(requests[s]).text)
    <3>1. requests[s] \in Request /\ (requests[s].user = Nobody <=> requests[s] = Free)
      BY DEF TypeOK
    <3>2. /\ requests[s].kind \in {"save", "lost"}
          /\ Forgotten(requests[s]).kind = "lost"
          /\ Forgotten(requests[s]).user = requests[s].user
          /\ Forgotten(requests[s]).text = requests[s].text
      BY <2>1, <3>1, ForgottenTyped
    <3> QED
      BY <1>q, <3>2
  <2>2. ASSUME NEW s \in Requests
        PROVE  \/ requests'[s] = Forgotten(requests[s])
               \/ user \in Users /\ requests'[s] = Sent("load", user, Empty)
    BY <1>4, <1>t DEF Reload
  <2>3. ASSUME NEW s \in Requests,
               \/ requests'[s].kind \in {"save", "lost"}
               \/ requests'[s].kind = "load" /\ requests'[s].answered
        PROVE  Fine(requests'[s].user, requests'[s].text)
    <3>1. CASE requests'[s] = Forgotten(requests[s])
      <4>1. Forgotten(requests[s]) # Free
        BY <2>3, <3>1 DEF Free, Sent
      <4> QED
        BY <2>1, <3>1, <4>1
    <3>2. CASE user \in Users /\ requests'[s] = Sent("load", user, Empty)
      BY <2>3, <3>2, SentTyped, DraftTyped
    <3> QED
      BY <2>2, <3>1, <3>2
  <2>4. /\ shown' = NotLoaded /\ panel' = Closed
        /\ UNCHANGED <<profiles, careless>>
    BY <1>4 DEF Reload
  <2> QED
    BY <1>p, <1>c, <2>3, <2>4 DEF TextsFine, Fine
<1>5. CASE Edit
  <2>1. /\ UNCHANGED <<profiles, user, shown, requests, careless>>
    BY <1>5 DEF Edit, Open, Close, ToggleEditing, CancelEdit, Write
  <2>2. ShowsOwn /\ user # Nobody => Fine(user, Draft)
    BY <1>s DEF ShowsOwn, Draft
  <2>3. panel'.own => user # Nobody /\ Fine(user, panel'.draft)
    <3>1. CASE Open
      BY <2>2, <3>1 DEF Open, Working
    <3>2. CASE Close
      BY <1>c, <3>2 DEF Close
    <3>3. CASE ToggleEditing
      BY <1>t, <1>d, <3>3 DEF ToggleEditing, Panel
    <3>4. CASE CancelEdit
      <4>1. CASE shown # NotLoaded /\ ~shown.list
        <5>1. user # Nobody /\ UNCHANGED careless
          BY <3>4 DEF CancelEdit, Working
        <5>2. ShowsOwn => Fine(user, shown.text)
          BY <1>s, <4>1 DEF ShowsOwn
        <5> QED
          BY <3>4, <4>1, <5>1, <5>2, HalfCancelled DEF Fine
      <4>2. CASE ~(shown # NotLoaded /\ ~shown.list)
        BY <1>t, <2>2, <3>4, <4>2 DEF CancelEdit, Working, Panel
      <4> QED
        BY <4>1, <4>2
    <3>5. ASSUME NEW l \in BOOLEAN, Write(l)
          PROVE  panel'.own => user # Nobody /\ Fine(user, panel'.draft)
      BY <1>t, <3>5 DEF Write, Working, Panel, Fine
    <3> QED
      BY <1>5, <3>1, <3>2, <3>3, <3>4, <3>5 DEF Edit
  <2> QED
    BY <1>p, <1>q, <1>s, <2>1, <2>3 DEF TextsFine, Fine
<1>6. ASSUME NEW r \in Requests, Save(r) PROVE TextsFine'
  <2>1. /\ requests' = [requests EXCEPT ![r] = Sent("save", user, panel.draft)]
        /\ user \in Users /\ panel.draft \in Text
        /\ careless' = IF panel.own THEN careless ELSE careless \cup {user}
        /\ panel' = [panel EXCEPT !.editing = FALSE]
        /\ UNCHANGED <<profiles, user, shown>>
    BY <1>6, <1>t DEF Save, Send, Working, Panel
  <2>2. panel'.own = panel.own /\ panel'.draft = panel.draft
    BY <1>t, <2>1 DEF Panel
  <2>3. /\ Fine(user, panel.draft)'
        /\ careless \subseteq careless'
    BY <1>d, <2>1, <2>2 DEF Fine
  <2>4. \A s \in Requests : requests'[s] =
          IF s = r THEN Sent("save", user, panel.draft) ELSE requests[s]
    BY <1>t, <2>1
  <2>5. /\ Sent("save", user, panel.draft).user = user
        /\ Sent("save", user, panel.draft).text = panel.draft
    BY <2>1, SentTyped
  <2> QED
    BY <1>p, <1>q, <1>s, <1>d, <2>1, <2>2, <2>3, <2>4, <2>5 DEF TextsFine, Fine
<1>7. ASSUME NEW r \in Requests, AnswerLoad(r) \/ AnswerSave(r) PROVE TextsFine'
  <2>1. PICK q \in Request :
          /\ requests' = [requests EXCEPT ![r] = q]
          /\ requests[r].user \in Users
          /\ \/ q = Free
             \/ /\ q.kind = requests[r].kind /\ q.kind \in {"load", "save"}
                /\ q.user = requests[r].user
                /\ profiles[q.user] \in Text
                /\ q.text = IF q.kind = "load" THEN profiles[q.user]
                            ELSE requests[r].text
    BY <1>7, AnsweredRequest
  <2>2. q # Free => Fine(q.user, q.text)
    BY <1>p, <1>q, <2>1
  <2>3. \A s \in Requests : requests'[s] = IF s = r THEN q ELSE requests[s]
    BY <1>t, <2>1
  <2>4. Free.kind = "free"
    BY DEF Free, Sent
  <2>5. \A u \in Users : profiles'[u] \in Text => Fine(u, profiles'[u])
    BY <1>7, <1>t, <1>p, <1>q, <2>1 DEF AnswerLoad, AnswerSave
  <2>6. UNCHANGED <<user, shown, panel, careless>>
    BY <1>7 DEF AnswerLoad, AnswerSave
  <2> QED
    BY <1>q, <1>s, <1>d, <2>2, <2>3, <2>4, <2>5, <2>6 DEF TextsFine, Fine
<1>8. ASSUME NEW r \in Requests, DeliverLoad(r) \/ DeliverSave(r) \/ Fail(r)
      PROVE  TextsFine'
  <2>1. /\ requests' = [requests EXCEPT ![r] = Free]
        /\ \/ UNCHANGED shown
           \/ /\ shown'.owner = requests[r].user /\ shown'.text = requests[r].text
              /\ requests[r].kind \in {"load", "save"} /\ requests[r].answered
        /\ UNCHANGED <<profiles, user, panel, careless>>
    BY <1>8 DEF DeliverLoad, DeliverSave, Deliver, Fail
  <2>2. \A s \in Requests : requests'[s] = IF s = r THEN Free ELSE requests[s]
    BY <1>t, <2>1
  <2>3. Free.kind = "free"
    BY DEF Free, Sent
  <2> QED
    BY <1>p, <1>q, <1>s, <1>d, <2>1, <2>2, <2>3 DEF TextsFine, Fine
<1>9. CASE UNCHANGED vars
  BY <1>9, <1>p, <1>q, <1>s, <1>d DEF vars, TextsFine, Fine
<1> QED
  BY <1>1, <1>2, <1>3, <1>4, <1>5, <1>6, <1>7, <1>8, <1>9 DEF Next, Session, Respond

\* Only a user who has saved a draft that the panel had not taken from his own
\* profile can find somebody else's text, or none, where his own was.
THEOREM OnlyCarelessSaves == Spec => []OnlyCarelessSavesOverwrite
<1>1. Init => TextsFine
  BY ProfileAssumption DEF Init, TextsFine, Closed, Free, Sent
<1>2. TextsFine => OnlyCarelessSavesOverwrite
  BY DEF TextsFine, Fine, OnlyCarelessSavesOverwrite
<1> QED
  BY <1>1, <1>2, DeskTypeInit, DeskTypeStep, TextsFineStep, PTL DEF Spec

-----------------------------------------------------------------------------
\* No profile is shown, no request is answered but with an error, and every row is
\* what its user's registration made of it.
DeskIsIdle ==
  /\ shown = NotLoaded
  /\ \A r \in Requests : ~requests[r].answered
  /\ \A u \in Users : profiles[u] \in {NoAccount, NoProfile, [by |-> u, links |-> FALSE]}

\* As shipped, with show, update and history private in ExpertsController, nobody
\* ever sees a profile, not even his own, and no save changes a row.
THEOREM ShippedDeskIsIdle ==
  ASSUME PublicActions = {"queue"}
  PROVE  Spec => []DeskIsIdle
<1>1. Init => DeskIsIdle
  BY DEF Init, DeskIsIdle, Free, Sent
<1>2. TypeOK /\ DeskIsIdle /\ [Next]_vars => DeskIsIdle'
  <2> SUFFICES ASSUME TypeOK, DeskIsIdle, [Next]_vars PROVE DeskIsIdle'
    OBVIOUS
  <2>t. /\ requests \in [Requests -> Request]
        /\ profiles \in [Users -> Text \cup {NoAccount, NoProfile}]
    BY DEF TypeOK
  <2>a. ~Free.answered /\ \A kind, u, text : ~Sent(kind, u, text).answered
    BY DEF Free, Sent
  <2>1. ASSUME NEW r \in Requests, NEW q, ~q.answered,
               requests' = [requests EXCEPT ![r] = q], UNCHANGED <<shown, profiles>>
        PROVE  DeskIsIdle'
    BY <2>t, <2>1 DEF DeskIsIdle
  <2>2. ASSUME NEW r \in Requests, NEW u \in Users, Register(u, r) \/ Login(u, r)
        PROVE  DeskIsIdle'
    BY <2>t, <2>a, <2>2 DEF Register, Login, Start, Send, DeskIsIdle
  <2>3. ASSUME NEW u \in Users, RegisterHalf(u) PROVE DeskIsIdle'
    BY <2>t, <2>3 DEF RegisterHalf, DeskIsIdle
  <2>4. CASE Logout \/ Edit
    BY <2>4 DEF Logout, Edit, Open, Close, ToggleEditing, CancelEdit, Write, DeskIsIdle
  <2>5. CASE Reload
    <3>1. \A r \in Requests : ~Forgotten(requests[r]).answered
      <4>1. ASSUME NEW r \in Requests PROVE ~Forgotten(requests[r]).answered
        <5>1. requests[r] \in Request /\ ~requests[r].answered
          BY <2>t DEF DeskIsIdle
        <5>2. ~[requests[r] EXCEPT !.kind = "lost"].answered
          BY <5>1 DEF Request
        <5> QED
          BY <2>a, <5>2 DEF Forgotten
      <4> QED
        BY <4>1
    <3>2. \A r \in Requests : \/ requests'[r] = Forgotten(requests[r])
                               \/ requests'[r] = Sent("load", user, Empty)
      BY <2>5 DEF Reload
    <3>3. \A r \in Requests : ~requests'[r].answered
      BY <2>a, <3>1, <3>2
    <3> QED
      BY <2>5, <3>3 DEF Reload, DeskIsIdle
  <2>6. ASSUME NEW r \in Requests, Save(r) PROVE DeskIsIdle'
    BY <2>1, <2>a, <2>6 DEF Save, Send
  <2>7. ASSUME NEW r \in Requests, Respond(r) PROVE DeskIsIdle'
    <3>1. Fail(r)
      BY <2>7 DEF Respond, AnswerLoad, AnswerSave, DeliverLoad, DeliverSave, Deliver,
         DeskIsIdle
    <3> QED
      BY <2>1, <2>a, <3>1 DEF Fail
  <2>8. CASE UNCHANGED vars
    BY <2>8 DEF vars, DeskIsIdle
  <2> QED
    BY <2>2, <2>3, <2>4, <2>5, <2>6, <2>7, <2>8 DEF Next, Session
<1> QED
  BY <1>1, <1>2, DeskTypeInit, DeskTypeStep, PTL DEF Spec
=============================================================================

---------------------------- MODULE SessionProofs ----------------------------
(* Theorems about BrowserSession, for any number of tabs, users and        *)
(* requests in flight.                                                     *)
EXTENDS BrowserSession, TLAPS

\* A request goes into a free slot.
LEMMA SentRequest ==
  ASSUME NEW t \in Tabs, NEW kind, NEW who, Send(t, kind, who)
  PROVE  \E s \in Slots :
            /\ pending[t][s] = Free
            /\ pending' = [pending EXCEPT ![t][s] = [kind |-> kind, who |-> who]]
<1> DEFINE free == {s \in Slots : pending[t][s] = Free}
           slot == CHOOSE s \in free : TRUE
<1>1. slot \in free
  BY DEF Send
<1>2. pending' = [pending EXCEPT ![t][slot] = [kind |-> kind, who |-> who]]
  BY DEF Send
<1> HIDE DEF slot
<1> QED
  BY <1>1, <1>2

\* Freeing a slot or filling a free one keeps a tab's requests typed.
LEMMA PendingType ==
  ASSUME TypeOK, NEW t \in Tabs, NEW s \in Slots, NEW r \in {Free} \cup Request,
         pending' = [pending EXCEPT ![t][s] = r]
  PROVE  pending' \in [Tabs -> [Slots -> {Free} \cup Request]]
  BY DEF TypeOK

\* A request of a known kind has a sender.
LEMMA RequestFields ==
  ASSUME TypeOK, NEW t \in Tabs, NEW s \in Slots, pending[t][s].kind # "free"
  PROVE  /\ pending[t][s] \in Request
         /\ pending[t][s].who \in MaybeUser
         /\ pending[t][s].kind \in {"login", "register", "registered"} =>
              pending[t][s].who \in Users
<1>1. pending[t][s] \in Request
  BY DEF TypeOK, Free
<1> QED
  BY <1>1 DEF Request, MaybeUser

\* The tab that is loaded again has one check in flight.
LEMMA CheckingPage ==
  ASSUME NEW u \in MaybeUser
  PROVE  /\ Checking(u) \in [Slots -> {Free} \cup Request]
         /\ \E s \in Slots : Checking(u)[s] = [kind |-> "check", who |-> u]
<1>1. (CHOOSE s \in Slots : TRUE) \in Slots
  BY SlotsAssumption
<1> QED
  BY <1>1 DEF Checking, Request

\* Before anything is answered the state is typed.
LEMMA SessionTypeInit == Init => TypeOK
<1> SUFFICES ASSUME Init PROVE TypeOK
  OBVIOUS
<1>1. Nobody \in MaybeUser
  BY DEF MaybeUser
<1>2. pending \in [Tabs -> [Slots -> {Free} \cup Request]]
  BY <1>1, CheckingPage DEF Init
<1> QED
  BY <1>1, <1>2 DEF Init, TypeOK

\* Every step keeps the types.
LEMMA SessionTypeStep == TypeOK /\ [Next]_vars => TypeOK'
<1> SUFFICES ASSUME TypeOK, [Next]_vars PROVE TypeOK'
  OBVIOUS
<1>m. Nobody \in MaybeUser /\ Users \subseteq MaybeUser
  BY DEF MaybeUser
<1>1. ASSUME NEW t \in Tabs, Reload(t) PROVE TypeOK'
  <2>1. pending' \in [Tabs -> [Slots -> {Free} \cup Request]]
    BY <1>1, CheckingPage DEF Reload, TypeOK
  <2> QED
    BY <1>1, <1>m, <2>1 DEF Reload, SetUser, FormEnabled, TypeOK
<1>2. ASSUME NEW t \in Tabs, NEW u \in Users, NEW kind \in {"login", "register"},
             Submit(t, kind, u)
      PROVE  TypeOK'
  <2>1. [kind |-> kind, who |-> u] \in Request
    BY DEF Request
  <2>2. pending' \in [Tabs -> [Slots -> {Free} \cup Request]]
    BY <1>2, <2>1, SentRequest, PendingType DEF Submit
  <2> QED
    BY <1>2, <2>2 DEF Submit, TypeOK
<1>3. ASSUME NEW t \in Tabs, SubmitLogout(t) PROVE TypeOK'
  <2>1. [kind |-> "logout", who |-> token[t]] \in Request
    BY DEF Request, TypeOK
  <2>2. pending' \in [Tabs -> [Slots -> {Free} \cup Request]]
    BY <1>3, <2>1, SentRequest, PendingType DEF SubmitLogout
  <2> QED
    BY <1>3, <2>2 DEF SubmitLogout, TypeOK
<1>4. ASSUME NEW t \in Tabs, NEW s \in Slots, Respond(t, s) PROVE TypeOK'
  <2>0. RegisterUser(t, s) => [kind |-> "registered", who |-> pending[t][s].who] \in Request
    BY RequestFields DEF RegisterUser, Request
  <2>1. pending' \in [Tabs -> [Slots -> {Free} \cup Request]]
        /\ pending[t][s].kind # "free"
    BY <1>4, <2>0, PendingType DEF Respond, CheckSucceeds, CheckFails, LoginSucceeds,
       RegisterUser, RegisterSucceeds, SubmitFails, LogoutDone, Over
  <2>2. /\ pending[t][s].who \in MaybeUser
        /\ pending[t][s].kind \in {"login", "register", "registered"} =>
              pending[t][s].who \in Users
    BY <2>1, RequestFields
  <2>3. CASE CheckSucceeds(t, s) \/ CheckFails(t, s)
    BY <1>m, <2>1, <2>2, <2>3
    DEF CheckSucceeds, CheckFails, SetToken, SetUser, FormEnabled, TypeOK
  <2>4. CASE LoginSucceeds(t, s) \/ RegisterSucceeds(t, s)
    BY <1>m, <2>1, <2>2, <2>4
    DEF LoginSucceeds, RegisterSucceeds, Over, SetToken, SetUser, FormEnabled, TypeOK
  <2>5. CASE SubmitFails(t, s) \/ RegisterUser(t, s)
    BY <2>1, <2>2, <2>5 DEF SubmitFails, RegisterUser, FormEnabled, TypeOK
  <2>6. CASE LogoutDone(t, s)
    BY <1>m, <2>1, <2>6 DEF LogoutDone, SetToken, SetUser, TypeOK
  <2> QED
    BY <1>4, <2>3, <2>4, <2>5, <2>6 DEF Respond
<1>5. CASE UNCHANGED vars
  BY <1>5 DEF vars, TypeOK
<1> QED
  BY <1>1, <1>2, <1>3, <1>4, <1>5 DEF Next

\* All variables keep their types, whatever order answers come in.
THEOREM SessionTypeCorrect == Spec => []TypeOK
  BY SessionTypeInit, SessionTypeStep, PTL DEF Spec

-----------------------------------------------------------------------------
\* Every answer either puts a user on the tab, or takes the token away, or is
\* to a request other than the check of the token the tab holds.
LEMMA CheckedStep ==
  TypeOK /\ TokenWithoutUserIsChecked /\ [Next]_vars => TokenWithoutUserIsChecked'
<1> SUFFICES ASSUME TypeOK, TokenWithoutUserIsChecked, [Next]_vars,
                    NEW x \in Tabs, user'[x] = Nobody, token'[x] # Nobody
             PROVE  \E s \in Slots : /\ pending'[x][s].kind = "check"
                                     /\ pending'[x][s].who = token'[x]
  BY DEF TokenWithoutUserIsChecked, InFlight
<1>i. (user[x] = Nobody /\ token[x] # Nobody) =>
         \E s \in Slots : pending[x][s].kind = "check" /\ pending[x][s].who = token[x]
  BY DEF TokenWithoutUserIsChecked, InFlight
<1>1. ASSUME NEW t \in Tabs, Reload(t)
      PROVE  \E s \in Slots : /\ pending'[x][s].kind = "check"
                              /\ pending'[x][s].who = token'[x]
  <2>1. CASE x = t
    <3>1. pending'[x] = Checking(storage) /\ token'[x] = storage
      BY <1>1, <2>1 DEF Reload, TypeOK
    <3>2. PICK s \in Slots : Checking(storage)[s] = [kind |-> "check", who |-> storage]
      BY CheckingPage DEF TypeOK
    <3> QED
      BY <3>1, <3>2
  <2>2. CASE x # t
    BY <1>1, <1>i, <2>2 DEF Reload, SetUser, TypeOK
  <2> QED
    BY <2>1, <2>2
<1>2. ASSUME NEW t \in Tabs, NEW u \in Users, NEW kind \in {"login", "register"},
             Submit(t, kind, u)
      PROVE  \E s \in Slots : /\ pending'[x][s].kind = "check"
                              /\ pending'[x][s].who = token'[x]
  BY <1>2, <1>i, SentRequest DEF Submit, Free, TypeOK
<1>3. ASSUME NEW t \in Tabs, SubmitLogout(t)
      PROVE  \E s \in Slots : /\ pending'[x][s].kind = "check"
                              /\ pending'[x][s].who = token'[x]
  BY <1>3, <1>i, SentRequest DEF SubmitLogout, Free, TypeOK
<1>4. ASSUME NEW t \in Tabs, NEW s \in Slots, Respond(t, s)
      PROVE  \E r \in Slots : /\ pending'[x][r].kind = "check"
                              /\ pending'[x][r].who = token'[x]
  <2>1. /\ \E r : pending' = [pending EXCEPT ![t][s] = r]
        /\ pending[t][s].kind # "free"
    BY <1>4 DEF Respond, CheckSucceeds, CheckFails, LoginSucceeds,
       RegisterUser, RegisterSucceeds, SubmitFails, LogoutDone, Over
  <2>2. /\ pending[t][s].kind \in {"login", "register"} => pending[t][s].who # Nobody
        /\ user \in [Tabs -> MaybeUser] /\ token \in [Tabs -> MaybeUser]
    BY <2>1, RequestFields, NobodyAssumption DEF TypeOK
  <2>3. x # t => UNCHANGED <<user[x], token[x], pending[x]>>
    BY <1>4, <2>1, <2>2 DEF Respond, CheckSucceeds, CheckFails, LoginSucceeds,
       RegisterUser, RegisterSucceeds, SubmitFails, LogoutDone, SetToken, SetUser, TypeOK
  <2>4. x = t => /\ pending[t][s].kind # "check"
                 /\ UNCHANGED <<user, token>>
    BY <1>4, <2>2 DEF Respond, CheckSucceeds, CheckFails, LoginSucceeds,
       RegisterUser, RegisterSucceeds, SubmitFails, LogoutDone, SetToken, SetUser, Over, TypeOK
  <2>5. CASE x # t
    BY <1>i, <2>3, <2>5
  <2>6. CASE x = t
    BY <1>i, <2>1, <2>4, <2>6 DEF TypeOK
  <2> QED
    BY <2>5, <2>6
<1>5. CASE UNCHANGED vars
  BY <1>5, <1>i DEF vars
<1> QED
  BY <1>1, <1>2, <1>3, <1>4, <1>5 DEF Next

\* A tab that shows nobody holds no token, except while it checks that token.
THEOREM TokenIsChecked == Spec => []TokenWithoutUserIsChecked
<1>1. Init => TokenWithoutUserIsChecked
  BY DEF Init, TokenWithoutUserIsChecked
<1> QED
  BY <1>1, SessionTypeInit, SessionTypeStep, CheckedStep, PTL DEF Spec

\* localStorage never outlives the tabs' own sessions: clearing always clears
\* both copies, and a reload takes over what is stored.
THEOREM StorageIsHeldAlways == Spec => []StorageIsHeld
<1>1. Init => StorageIsHeld
  BY DEF Init, StorageIsHeld
<1>2. TypeOK /\ StorageIsHeld /\ [Next]_vars => StorageIsHeld'
  <2> SUFFICES ASSUME TypeOK, StorageIsHeld, [Next]_vars PROVE StorageIsHeld'
    OBVIOUS
  <2>1. ASSUME NEW t \in Tabs, Reload(t) PROVE StorageIsHeld'
    BY <2>1 DEF Reload, StorageIsHeld, TypeOK
  <2>2. ASSUME NEW t \in Tabs, NEW u, SetToken(t, u) PROVE StorageIsHeld'
    BY <2>2 DEF SetToken, StorageIsHeld, TypeOK
  <2>3. CASE UNCHANGED <<storage, token>>
    BY <2>3 DEF StorageIsHeld
  <2>4. ASSUME NEW t \in Tabs, NEW s \in Slots, Respond(t, s) PROVE StorageIsHeld'
    BY <2>2, <2>3, <2>4 DEF Respond, CheckSucceeds, CheckFails, LoginSucceeds,
       RegisterUser, RegisterSucceeds, SubmitFails, LogoutDone
  <2> QED
    BY <2>1, <2>3, <2>4 DEF Next, Submit, SubmitLogout, vars
<1> QED
  BY <1>1, <1>2, SessionTypeInit, SessionTypeStep, PTL DEF Spec

\* Only the answer to an overtaken check makes a tab show a user other than the
\* one its requests are authenticated as.
THEOREM OnlyStaleChecks == Spec => OnlyStaleChecksDisagree
<1>1. ASSUME TypeOK, [Next]_vars
      PROVE  [\A t \in Tabs : (~Disagree(t) /\ Disagree(t)') =>
                \E s \in InFlight(t, {"check"}) : /\ pending[t][s].who # token[t]
                                                  /\ pending'[t][s] = Free]_vars
  <2> SUFFICES ASSUME Next, NEW x \in Tabs, ~Disagree(x), Disagree(x)'
               PROVE  \E s \in InFlight(x, {"check"}) : /\ pending[x][s].who # token[x]
                                                        /\ pending'[x][s] = Free
    BY <1>1
  <2>t. /\ user \in [Tabs -> MaybeUser] /\ token \in [Tabs -> MaybeUser]
        /\ pending \in [Tabs -> [Slots -> {Free} \cup Request]]
    BY <1>1 DEF TypeOK
  <2>1. PICK t \in Tabs, s \in Slots : Respond(t, s)
    BY <2>t DEF Next, Reload, Submit, SubmitLogout, SetUser, Disagree
  <2>2. CheckSucceeds(t, s) /\ t = x
    BY <2>1, <2>t DEF Respond, CheckSucceeds, CheckFails, LoginSucceeds,
       RegisterUser, RegisterSucceeds, SubmitFails, LogoutDone, SetToken, SetUser, Disagree
  <2>3. s \in InFlight(x, {"check"}) /\ pending'[x][s] = Free
    BY <2>2, <2>t DEF CheckSucceeds, Over, InFlight
  <2>4. pending[x][s].who # token[x]
    BY <2>2, <2>t DEF CheckSucceeds, SetUser, Disagree
  <2> QED
    BY <2>3, <2>4
<1> QED
  BY <1>1, SessionTypeInit, SessionTypeStep, PTL DEF Spec, OnlyStaleChecksDisagree
=============================================================================

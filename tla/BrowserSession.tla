--------------------------- MODULE BrowserSession ---------------------------
(***************************************************************************)
(* Who is logged in, according to the tabs of one browser: AuthContext's   *)
(* user, TokenManager's token in memory and its copy in localStorage, which*)
(* the tabs share.                                                         *)
(*                                                                         *)
(* A page load checks the stored token with GET /auth/me and does not wait *)
(* for the answer before it enables the login form: AuthProvider's first   *)
(* effect finds no auth service and clears isLoading, the second one sends *)
(* the request.  So login, logout and the check may be in flight together, *)
(* and their answers may come in any order.                                *)
(*                                                                         *)
(* A token is represented by its owner.  An expired token, a deleted user  *)
(* and a network error look alike to the client: the request fails.        *)
(***************************************************************************)
EXTENDS Naturals, FiniteSets

CONSTANTS
  Tabs,      \* tabs showing the application
  Users,     \* users who may log in, each with an account or not
  Nobody,    \* user = null, token = null
  Slots      \* requests a tab may have in flight (bound)

ASSUME NobodyAssumption == Nobody \notin Users

ASSUME SlotsAssumption == Slots # {}

VARIABLES
  accounts,  \* users with a row in the users table
  storage,   \* localStorage's auth_token
  token,     \* token[t]: TokenManager.token
  user,      \* user[t]: AuthContext's user
  loading,   \* loading[t]: AuthContext's isLoading, which disables the form
  pending    \* pending[t][s]: a request in flight, or Free

vars == <<accounts, storage, token, user, loading, pending>>

MaybeUser == Users \cup {Nobody}

Free == [kind |-> "free"]

\* A request and what it was sent with: a check or a logout with the token in
\* memory, a login or a registration with a user's name and password.  The server
\* has inserted the user of a request of kind "registered".
Request == [kind : {"check", "logout"}, who : MaybeUser]
             \cup [kind : {"login", "register", "registered"}, who : Users]

\* The page has just been loaded and checks the token of u.
Checking(u) ==
  LET first == CHOOSE s \in Slots : TRUE
  IN  [s \in Slots |-> IF s = first THEN [kind |-> "check", who |-> u] ELSE Free]

Init ==
  /\ accounts \in SUBSET Users
  /\ storage = Nobody
  /\ token   = [t \in Tabs |-> Nobody]
  /\ user    = [t \in Tabs |-> Nobody]
  /\ loading = [t \in Tabs |-> FALSE]
  /\ pending = [t \in Tabs |-> Checking(Nobody)]

-----------------------------------------------------------------------------
\* Tab t sends a request.
Send(t, kind, who) ==
  LET free == {s \in Slots : pending[t][s] = Free}
      slot == CHOOSE s \in free : TRUE
  IN  /\ free # {}
      /\ pending' = [pending EXCEPT ![t][slot] = [kind |-> kind, who |-> who]]

\* The request in slot s of tab t, of the given kind, is over.
Over(t, s, kind) ==
  /\ pending[t][s].kind = kind
  /\ pending' = [pending EXCEPT ![t][s] = Free]

\* Mutant: clearToken forgets localStorage.
SetTokenNeverRemoved(t, u) ==
  /\ token' = [token EXCEPT ![t] = u]
  /\ storage' = IF u = Nobody THEN storage ELSE u

\* TokenManager.setToken and clearToken: memory and localStorage.
SetToken(t, u) ==
  /\ token' = [token EXCEPT ![t] = u]
  /\ storage' = u

SetUser(t, u) == user' = [user EXCEPT ![t] = u]

FormEnabled(t) == loading' = [loading EXCEPT ![t] = FALSE]

\* The page is loaded again: TokenManager reads localStorage, AuthProvider
\* starts without a user and sends the check, and answers to requests of the
\* page before are lost.
Reload(t) ==
  /\ token' = [token EXCEPT ![t] = storage]
  /\ SetUser(t, Nobody)
  /\ FormEnabled(t)
  /\ pending' = [pending EXCEPT ![t] = Checking(storage)]
  /\ UNCHANGED <<accounts, storage>>

\* getCurrentUser succeeds: the user the token sent belongs to.
CheckSucceeds(t, s) ==
  /\ Over(t, s, "check")
  /\ pending[t][s].who # Nobody
  /\ SetUser(t, pending[t][s].who)
  /\ FormEnabled(t)
  /\ UNCHANGED <<accounts, storage, token>>

\* Mutant: a failed check leaves the token alone.
CheckFailsKeepingToken(t, s) ==
  /\ Over(t, s, "check")
  /\ SetUser(t, Nobody)
  /\ FormEnabled(t)
  /\ UNCHANGED <<accounts, storage, token>>

\* getCurrentUser fails for whatever reason: it clears the token there is now.
CheckFails(t, s) ==
  /\ Over(t, s, "check")
  /\ SetToken(t, Nobody)
  /\ SetUser(t, Nobody)
  /\ FormEnabled(t)
  /\ UNCHANGED accounts

-----------------------------------------------------------------------------
\* Mutant: the form does not require a name.
SubmitUnfilled(t, kind, u) ==
  /\ kind \in {"login", "register"}
  /\ user[t] = Nobody
  /\ ~loading[t]
  /\ loading' = [loading EXCEPT ![t] = TRUE]
  /\ \E name \in {u, Nobody} : Send(t, kind, name)
  /\ UNCHANGED <<accounts, storage, token, user>>

\* The login or the registration form is submitted.  AuthPage shows them only
\* to nobody, and disables them while isLoading.
Submit(t, kind, u) ==
  /\ kind \in {"login", "register"}
  /\ user[t] = Nobody
  /\ ~loading[t]
  /\ loading' = [loading EXCEPT ![t] = TRUE]
  /\ Send(t, kind, u)
  /\ UNCHANGED <<accounts, storage, token, user>>

\* AuthenticationController#login finds the user, whose token comes back.
LoginSucceeds(t, s) ==
  /\ Over(t, s, "login")
  /\ pending[t][s].who \in accounts
  /\ SetToken(t, pending[t][s].who)
  /\ SetUser(t, pending[t][s].who)
  /\ FormEnabled(t)
  /\ UNCHANGED accounts

\* AuthenticationController#register inserts the user.
RegisterUser(t, s) ==
  /\ pending[t][s].kind = "register"
  /\ pending[t][s].who \notin accounts
  /\ accounts' = accounts \cup {pending[t][s].who}
  /\ pending' = [pending EXCEPT ![t][s] = [kind |-> "registered",
                                           who  |-> pending[t][s].who]]
  /\ UNCHANGED <<storage, token, user, loading>>

\* The new user's token comes back.
RegisterSucceeds(t, s) ==
  /\ Over(t, s, "registered")
  /\ SetToken(t, pending[t][s].who)
  /\ SetUser(t, pending[t][s].who)
  /\ FormEnabled(t)
  /\ UNCHANGED accounts

\* Mutant: no "finally" around the login.
SubmitFailsLeavingFormDisabled(t, s) ==
  /\ \E kind \in {"login", "register", "registered"} : Over(t, s, kind)
  /\ UNCHANGED <<accounts, storage, token, user, loading>>

\* A wrong password, a name that is taken, or an answer that is lost, by which
\* time a registration may have been made.
SubmitFails(t, s) ==
  /\ \E kind \in {"login", "register", "registered"} : Over(t, s, kind)
  /\ FormEnabled(t)
  /\ UNCHANGED <<accounts, storage, token, user>>

\* The user clicks "Logout", perhaps more than once.
SubmitLogout(t) ==
  /\ user[t] # Nobody
  /\ Send(t, "logout", token[t])
  /\ UNCHANGED <<accounts, storage, token, user, loading>>

\* Mutant: logging out forgets the token but not the user.
LogoutDoneKeepingUser(t, s) ==
  /\ Over(t, s, "logout")
  /\ SetToken(t, Nobody)
  /\ UNCHANGED <<accounts, user, loading>>

\* POST /auth/logout is over, answered or not.
LogoutDone(t, s) ==
  /\ Over(t, s, "logout")
  /\ SetToken(t, Nobody)
  /\ SetUser(t, Nobody)
  /\ UNCHANGED <<accounts, loading>>

-----------------------------------------------------------------------------
Respond(t, s) ==
  \/ CheckSucceeds(t, s)
  \/ CheckFails(t, s)
  \/ LoginSucceeds(t, s)
  \/ RegisterUser(t, s)
  \/ RegisterSucceeds(t, s)
  \/ SubmitFails(t, s)
  \/ LogoutDone(t, s)

Next ==
  \E t \in Tabs :
     \/ Reload(t)
     \/ \E u \in Users, kind \in {"login", "register"} : Submit(t, kind, u)
     \/ SubmitLogout(t)
     \/ \E s \in Slots : Respond(t, s)

Spec == Init /\ [][Next]_vars

\* Browsers time out: every request in flight is over in the end.
Fairness == \A t \in Tabs, s \in Slots : WF_vars(Respond(t, s))

FairSpec == Spec /\ Fairness

-----------------------------------------------------------------------------
(* Properties.                                                             *)

TypeOK ==
  /\ accounts \subseteq Users
  /\ storage \in MaybeUser
  /\ token \in [Tabs -> MaybeUser]
  /\ user \in [Tabs -> MaybeUser]
  /\ loading \in [Tabs -> BOOLEAN]
  /\ pending \in [Tabs -> [Slots -> {Free} \cup Request]]

\* Requests of tab t that are in flight.
InFlight(t, kinds) == {s \in Slots : pending[t][s].kind \in kinds}

\* A tab that shows nobody but holds a token is still checking that very token:
\* no order of answers leaves a forgotten token behind a login form.
TokenWithoutUserIsChecked ==
  \A t \in Tabs :
     (user[t] = Nobody /\ token[t] # Nobody) =>
        \E s \in InFlight(t, {"check"}) : pending[t][s].who = token[t]

\* The user a tab shows is not the one its requests are authenticated as.
Disagree(t) == user[t] # Nobody /\ token[t] # user[t]

\* The tab's user and token come to disagree in one way only: the answer to a
\* check that was overtaken by a login or a logout puts the old user back.
OnlyStaleChecksDisagree ==
  [][\A t \in Tabs : (~Disagree(t) /\ Disagree(t)') =>
        \E s \in InFlight(t, {"check"}) : /\ pending[t][s].who # token[t]
                                          /\ pending'[t][s] = Free]_vars

\* localStorage never holds a token that no tab holds: what survives a reload is
\* the session of a tab.
StorageIsHeld == storage # Nobody => \E t \in Tabs : token[t] = storage

\* The form is never disabled for good, although checks, logins and logouts all
\* write isLoading.
FormComesBack == \A t \in Tabs : loading[t] ~> ~loading[t]
=============================================================================

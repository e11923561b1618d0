----------------------------- MODULE ExpertDesk -----------------------------
(***************************************************************************)
(* The expert data of one tab, with the API backend: users register, log   *)
(* in and out and reload; ChatContext loads profile, queue and history of  *)
(* whoever logs in and keeps what it has when he leaves; ExpertPanel edits *)
(* a draft of the profile and saves it.  Answers come late, in any order,  *)
(* or not at all.                                                          *)
(*                                                                         *)
(* A profile's text is known by who wrote its bio, and by whether it has   *)
(* links; its FAQ is left out.  The queue and the history come with the    *)
(* profile and are shown with it.                                          *)
(*                                                                         *)
(* show, update and history stand below "private" in ExpertsController.    *)
(* As shipped the router reaches none of them: every load fails and every  *)
(* save is refused.  PublicActions says which of them it reaches.          *)
(***************************************************************************)
EXTENDS Integers

CONSTANTS
  Users,        \* user names
  Nobody,       \* no user, nobody's text
  NoAccount,    \* profiles[u]: the name is free
  NoProfile,    \* profiles[u]: u has an account and no profile
  NotLoaded,    \* expertProfile is null
  PublicActions,  \* the ExpertsController methods the router can reach
  Requests      \* bound on requests of the tab in flight at once

Text == [by : Users \cup {Nobody}, links : BOOLEAN]

ASSUME NobodyAssumption == Nobody \notin Users
ASSUME ProfileAssumption ==
  NoAccount \notin Text /\ NoProfile \notin Text /\ NoAccount # NoProfile
ASSUME NotLoadedAssumption ==
  NotLoaded \notin [owner : Users, text : Text, list : BOOLEAN]

ASSUME ActionsAssumption ==
  PublicActions \subseteq {"queue", "show", "update", "history"}

VARIABLES
  profiles,     \* the expert_profiles rows, by user
  user,         \* the user the tab shows and whose token it sends
  shown,        \* expertProfile, and whose it is
  panel,        \* ExpertPanel: whether it is mounted and editing, the draft,
                \* and whether all of it was taken from the user's own profile
  requests,     \* GETs of expert data and PUTs of the profile
  late,         \* in this session a load of expert data has failed, or the
                \* answer to a request of another session has come
  careless      \* who has saved a draft that was not taken from his profile

vars == <<profiles, user, shown, panel, requests, late, careless>>

-----------------------------------------------------------------------------
Empty == [by |-> Nobody, links |-> FALSE]

\* A profile in the front end.  An answer may say null where links are none;
\* "list" tells that knowledgeBaseLinks is an array.
Shown == [owner : Users, text : Text, list : BOOLEAN]

Panel == [open : BOOLEAN, editing : BOOLEAN, draft : Text, own : BOOLEAN]

Closed == [open |-> FALSE, editing |-> FALSE, draft |-> Empty, own |-> FALSE]

\* A request is free, sent, or answered with a text; a lost one is a save
\* whose page has gone.
Sent(kind, u, text) ==
  [kind |-> kind, user |-> u, text |-> text, answered |-> FALSE]

Free == Sent("free", Nobody, Empty)

Request == [kind : {"free", "load", "save", "lost"},
            user : Users \cup {Nobody}, text : Text, answered : BOOLEAN]

\* Mutant: the draft is taken without looking whether there is a profile.
DraftUnchecked == shown

\* What a draft is taken from: the profile shown, or nothing.
Draft == IF shown = NotLoaded THEN Empty ELSE shown.text

ShowsOwn == shown # NotLoaded /\ shown.owner = user

\* ExpertPanel renders null as a list of links, and the page is empty.
Crashed ==
  /\ panel.open /\ ~panel.editing
  /\ shown # NotLoaded /\ ~shown.list

\* The user can use the tab.
Working == user # Nobody /\ ~Crashed

Send(r, kind, u, text) ==
  /\ requests[r] = Free
  /\ requests' = [requests EXCEPT ![r] = Sent(kind, u, text)]

Init ==
  /\ profiles = [u \in Users |-> NoAccount]
  /\ user = Nobody
  /\ shown = NotLoaded
  /\ panel = Closed
  /\ requests = [r \in Requests |-> Free]
  /\ late = FALSE
  /\ careless = {}

-----------------------------------------------------------------------------
(* Sessions.                                                               *)

\* User u is logged in, and the services that start load his expert data.
Start(u, r) ==
  /\ user' = u
  /\ late' = FALSE
  /\ Send(r, "load", u, Empty)

\* register saves the user and then his profile, which is his own text.
Register(u, r) ==
  /\ user = Nobody /\ profiles[u] = NoAccount
  /\ profiles' = [profiles EXCEPT ![u] = [by |-> u, links |-> FALSE]]
  /\ Start(u, r)
  /\ UNCHANGED <<shown, panel, careless>>

\* The profile is not saved and the answer is an error: the name is taken.
RegisterHalf(u) ==
  /\ user = Nobody /\ profiles[u] = NoAccount
  /\ profiles' = [profiles EXCEPT ![u] = NoProfile]
  /\ UNCHANGED <<user, shown, panel, requests, late, careless>>

\* Mutant: expert data is loaded only if there is none yet.
LoginLoadingOnce(u, r) ==
  /\ user = Nobody /\ profiles[u] # NoAccount
  /\ user' = u
  /\ late' = FALSE
  /\ IF shown = NotLoaded THEN Send(r, "load", u, Empty)
     ELSE UNCHANGED requests
  /\ UNCHANGED <<profiles, shown, panel, careless>>

Login(u, r) ==
  /\ user = Nobody /\ profiles[u] # NoAccount
  /\ Start(u, r)
  /\ UNCHANGED <<profiles, shown, panel, careless>>

\* Mutant: the panel stays mounted.
LogoutKeepingPanel ==
  /\ Working
  /\ user' = Nobody
  /\ UNCHANGED <<profiles, shown, panel, requests, late, careless>>

\* The chat page is left, and with it the panel; ChatContext stays.
Logout ==
  /\ Working
  /\ user' = Nobody
  /\ panel' = Closed
  /\ UNCHANGED <<profiles, shown, requests, late, careless>>

\* A reload drops everything but what is on its way to the server.
Forgotten(q) ==
  IF q.kind \in {"save", "lost"} /\ ~q.answered
  THEN [q EXCEPT !.kind = "lost"]
  ELSE Free

\* The token is checked again, and found good for the same user or nobody.
Reload ==
  /\ shown' = NotLoaded
  /\ panel' = Closed
  /\ late' = FALSE
  /\ \/ /\ user' = Nobody
        /\ requests' = [r \in Requests |-> Forgotten(requests[r])]
     \/ /\ user # Nobody /\ UNCHANGED user
        /\ \E r \in Requests :
             /\ Forgotten(requests[r]) = Free
             /\ requests' = [s \in Requests |->
                  IF s = r THEN Sent("load", user, Empty)
                  ELSE Forgotten(requests[s])]
  /\ UNCHANGED <<profiles, careless>>

-----------------------------------------------------------------------------
(* The panel.                                                              *)

\* Expert mode is chosen: the form's fields are filled as the panel mounts.
Open ==
  /\ Working /\ ~panel.open
  /\ panel' = [open |-> TRUE, editing |-> FALSE, draft |-> Draft,
               own |-> ShowsOwn]
  /\ UNCHANGED <<profiles, user, shown, requests, late, careless>>

\* User mode, a conversation or the settings page take its place.
Close ==
  /\ Working /\ panel.open
  /\ panel' = Closed
  /\ UNCHANGED <<profiles, user, shown, requests, late, careless>>

\* The button in the header: Edit, or Cancel, which keeps the draft.
ToggleEditing ==
  /\ Working /\ panel.open
  /\ panel' = [panel EXCEPT !.editing = ~@]
  /\ UNCHANGED <<profiles, user, shown, requests, late, careless>>

\* handleCancelEdit.  Joining null throws half-way: the bio has been taken back,
\* the links have not, and editing goes on.
CancelEdit ==
  /\ Working /\ panel.open /\ panel.editing
  /\ panel' = IF shown # NotLoaded /\ ~shown.list
              THEN [panel EXCEPT !.draft = [@ EXCEPT !.by = shown.text.by],
                                 !.own = @ /\ ShowsOwn]
              ELSE [panel EXCEPT !.draft = Draft, !.own = ShowsOwn,
                                 !.editing = FALSE]
  /\ UNCHANGED <<profiles, user, shown, requests, late, careless>>

\* The user replaces the whole draft by a text of his own; without a profile
\* the fields are not there.
Write(links) ==
  /\ Working /\ panel.open /\ panel.editing
  /\ shown # NotLoaded
  /\ panel' = [panel EXCEPT !.draft = [by |-> user, links |-> links]]
  /\ UNCHANGED <<profiles, user, shown, requests, late, careless>>

\* handleSaveProfile sends the whole draft.
Save(r) ==
  /\ Working /\ panel.open /\ panel.editing
  /\ Send(r, "save", user, panel.draft)
  /\ panel' = [panel EXCEPT !.editing = FALSE]
  /\ careless' = IF panel.own THEN careless ELSE careless \cup {user}
  /\ UNCHANGED <<profiles, user, shown, late>>

-----------------------------------------------------------------------------
(* Requests.                                                               *)

\* All three GETs of loadExpertData are answered, GET /expert/profile with the
\* row of the token's user.
AnswerLoad(r) ==
  /\ {"show", "queue", "history"} \subseteq PublicActions
  /\ requests[r].kind = "load" /\ ~requests[r].answered
  /\ profiles[requests[r].user] \in Text
  /\ requests' = [requests EXCEPT ![r] =
       [@ EXCEPT !.answered = TRUE, !.text = profiles[requests[r].user]]]
  /\ UNCHANGED <<profiles, user, shown, panel, late, careless>>

\* PUT /expert/profile writes the row.
AnswerSave(r) ==
  /\ "update" \in PublicActions
  /\ requests[r].kind \in {"save", "lost"} /\ ~requests[r].answered
  /\ profiles[requests[r].user] \in Text
  /\ profiles' = [profiles EXCEPT ![requests[r].user] = requests[r].text]
  /\ requests' = IF requests[r].kind = "lost"
                 THEN [requests EXCEPT ![r] = Free]
                 ELSE [requests EXCEPT ![r].answered = TRUE]
  /\ UNCHANGED <<user, shown, panel, late, careless>>

\* An answer reaches ChatContext, whoever is logged in by now.
Deliver(r, kind, list) ==
  /\ requests[r].kind = kind /\ requests[r].answered
  /\ ~Crashed
  /\ shown' = [owner |-> requests[r].user, text |-> requests[r].text,
               list |-> list]
  /\ late' = (late \/ requests[r].user # user)
  /\ requests' = [requests EXCEPT ![r] = Free]
  /\ UNCHANGED <<profiles, user, panel, careless>>

\* The answers to all GETs of loadExpertData have come.
DeliverLoad(r) == Deliver(r, "load", TRUE)

\* The answer to a PUT says null where it has no links.
DeliverSave(r) == Deliver(r, "save", requests[r].text.links)

\* The request, or its answer, is lost, or the server refuses it: there is no
\* profile, or the router reaches no method.
Fail(r) ==
  /\ requests[r] # Free
  /\ requests' = [requests EXCEPT ![r] = Free]
  /\ late' = (late \/ requests[r].kind = "load")
  /\ UNCHANGED <<profiles, user, shown, panel, careless>>

Session(r) == \E u \in Users : Register(u, r) \/ Login(u, r)

Edit == Open \/ Close \/ ToggleEditing \/ CancelEdit \/ \E l \in BOOLEAN : Write(l)

Respond(r) ==
  \/ AnswerLoad(r)
  \/ AnswerSave(r)
  \/ DeliverLoad(r)
  \/ DeliverSave(r)
  \/ Fail(r)

Next ==
  \/ \E r \in Requests : Session(r) \/ Save(r) \/ Respond(r)
  \/ \E u \in Users : RegisterHalf(u)
  \/ Logout \/ Reload \/ Edit

Spec == Init /\ [][Next]_vars

-----------------------------------------------------------------------------
(* Properties.                                                             *)

\* Rows, drafts and requests hold texts; a free request holds nothing, the
\* others are somebody's.
TypeOK ==
  /\ profiles \in [Users -> Text \cup {NoAccount, NoProfile}]
  /\ user \in Users \cup {Nobody}
  /\ shown \in Shown \cup {NotLoaded}
  /\ panel \in Panel
  /\ requests \in [Requests -> Request]
  /\ \A r \in Requests :
       requests[r].user = Nobody <=> requests[r] = Free
  /\ late \in BOOLEAN
  /\ careless \subseteq Users

\* Whoever logs in sees nobody else's profile, queue and history, except
\* while his own are being loaded, or after a load has failed or an older
\* session's answer has come in; then they may stay for the whole session.
OthersDataExcused ==
  user # Nobody /\ shown # NotLoaded /\ shown.owner # user =>
    late \/ \E r \in Requests : requests[r].kind = "load"
                                /\ requests[r].user = user

\* However sessions, reloads and late answers mix, a user's profile holds a
\* text that is not his only if he has himself saved a draft which the panel
\* had not taken from his profile: one taken before his profile was loaded,
\* or from the profile of the user before him.
OnlyCarelessSavesOverwrite ==
  \A u \in Users :
    profiles[u] \in Text /\ profiles[u].by # u => u \in careless

=============================================================================

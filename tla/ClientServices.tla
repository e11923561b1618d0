--------------------------- MODULE ClientServices ---------------------------
(***************************************************************************)
(* The configuration of the front end and the services made from it: what  *)
(* localStorage keeps for all tabs, what each tab has loaded, whether its  *)
(* chat and update services could be created, and how the update service   *)
(* and its handlers are started and stopped with the login.                *)
(*                                                                         *)
(* A form is any configuration the user may enter on the settings page.    *)
(* Neither the form nor the defaults it shows are kept as state: the user  *)
(* can change every field before he saves.  URLs are present or absent.    *)
(***************************************************************************)
EXTENDS Integers, Sequences

CONSTANTS
  Tabs,         \* the tabs of one browser
  EnvConfig,    \* the configuration of the VITE_ variables
  Forms,        \* configurations users enter
  NoConfig,     \* nothing is stored, or the tab has not loaded
  MaxPending    \* bound on continuations not yet run

Config == [backend : {"dummy", "api"},
           update : {"polling", "sse", "websocket", "push"},
           api : BOOLEAN, ws : BOOLEAN, interval : Nat]

ASSUME ConfigAssumption == EnvConfig \in Config /\ Forms \subseteq Config
ASSUME NoConfigAssumption == NoConfig \notin Config
ASSUME PendingAssumption == MaxPending \in Nat

VARIABLES
  storage,      \* 'chat-app-config'
  page,         \* whether React shows the tab: "closed", "running" or "blank"
  memory,       \* ConfigService.config, which the auth service follows
  updates,      \* the update service of the tab's ServiceContainer
  loggedIn,     \* AuthContext.isAuthenticated
  running,      \* isRunningFlag of the update service
  ready,        \* isServicesReady
  handlers,     \* ChatContext's handlers are registered
  pending       \* values that awaiting calls will give isServicesReady

tab == <<loggedIn, running, ready, handlers, pending>>
vars == <<storage, page, memory, updates, tab>>

-----------------------------------------------------------------------------
(* Configurations.                                                         *)

Services == [kind : {"none", "polling", "sse", "websocket", "push"},
             interval : Nat]

\* Mutant: the API backend may be chosen without its URL.
ValidateUpdatesOnly(c) ==
  /\ c.update = "websocket" => c.ws
  /\ c.interval # 0 => c.interval >= 1000

\* validateConfig
Validate(c) ==
  /\ c.backend = "api" => c.api
  /\ c.update = "websocket" => c.ws
  /\ c.interval # 0 => c.interval >= 1000

\* The fields of the form take anything, but no number that is 0.
Enterable(form) == form.interval # 0

\* getServiceConfig passes the API's URL on, and not the WebSocket's.
ServiceConfig(c) ==
  [backend |-> c.backend, update |-> c.update, interval |-> c.interval,
   baseUrl |-> c.api, wsUrl |-> FALSE]

\* ChatServiceFactoryImpl.createService does not throw ...
CreatesChatService(s) == s.backend = "api" => s.baseUrl

\* ... and UpdateServiceFactoryImpl.createService does not.
CreatesUpdateService(s) ==
  /\ s.update = "sse" => s.baseUrl
  /\ s.update = "websocket" => s.wsUrl

\* The container has a service of each kind for React to render with.
Created(c) ==
  CreatesChatService(ServiceConfig(c)) /\ CreatesUpdateService(ServiceConfig(c))

\* The update service made: 0 is no interval.
ServiceOf(c) ==
  [kind |-> c.update,
   interval |-> IF c.interval = 0 THEN 5000 ELSE c.interval]

NoService == [kind |-> "none", interval |-> 0]

Init ==
  /\ storage = NoConfig
  /\ page = [t \in Tabs |-> "closed"]
  /\ memory = [t \in Tabs |-> NoConfig]
  /\ updates = [t \in Tabs |-> NoService]
  /\ loggedIn = [t \in Tabs |-> FALSE]
  /\ running = [t \in Tabs |-> FALSE]
  /\ ready = [t \in Tabs |-> FALSE]
  /\ handlers = [t \in Tabs |-> FALSE]
  /\ pending = [t \in Tabs |-> <<>>]

\* loadInitialConfig: what is stored, or else the environment's, which is then
\* stored.
LoadInitialConfig == IF storage = NoConfig THEN EnvConfig ELSE storage

\* Tab t shows services made from configuration c, or nothing: a factory that
\* throws while React renders leaves the page empty.  The first effect finds
\* nobody logged in and stops what was never started.
Render(t, c) ==
  /\ page' = [page EXCEPT ![t] = IF Created(c) THEN "running" ELSE "blank"]
  /\ updates' = [updates EXCEPT ![t] =
                   IF Created(c) THEN ServiceOf(c) ELSE NoService]
  /\ pending' = [pending EXCEPT ![t] = IF Created(c) THEN <<FALSE>> ELSE <<>>]
  /\ loggedIn' = [loggedIn EXCEPT ![t] = FALSE]
  /\ running' = [running EXCEPT ![t] = FALSE]
  /\ ready' = [ready EXCEPT ![t] = FALSE]
  /\ handlers' = [handlers EXCEPT ![t] = FALSE]

\* Mutant: nothing stored, nothing loaded.
LoadWithoutDefaults(t) ==
  /\ storage # NoConfig \/ page[t] = "closed"
  /\ memory' = [memory EXCEPT ![t] = storage]
  /\ Render(t, LoadInitialConfig)
  /\ UNCHANGED storage

\* A tab is opened or loaded again.
Load(t) ==
  /\ storage' = LoadInitialConfig
  /\ memory' = [memory EXCEPT ![t] = LoadInitialConfig]
  /\ Render(t, LoadInitialConfig)

\* The settings page asks for the available options whenever it renders.
GetAvailableOptions(t) ==
  /\ page[t] = "running"
  /\ storage' = LoadInitialConfig
  /\ UNCHANGED <<page, memory, updates, tab>>

\* ConfigService.updateConfig.  The listeners make the auth service anew; the
\* container is a singleton, and keeps its services.
UpdateConfig(t, c) ==
  /\ memory' = [memory EXCEPT ![t] = c]
  /\ storage' = c
  /\ UNCHANGED <<page, updates, tab>>

\* ConfigContext.updateConfig.
UpdateValidConfig(t, c) == Validate(c) /\ UpdateConfig(t, c)

\* handleSave hands over the whole form.
Save(t, form) ==
  /\ page[t] = "running"
  /\ Enterable(form)
  /\ UpdateValidConfig(t, form)

\* resetConfig clears what is stored and loads the defaults, which are stored
\* and not kept: the tab goes on with what it had.
Reset(t) ==
  /\ page[t] = "running"
  /\ storage' = EnvConfig
  /\ UNCHANGED <<page, memory, updates, tab>>

\* The user clears localStorage, as the README advises.
ClearStorage ==
  /\ storage' = NoConfig
  /\ UNCHANGED <<page, memory, updates, tab>>

-----------------------------------------------------------------------------
(* The update service of a tab.                                            *)

\* start and stop change the flag at once; what follows their await is queued.
Effects(t, on, continuations) ==
  /\ Len(pending[t]) + Len(continuations) <= MaxPending
  /\ running' = [running EXCEPT ![t] = on]
  /\ pending' = [pending EXCEPT ![t] = @ \o continuations]

\* Mutant: the old effect is cleaned up after the new one has run.
LoginCleaningUpLast(t) ==
  /\ page[t] = "running" /\ ~loggedIn[t]
  /\ loggedIn' = [loggedIn EXCEPT ![t] = TRUE]
  /\ Effects(t, FALSE, <<TRUE, FALSE>>)
  /\ UNCHANGED <<storage, page, memory, updates, ready, handlers>>

\* A user appears: the effect of the logged-out state is cleaned up, which
\* stops the services, and the new effect starts them.
Login(t) ==
  /\ page[t] = "running" /\ ~loggedIn[t]
  /\ loggedIn' = [loggedIn EXCEPT ![t] = TRUE]
  /\ Effects(t, TRUE, <<FALSE, TRUE>>)
  /\ UNCHANGED <<storage, page, memory, updates, ready, handlers>>

\* The user is gone: clean-up and effect both stop the services.
Logout(t) ==
  /\ page[t] = "running" /\ loggedIn[t]
  /\ loggedIn' = [loggedIn EXCEPT ![t] = FALSE]
  /\ Effects(t, FALSE, <<FALSE, FALSE>>)
  /\ UNCHANGED <<storage, page, memory, updates, ready, handlers>>

\* The oldest await of startServices or stopServices returns.
SetServicesReady(t) ==
  /\ pending[t] # <<>>
  /\ ready' = [ready EXCEPT ![t] = Head(pending[t])]
  /\ pending' = [pending EXCEPT ![t] = Tail(@)]
  /\ UNCHANGED <<storage, page, memory, updates, loggedIn, running, handlers>>

\* Mutant: the effect that registers the handlers has no clean-up.
RegisterHandlersForGood(t) ==
  /\ handlers[t] # ready[t] /\ ready[t]
  /\ handlers' = [handlers EXCEPT ![t] = TRUE]
  /\ UNCHANGED <<storage, page, memory, updates, loggedIn, running, ready,
                 pending>>

\* ChatContext registers its handlers when the services are ready, and the
\* clean-up removes them.
RegisterHandlers(t) ==
  /\ handlers[t] # ready[t]
  /\ handlers' = [handlers EXCEPT ![t] = ready[t]]
  /\ UNCHANGED <<storage, page, memory, updates, loggedIn, running, ready,
                 pending>>

\* The polling service stops itself after too many failures (PollingService);
\* isServicesReady does not hear of it.
GiveUp(t) ==
  /\ running[t] /\ updates[t].kind = "polling"
  /\ running' = [running EXCEPT ![t] = FALSE]
  /\ UNCHANGED <<storage, page, memory, updates, loggedIn, ready, handlers,
                 pending>>

Settings(t) ==
  \/ Load(t)
  \/ GetAvailableOptions(t)
  \/ \E form \in Forms : Save(t, form)
  \/ Reset(t)

Lifecycle(t) ==
  \/ Login(t)
  \/ Logout(t)
  \/ SetServicesReady(t)
  \/ RegisterHandlers(t)
  \/ GiveUp(t)

Next ==
  \/ \E t \in Tabs : Settings(t) \/ Lifecycle(t)
  \/ ClearStorage

\* Awaiting calls return and React renders again.
Fairness ==
  \A t \in Tabs : WF_vars(SetServicesReady(t)) /\ WF_vars(RegisterHandlers(t))

Spec == Init /\ [][Next]_vars /\ Fairness

-----------------------------------------------------------------------------
(* Properties.                                                             *)

\* What is stored and loaded are configurations; a tab that is shown has an
\* update service.
TypeOK ==
  /\ storage \in Config \cup {NoConfig}
  /\ page \in [Tabs -> {"closed", "running", "blank"}]
  /\ memory \in [Tabs -> Config \cup {NoConfig}]
  /\ updates \in [Tabs -> Services]
  /\ \A v \in {loggedIn, running, ready, handlers} : v \in [Tabs -> BOOLEAN]
  /\ pending \in [Tabs -> Seq(BOOLEAN)]
  /\ \A t \in Tabs : page[t] # "closed" => memory[t] # NoConfig
  /\ \A t \in Tabs : page[t] = "running" => updates[t].kind # "none"

\* Whichever tabs save, reset and load in whatever order, a tab whose page is
\* empty has loaded a WebSocket configuration, or one for server-sent events
\* without a URL, unless the environment's own configuration is at fault; no
\* other mistake in the form gets past its validation.
BlankTabsExplained ==
  \A t \in Tabs : page[t] = "blank" =>
    \/ memory[t].update = "websocket"
    \/ memory[t].update = "sse" /\ ~memory[t].api
    \/ memory[t] = EnvConfig

\* When the pages of all tabs are empty, no reload helps: what is stored can
\* be shown by none, or has been cleared.
BlankTabsStuck ==
  (\A t \in Tabs : page[t] = "blank") =>
    storage = NoConfig \/ ~Created(storage)

\* No tab polls more than once a second, unless the environment says so.
PollsSlowly ==
  \A t \in Tabs : updates[t].kind = "polling" =>
    updates[t].interval >= 1000 \/ updates[t] = ServiceOf(EnvConfig)

ConfigurationsServable == BlankTabsExplained /\ BlankTabsStuck /\ PollsSlowly

\* Once its awaiting calls have returned, a tab's services are ready exactly
\* when somebody is logged in, however fast logins and logouts follow each
\* other; and without a login nothing polls.
ServicesFollowLogin ==
  \A t \in Tabs :
    /\ page[t] = "running" /\ pending[t] = <<>> => ready[t] = loggedIn[t]
    /\ running[t] => loggedIn[t]

\* The handlers follow the login: a tab that stays logged in ends with its
\* handlers registered, one that stays logged out with none.
HandlersFollowLogin ==
  \A t \in Tabs :
    /\ <>[](page[t] = "running" /\ loggedIn[t]) => <>[]handlers[t]
    /\ <>[](~loggedIn[t]) => <>[](~handlers[t])

=============================================================================

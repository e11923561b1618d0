------------------------- MODULE ClientServicesProofs -------------------------
(* Theorems about ClientServices, for any number of tabs, any environment   *)
(* and whatever is entered in the form.                                     *)
EXTENDS ClientServices, SequenceTheorems, TLAPS

\* What a queue of continuations does when one runs or more are added: it stays
\* a queue, and its last value is the last one added.
LEMMA QueueSteps ==
  ASSUME NEW p \in Seq(BOOLEAN)
  PROVE  /\ p # <<>> => Tail(p) \in Seq(BOOLEAN) /\ Head(p) \in BOOLEAN
         /\ Tail(p) = <<>> /\ p # <<>> => Head(p) = p[Len(p)]
         /\ p # <<>> /\ Tail(p) # <<>> => Tail(p)[Len(Tail(p))] = p[Len(p)]
         /\ \A a, b \in BOOLEAN :
              /\ p \o <<a, b>> \in Seq(BOOLEAN)
              /\ p \o <<a, b>> # <<>>
              /\ (p \o <<a, b>>)[Len(p \o <<a, b>>)] = b
<1>1. p # <<>> => /\ Len(p) \in Nat /\ Len(p) >= 1
                  /\ Tail(p) \in Seq(BOOLEAN)
                  /\ Head(p) = p[1] /\ Head(p) \in BOOLEAN
                  /\ Len(Tail(p)) = Len(p) - 1
                  /\ \A i \in 1 .. Len(Tail(p)) : Tail(p)[i] = p[i + 1]
  OBVIOUS
<1>2. ASSUME p # <<>>, Tail(p) = <<>> PROVE Head(p) = p[Len(p)]
  <2>1. Len(Tail(p)) = 0
    BY <1>1, <1>2, EmptySeq
  <2>2. Len(p) = 1
    BY <1>1, <1>2, <2>1
  <2> QED
    BY <1>1, <1>2, <2>2
<1>3. ASSUME p # <<>>, Tail(p) # <<>> PROVE Tail(p)[Len(Tail(p))] = p[Len(p)]
  BY <1>1, <1>3
<1>4. ASSUME NEW a \in BOOLEAN, NEW b \in BOOLEAN
      PROVE  /\ p \o <<a, b>> \in Seq(BOOLEAN)
             /\ p \o <<a, b>> # <<>>
             /\ (p \o <<a, b>>)[Len(p \o <<a, b>>)] = b
  <2>1. /\ <<a, b>> \in Seq(BOOLEAN)
        /\ Len(<<a, b>>) = 2 /\ <<a, b>>[2] = b
    OBVIOUS
  <2>2. /\ p \o <<a, b>> \in Seq(BOOLEAN)
        /\ Len(p \o <<a, b>>) = Len(p) + 2
        /\ \A i \in 1 .. Len(p) + 2 : (p \o <<a, b>>)[i] =
             IF i <= Len(p) THEN p[i] ELSE <<a, b>>[i - Len(p)]
    BY <2>1, ConcatProperties
  <2>3. Len(p) \in Nat
    OBVIOUS
  <2> QED
    BY <2>1, <2>2, <2>3
<1> QED
  BY <1>1, <1>2, <1>3, <1>4

\* Services are made from configurations.
LEMMA ServicesTyped ==
  /\ \A c \in Config : ServiceOf(c) \in Services /\ ServiceOf(c).kind # "none"
  /\ NoService \in Services
  BY DEF Config, Services, ServiceOf, NoService

\* A tab loads a configuration.
LEMMA LoadsConfig == TypeOK => LoadInitialConfig \in Config
  BY ConfigAssumption DEF TypeOK, LoadInitialConfig

-----------------------------------------------------------------------------
\* Every step keeps the types.
LEMMA ClientTypeStep == TypeOK /\ [Next]_vars => TypeOK'
<1> SUFFICES ASSUME TypeOK, [Next]_vars PROVE TypeOK'
  OBVIOUS
<1>t. /\ storage \in Config \cup {NoConfig}
      /\ page \in [Tabs -> {"closed", "running", "blank"}]
      /\ memory \in [Tabs -> Config \cup {NoConfig}]
      /\ updates \in [Tabs -> Services]
      /\ loggedIn \in [Tabs -> BOOLEAN] /\ running \in [Tabs -> BOOLEAN]
      /\ ready \in [Tabs -> BOOLEAN] /\ handlers \in [Tabs -> BOOLEAN]
      /\ pending \in [Tabs -> Seq(BOOLEAN)]
      /\ \A t \in Tabs : page[t] # "closed" => memory[t] # NoConfig
      /\ \A t \in Tabs : page[t] = "running" => updates[t].kind # "none"
  BY DEF TypeOK
<1>1. ASSUME NEW t \in Tabs, Load(t) PROVE TypeOK'
  <2> DEFINE c == LoadInitialConfig
  <2>1. /\ c \in Config /\ c # NoConfig
        /\ ServiceOf(c) \in Services /\ ServiceOf(c).kind # "none"
        /\ NoService \in Services
    BY LoadsConfig, ServicesTyped, NoConfigAssumption
  <2>2. <<FALSE>> \in Seq(BOOLEAN) /\ <<>> \in Seq(BOOLEAN)
    OBVIOUS
  <2> HIDE DEF c
  <2>3. storage' = c /\ memory' = [memory EXCEPT ![t] = c] /\ Render(t, c)
    BY <1>1 DEF Load, c
  <2> QED
    BY <1>t, <2>1, <2>2, <2>3 DEF Render, TypeOK
<1>2. ASSUME NEW t \in Tabs, NEW form \in Forms, Save(t, form) PROVE TypeOK'
  <2>1. form \in Config /\ form # NoConfig
    BY ConfigAssumption, NoConfigAssumption
  <2> QED
    BY <1>2, <1>t, <2>1 DEF Save, UpdateValidConfig, UpdateConfig, tab, TypeOK
<1>3. CASE ClearStorage \/ \E t \in Tabs : GetAvailableOptions(t) \/ Reset(t)
  BY <1>3, <1>t, LoadsConfig, ConfigAssumption
  DEF ClearStorage, GetAvailableOptions, Reset, tab, TypeOK
<1>4. ASSUME NEW t \in Tabs, Login(t) \/ Logout(t) PROVE TypeOK'
  <2>1. PICK a \in BOOLEAN, b \in BOOLEAN, on \in BOOLEAN : Effects(t, on, <<a, b>>)
    BY <1>4 DEF Login, Logout
  <2>2. pending[t] \o <<a, b>> \in Seq(BOOLEAN)
    BY <1>t, QueueSteps
  <2>3. pending' \in [Tabs -> Seq(BOOLEAN)] /\ running' \in [Tabs -> BOOLEAN]
    BY <1>t, <2>1, <2>2 DEF Effects
  <2> QED
    BY <1>4, <1>t, <2>3 DEF Login, Logout, TypeOK
<1>5. ASSUME NEW t \in Tabs, SetServicesReady(t) PROVE TypeOK'
  <2>1. Head(pending[t]) \in BOOLEAN /\ Tail(pending[t]) \in Seq(BOOLEAN)
    BY <1>5, <1>t, QueueSteps DEF SetServicesReady
  <2> QED
    BY <1>5, <1>t, <2>1 DEF SetServicesReady, TypeOK
<1>6. ASSUME NEW t \in Tabs, RegisterHandlers(t) \/ GiveUp(t) PROVE TypeOK'
  BY <1>6, <1>t DEF RegisterHandlers, GiveUp, TypeOK
<1>7. CASE UNCHANGED vars
  BY <1>7, <1>t DEF vars, tab, TypeOK
<1> QED
  BY <1>1, <1>2, <1>3, <1>4, <1>5, <1>6, <1>7 DEF Next, Settings, Lifecycle

\* Before any tab is opened the state is typed.
LEMMA ClientTypeInit == Init => TypeOK
  BY DEF Init, TypeOK, NoService, Services

\* Every reachable state is well typed, whatever is entered and stored.
THEOREM ClientTypeCorrect == Spec => []TypeOK
  BY ClientTypeInit, ClientTypeStep, PTL DEF Spec

-----------------------------------------------------------------------------
\* A tab's services will be what the last of its continuations makes them, and
\* that is the login; without a login nothing polls.
LastFollowsLogin(t) ==
  /\ page[t] = "running" => IF pending[t] = <<>> THEN ready[t] = loggedIn[t]
                            ELSE pending[t][Len(pending[t])] = loggedIn[t]
  /\ page[t] # "running" => pending[t] = <<>>
  /\ running[t] => loggedIn[t]

\* A tab that is loaded has stopped its services, one in which somebody logs in
\* or out queues that last, and a continuation that has run leaves the last one.
LEMMA LastFollowsStep ==
  TypeOK /\ (\A t \in Tabs : LastFollowsLogin(t)) /\ [Next]_vars =>
    (\A t \in Tabs : LastFollowsLogin(t))'
<1> SUFFICES ASSUME TypeOK, \A t \in Tabs : LastFollowsLogin(t), [Next]_vars,
                    NEW x \in Tabs
             PROVE  LastFollowsLogin(x)'
  OBVIOUS
<1>t. /\ page \in [Tabs -> {"closed", "running", "blank"}]
      /\ loggedIn \in [Tabs -> BOOLEAN] /\ running \in [Tabs -> BOOLEAN]
      /\ ready \in [Tabs -> BOOLEAN]
      /\ pending \in [Tabs -> Seq(BOOLEAN)]
  BY DEF TypeOK
<1>i. LastFollowsLogin(x)
  OBVIOUS
<1>1. ASSUME NEW t \in Tabs, Load(t) PROVE LastFollowsLogin(x)'
  <2>1. Render(t, LoadInitialConfig)
    BY <1>1 DEF Load
  <2>2. CASE x = t
    <3>1. /\ page'[x] = (IF Created(LoadInitialConfig) THEN "running" ELSE "blank")
          /\ pending'[x] = (IF Created(LoadInitialConfig) THEN <<FALSE>> ELSE <<>>)
          /\ loggedIn'[x] = FALSE /\ running'[x] = FALSE
      BY <1>t, <2>1, <2>2 DEF Render
    <3>2. <<FALSE>> # <<>> /\ <<FALSE>>[Len(<<FALSE>>)] = FALSE
      OBVIOUS
    <3>3. CASE Created(LoadInitialConfig)
      <4>1. /\ page'[x] = "running" /\ pending'[x] = <<FALSE>>
            /\ loggedIn'[x] = FALSE /\ running'[x] = FALSE
        BY <3>1, <3>3
      <4> QED
        BY <3>2, <4>1 DEF LastFollowsLogin
    <3>4. CASE ~Created(LoadInitialConfig)
      <4>1. /\ page'[x] = "blank" /\ pending'[x] = <<>> /\ running'[x] = FALSE
        BY <3>1, <3>4
      <4> QED
        BY <4>1 DEF LastFollowsLogin
    <3> QED
      BY <3>3, <3>4
  <2>3. CASE x # t
    BY <1>t, <1>i, <2>1, <2>3 DEF Render, LastFollowsLogin
  <2> QED
    BY <2>2, <2>3
<1>2. ASSUME NEW t \in Tabs, Login(t) \/ Logout(t) PROVE LastFollowsLogin(x)'
  <2>1. PICK a \in BOOLEAN, b \in BOOLEAN :
          /\ Effects(t, b, <<a, b>>)
          /\ loggedIn' = [loggedIn EXCEPT ![t] = b]
          /\ page[t] = "running" /\ UNCHANGED <<page, ready>>
    BY <1>2 DEF Login, Logout
  <2>2. /\ pending[t] \o <<a, b>> # <<>>
        /\ (pending[t] \o <<a, b>>)[Len(pending[t] \o <<a, b>>)] = b
    BY <1>t, QueueSteps
  <2>3. /\ pending' = [pending EXCEPT ![t] = pending[t] \o <<a, b>>]
        /\ running' = [running EXCEPT ![t] = b]
    BY <2>1 DEF Effects
  <2>4. CASE x = t
    <3>1. /\ pending'[x] = pending[t] \o <<a, b>>
          /\ running'[x] = b /\ loggedIn'[x] = b /\ page'[x] = "running"
      BY <1>t, <2>1, <2>3, <2>4
    <3> QED
      BY <2>2, <3>1 DEF LastFollowsLogin
  <2>5. CASE x # t
    BY <1>t, <1>i, <2>1, <2>3, <2>5 DEF LastFollowsLogin
  <2> QED
    BY <2>4, <2>5
<1>3. ASSUME NEW t \in Tabs, SetServicesReady(t) PROVE LastFollowsLogin(x)'
  <2>1. CASE x = t
    <3>1. /\ pending[x] # <<>> /\ pending[x] \in Seq(BOOLEAN)
          /\ pending'[x] = Tail(pending[x]) /\ ready'[x] = Head(pending[x])
          /\ UNCHANGED <<page, loggedIn, running>>
      BY <1>3, <1>t, <2>1 DEF SetServicesReady
    <3>2. /\ Tail(pending[x]) = <<>> => Head(pending[x]) = pending[x][Len(pending[x])]
          /\ Tail(pending[x]) # <<>> =>
               Tail(pending[x])[Len(Tail(pending[x]))] = pending[x][Len(pending[x])]
      BY <3>1, QueueSteps
    <3> QED
      BY <1>i, <3>1, <3>2 DEF LastFollowsLogin
  <2>2. CASE x # t
    BY <1>3, <1>t, <1>i, <2>2 DEF SetServicesReady, LastFollowsLogin
  <2> QED
    BY <2>1, <2>2
<1>4. ASSUME NEW t \in Tabs, GiveUp(t) PROVE LastFollowsLogin(x)'
  BY <1>4, <1>t, <1>i DEF GiveUp, LastFollowsLogin
<1>5. CASE UNCHANGED <<page, loggedIn, running, ready, pending>>
  BY <1>5, <1>i DEF LastFollowsLogin
<1> QED
  BY <1>1, <1>2, <1>3, <1>4, <1>5
  DEF Next, Settings, Lifecycle, GetAvailableOptions, Save, UpdateValidConfig,
      UpdateConfig, Reset, ClearStorage, RegisterHandlers, vars, tab

\* When nothing awaits, a tab's services are ready exactly when somebody is
\* logged in; and nothing polls without a login.
THEOREM ServicesFollowLoginAlways == Spec => []ServicesFollowLogin
<1>1. Init => \A t \in Tabs : LastFollowsLogin(t)
  BY DEF Init, LastFollowsLogin
<1>2. (\A t \in Tabs : LastFollowsLogin(t)) => ServicesFollowLogin
  BY DEF LastFollowsLogin, ServicesFollowLogin
<1> QED
  BY <1>1, <1>2, ClientTypeInit, ClientTypeStep, LastFollowsStep, PTL DEF Spec

-----------------------------------------------------------------------------
\* A configuration that has been saved, or the environment's.
Accepted(c) == c = EnvConfig \/ (Validate(c) /\ Enterable(c))

\* What is stored and loaded was accepted, a tab shows the services of an
\* accepted configuration, and an empty tab has loaded one that cannot be shown.
ConfigurationsInv ==
  /\ storage = NoConfig \/ Accepted(storage)
  /\ \A t \in Tabs :
       /\ page[t] # "closed" => Accepted(memory[t])
       /\ page[t] = "blank" => ~Created(memory[t])
       /\ updates[t] = NoService \/ \E c \in Config :
            Accepted(c) /\ updates[t] = ServiceOf(c)
  /\ BlankTabsStuck

\* Only accepted configurations are ever stored, and only a running tab's saves
\* change what it has loaded.
LEMMA ConfigurationsStep ==
  TypeOK /\ ConfigurationsInv /\ [Next]_vars => ConfigurationsInv'
<1> SUFFICES ASSUME TypeOK, ConfigurationsInv, [Next]_vars PROVE ConfigurationsInv'
  OBVIOUS
<1>t. /\ page \in [Tabs -> {"closed", "running", "blank"}]
      /\ memory \in [Tabs -> Config \cup {NoConfig}]
      /\ updates \in [Tabs -> Services]
  BY DEF TypeOK
<1>a. Accepted(LoadInitialConfig) /\ LoadInitialConfig \in Config
  BY LoadsConfig DEF ConfigurationsInv, LoadInitialConfig, Accepted
<1>1. ASSUME NEW t \in Tabs, Load(t) PROVE ConfigurationsInv'
  <2> DEFINE c == LoadInitialConfig
  <2>1. /\ storage' = c /\ memory' = [memory EXCEPT ![t] = c]
        /\ page' = [page EXCEPT ![t] = IF Created(c) THEN "running" ELSE "blank"]
        /\ updates' = [updates EXCEPT ![t] =
                         IF Created(c) THEN ServiceOf(c) ELSE NoService]
    BY <1>1 DEF Load, Render
  <2>2. Accepted(c) /\ c \in Config
    BY <1>a
  <2> HIDE DEF c
  <2>3. ASSUME NEW x \in Tabs
        PROVE  /\ page'[x] # "closed" => Accepted(memory'[x])
               /\ page'[x] = "blank" => ~Created(memory'[x])
               /\ updates'[x] = NoService \/ \E d \in Config :
                    Accepted(d) /\ updates'[x] = ServiceOf(d)
    BY <1>t, <2>1, <2>2, <2>3 DEF ConfigurationsInv
  <2>4. page'[t] = "blank" => ~Created(c)
    BY <1>t, <2>1
  <2> QED
    BY <2>1, <2>2, <2>3, <2>4 DEF ConfigurationsInv, Accepted, BlankTabsStuck
<1>2. ASSUME NEW t \in Tabs, NEW form \in Forms, Save(t, form) PROVE ConfigurationsInv'
  <2>1. /\ Accepted(form) /\ page[t] = "running"
        /\ storage' = form /\ memory' = [memory EXCEPT ![t] = form]
        /\ UNCHANGED <<page, updates>>
    BY <1>2 DEF Save, UpdateValidConfig, UpdateConfig, Accepted
  <2> QED
    BY <1>t, <2>1 DEF ConfigurationsInv, Accepted, BlankTabsStuck
<1>3. ASSUME NEW t \in Tabs, GetAvailableOptions(t) \/ Reset(t) PROVE ConfigurationsInv'
  <2>1. /\ storage' \in {LoadInitialConfig, EnvConfig} /\ page[t] = "running"
        /\ UNCHANGED <<page, memory, updates>>
    BY <1>3 DEF GetAvailableOptions, Reset
  <2>2. Accepted(storage')
    BY <1>a, <2>1 DEF Accepted
  <2> QED
    BY <2>1, <2>2 DEF ConfigurationsInv, Accepted, BlankTabsStuck
<1>4. CASE ClearStorage
  BY <1>4 DEF ClearStorage, ConfigurationsInv, Accepted, BlankTabsStuck
<1>5. CASE UNCHANGED <<storage, page, memory, updates>>
  BY <1>5 DEF ConfigurationsInv, Accepted, BlankTabsStuck
<1> QED
  BY <1>1, <1>2, <1>3, <1>4, <1>5
  DEF Next, Settings, Lifecycle, Login, Logout, SetServicesReady,
      RegisterHandlers, GiveUp, vars

\* A configuration that was accepted and cannot be shown is one of those that
\* BlankTabsExplained names, and one that was accepted does not poll fast.
LEMMA AcceptedConfigurations ==
  ASSUME NEW c \in Config, Accepted(c)
  PROVE  /\ ~Created(c) => \/ c.update = "websocket"
                           \/ c.update = "sse" /\ ~c.api
                           \/ c = EnvConfig
         /\ ServiceOf(c).interval >= 1000 \/ ServiceOf(c) = ServiceOf(EnvConfig)
  BY DEF Accepted, Validate, Enterable, Created, CreatesChatService,
         CreatesUpdateService, ServiceConfig, ServiceOf, Config

\* Pages are empty for the named reasons only, reloading does not help where all
\* of them are, and no saved configuration polls more than once a second.
THEOREM ConfigurationsServableAlways == Spec => []ConfigurationsServable
<1>1. Init => ConfigurationsInv
  BY DEF Init, ConfigurationsInv, BlankTabsStuck
<1>2. TypeOK /\ ConfigurationsInv => ConfigurationsServable
  <2> SUFFICES ASSUME TypeOK, ConfigurationsInv PROVE ConfigurationsServable
    OBVIOUS
  <2>1. BlankTabsExplained
    <3> SUFFICES ASSUME NEW t \in Tabs, page[t] = "blank"
                 PROVE  \/ memory[t].update = "websocket"
                        \/ memory[t].update = "sse" /\ ~memory[t].api
                        \/ memory[t] = EnvConfig
      BY DEF BlankTabsExplained
    <3>1. memory[t] \in Config /\ Accepted(memory[t]) /\ ~Created(memory[t])
      BY DEF TypeOK, ConfigurationsInv
    <3> QED
      BY <3>1, AcceptedConfigurations
  <2>2. PollsSlowly
    <3> SUFFICES ASSUME NEW t \in Tabs, updates[t].kind = "polling"
                 PROVE  \/ updates[t].interval >= 1000
                        \/ updates[t] = ServiceOf(EnvConfig)
      BY DEF PollsSlowly
    <3>1. updates[t] # NoService
      BY DEF NoService
    <3>2. PICK c \in Config : Accepted(c) /\ updates[t] = ServiceOf(c)
      BY <3>1 DEF ConfigurationsInv
    <3> QED
      BY <3>2, AcceptedConfigurations
  <2> QED
    BY <2>1, <2>2 DEF ConfigurationsInv, ConfigurationsServable
<1> QED
  BY <1>1, <1>2, ClientTypeInit, ClientTypeStep, ConfigurationsStep, PTL DEF Spec
=============================================================================

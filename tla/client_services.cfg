SPECIFICATION Spec
CONSTANTS
  Tabs = {t1, t2}
  NoConfig = NoConfig
  MaxPending = 3
  EnvConfig <- MCEnvConfig
  Forms <- MCForms
INVARIANTS
  TypeOK
  ConfigurationsServable
  ServicesFollowLogin
PROPERTIES
  HandlersFollowLogin

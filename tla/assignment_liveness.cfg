SPECIFICATION FairSpec
CONSTANTS
  Threads = {t1, t2}
  Conversations = {c1, c2}
  Users = {u1, u2}
  NoUser = NoUser
  InitialStatuses = {"waiting", "active", "resolved"}
  PublicActions = {"queue"}
  LlmOutcomes = {"pick"}
  Failures = FALSE
  MaxAssignments = 4
INVARIANT HolderMeansActive
PROPERTY EveryConversationGetsExpert

SPECIFICATION Spec
CONSTANTS
  Threads = {t1, t2}
  Conversations = {c1}
  Users = {u1, u2}
  NoUser = NoUser
  InitialStatuses = {"waiting"}
  PublicActions = {"queue"}
  LlmOutcomes = {"pick", "none", "unavailable"}
  Failures = FALSE
  MaxAssignments = 4
PROPERTY NoTakeover

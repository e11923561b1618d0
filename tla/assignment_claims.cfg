SPECIFICATION Spec
CONSTANTS
  Threads = {t1, t2, t3}
  Conversations = {c1}
  Users = {u1, u2}
  NoUser = NoUser
  InitialStatuses = {"waiting", "active", "resolved"}
  PublicActions = {"queue", "claim", "unclaim"}
  LlmOutcomes = {"pick", "none"}
  Failures = FALSE
  MaxAssignments = 4
SYMMETRY Interchangeable
INVARIANT HolderIsRecordedOrPending
INVARIANT HolderNeverResolved

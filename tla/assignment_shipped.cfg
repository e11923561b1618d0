SPECIFICATION Spec
CONSTANTS
  Threads = {t1, t2}
  Conversations = {c1, c2}
  Users = {u1, u2}
  NoUser = NoUser
  InitialStatuses = {"waiting"}
  PublicActions = {"queue"}
  LlmOutcomes = {"pick", "none", "unavailable"}
  Failures = TRUE
  MaxAssignments = 4
SYMMETRY Interchangeable
INVARIANT TypeOK
INVARIANT StatusMatchesExpert
INVARIANT HolderHasOpenAssignment
PROPERTY ImplementsLifecycle

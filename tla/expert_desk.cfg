SPECIFICATION Spec
CONSTANTS
  Users = {u1, u2}
  Nobody = Nobody
  NoAccount = NoAccount
  NoProfile = NoProfile
  NotLoaded = NotLoaded
  Requests = {r1, r2}
  PublicActions = {"queue", "show", "update", "history"}
SYMMETRY UserAndRequestSymmetry
INVARIANTS
  TypeOK
  OthersDataExcused
  OnlyCarelessSavesOverwrite

SPECIFICATION Spec
CONSTANTS
  Calls = {k1, k2}
  NewUsers = {"dave"}
  Nobody = Nobody
  NoDocument = NoDocument
  MaxTime = 10
INVARIANTS
  TypeOK
  DocumentsCoherent
SYMMETRY CallSymmetry
PROPERTIES
  OnlyStaleWritesLose

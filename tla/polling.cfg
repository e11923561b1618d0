SPECIFICATION FairSpec
CONSTANTS
  Polls = {p1, p2, p3}
  MaxRetries = 3
INVARIANT TypeOK
INVARIANT FailuresBounded
PROPERTY GivesUpOnlyWhenOverlapping
PROPERTY LogoutDrains
PROPERTY KeepsPolling

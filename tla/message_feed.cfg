SPECIFICATION FairSpec
CONSTANTS
  Messages = {m1, m2, m3}
  Own = {m3}
  Polls = {p1, p2}
  Loads = {l1}
  TicksPerSecond = 2
  MaxTick = 2
INVARIANT TypeOK
INVARIANT NothingSkipped
INVARIANT ForeignShownOnce
INVARIANT ForeignInOrder
PROPERTY CursorNeverMovesBack
PROPERTY EveryMessageHandedOver

SPECIFICATION Spec
CONSTANTS
  Messages = {m1, m2}
  Own = {m1}
  Polls = {p1}
  Loads = {}
  TicksPerSecond = 2
  MaxTick = 2
INVARIANT NoMessageShownTwice

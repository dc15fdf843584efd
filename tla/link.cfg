SPECIFICATION FairSpec
CONSTANTS
  Intervals = {1, 2}
  DefaultInterval = 1
  Puts = {p1, p2}
  InboxCap = 1
  None = None
  MaxConns = 2
  MaxSamples = 2
  MaxFaults = 1
INVARIANTS TypeOK UnsentIsKept RefusedIsStored NoZombie IntervalKnown
PROPERTIES ComesBack
CHECK_DEADLOCK FALSE

SPECIFICATION FairSpec
CONSTANTS
  WireRoom = 2
  Republishes = FALSE
  None = None
  MaxRevision = 3
  MaxEpoch = 3
INVARIANTS
  TypeOK
  NoLostWakeup
  LatestOnItsWay
PROPERTIES
  ShownAdvances
  ImplementsLatestSnapshot
CHECK_DEADLOCK FALSE

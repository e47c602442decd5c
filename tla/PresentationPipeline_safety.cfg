SPECIFICATION FairSpec
CONSTANTS
  s1 = s1
  s2 = s2
  None = None
  Untitled = {s2}
  Contents <- Playing
  Disconnected <- NoBridge
  Animated = TRUE
  MaxRevision = 3
  MaxUpdates = 3
INVARIANTS
  TypeOK
  OnePresentationOnScreen
PROPERTIES
  NoObsoleteReveal
  Settles
CHECK_DEADLOCK FALSE

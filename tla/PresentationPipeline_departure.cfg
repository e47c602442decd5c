SPECIFICATION Spec
CONSTANTS
  s1 = s1
  s2 = s2
  None = None
  Untitled = {}
  Contents <- Renamed
  Disconnected <- NoBridge
  Animated = TRUE
  MaxRevision = 3
  MaxUpdates = 4
INVARIANTS
  LatestTextRevealed
CHECK_DEADLOCK FALSE

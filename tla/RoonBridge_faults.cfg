SPECIFICATION FairSpec
CONSTANTS
  Cores = {c1}
  Observations <- FaultZones
  Timelines <- NoLyrics
  Rejected <- TextTooLong
  SavedName = "speaker"
  None = None
  IOFaults = TRUE
  MaxRevision = 4
  MaxGeneration = 7
INVARIANTS
  PublishedArtworkExists
  AttemptsAreCurrent
PROPERTIES
  Convergence
CHECK_DEADLOCK FALSE

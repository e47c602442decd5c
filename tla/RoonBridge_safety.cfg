SPECIFICATION Spec
CONSTANTS
  Cores = {c1, c2}
  Observations <- ArtworkZones
  Timelines <- Lyrics
  Rejected <- AllValid
  SavedName = "speaker"
  None = None
  IOFaults = FALSE
  MaxRevision = 5
  MaxGeneration = 7
INVARIANTS
  TypeOK
  ShownOfOneTrack
  NoArtworkLeak
  UnavailableOutputPublished
CHECK_DEADLOCK FALSE

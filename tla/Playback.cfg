CONSTANTS
  Snapshots <- MCSnapshots
  Fields <- MCFields
  Cues <- MCCues
  None = None
  ProvisionalGrace = 2
  InactivityGrace = 9
  Cadence = 1
  EntryLead = 1
  FinalHold = 1
  Scale = 64
  Handoff = 2
  BlankHandoff = 2
  Composition = 2
  DiscoveryGrace = 2
  Tolerance = 1
  MaxTime = 3
  MaxUpdates = 2
SPECIFICATION PlaybackSpec
INVARIANT LyricsWellPlaced
PROPERTY LyricsContinuous DisplayedPositionContinuous
CHECK_DEADLOCK FALSE

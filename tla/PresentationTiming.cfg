CONSTANTS
  Snapshots <- MCSnapshots
  Fields <- MCFields
  Cues <- MCCues
  None = None
  ProvisionalGrace = 2
  InactivityGrace = 2
  Cadence = 1
  EntryLead = 1
  FinalHold = 1
  MaxTime = 6
  MaxUpdates = 4
SPECIFICATION Spec
INVARIANT OfOneTrack GracesRunOut
PROPERTY MovesByTheClock
CHECK_DEADLOCK FALSE

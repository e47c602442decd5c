CONSTANTS
  Contents <- MCContents
  Disconnected <- MCDisconnected
  Fields <- MCFields
  None = None
  Scale = 64
  Phase = 2
  JumpTolerance = 1
  MaxTime = 4
  MaxUpdates = 3
SPECIFICATION Spec
INVARIANT DrawnInFull
PROPERTY FramesContinuous RevealsWhatIsAskedFor
CHECK_DEADLOCK FALSE

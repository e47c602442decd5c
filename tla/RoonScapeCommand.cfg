SPECIFICATION FairCommandSpec
CONSTANTS
  Launches = {l1, l2, l3}
  Supervised = {l1}
  Absent = Absent
  Empty = Empty
  Overlaps = {}
INVARIANTS
  CommandTypeOK
  OneSession
  OwnershipIsRecorded
PROPERTIES
  ArtifactsOfTheSession
  LiveOwnerKept
  SessionsFinish
  StoppedBeforeCleanup
CHECK_DEADLOCK FALSE

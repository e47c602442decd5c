SPECIFICATION FairSpec
CONSTANTS
  Zones = {z1, z2}
  Songs = {s1, s2, s3}
  SameKey = {s1, s2}
  Key <- SharedKeys
  Unsynced = {}
  None = None
  MAX_CORRELATED_KEYS = 1
  MaxChanges = 2
  MaxBehind = 1
  MaxLosses = 1
INVARIANTS
  TypeOK
  LyricsAreCurrent
PROPERTIES
  LyricsShown
CHECK_DEADLOCK FALSE

SPECIFICATION Spec
CONSTANTS
  Launches = {l1, l2, l3}
  Absent = Absent
  Empty = Empty
  Overlaps = {"cleanup"}
SYMMETRY Interchangeable
INVARIANTS
  OneSession
CHECK_DEADLOCK FALSE

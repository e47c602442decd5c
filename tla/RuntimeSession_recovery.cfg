SPECIFICATION Spec
CONSTANTS
  Launches = {l1, l2, l3, l4, l5}
  Absent = Absent
  Empty = Empty
  Overlaps = {"walk"}
SYMMETRY Interchangeable
INVARIANTS
  OneRecovery
CHECK_DEADLOCK FALSE

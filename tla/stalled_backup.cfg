CONSTANTS
  Proc = {p1, p2}
  Blob = {b1}
  KeepLast = 1
  Stalls = {p1, p2}
  Faults = {}
  p1 = p1
  p2 = p2
  b1 = b1
SYMMETRY Symmetry
SPECIFICATION Spec
INVARIANTS SnapshotsComplete
CHECK_DEADLOCK FALSE

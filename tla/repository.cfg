CONSTANTS
  Proc = {p1, p2, p3, p4}
  Blob = {b1}
  KeepLast = 1
  Stalls = {}
  Faults = {}
  p1 = p1
  p2 = p2
  p3 = p3
  p4 = p4
  b1 = b1
SYMMETRY Symmetry
SPECIFICATION Spec
INVARIANTS TypeOK MissingOnlyIfForgotten SnapshotsComplete PruneComplete
PROPERTIES StoreKept
CHECK_DEADLOCK FALSE

CONSTANTS
  Proc = {p1, p2, p3, p4}
  Blob = {b1}
  KeepLast = 1
  Stalls = {p1, p2, p3, p4}
  Faults = {"delete", "readdir"}
  p1 = p1
  p2 = p2
  p3 = p3
  p4 = p4
  b1 = b1
SYMMETRY Symmetry
SPECIFICATION Spec
INVARIANTS NewestKept
CHECK_DEADLOCK FALSE

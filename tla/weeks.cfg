SPECIFICATION Spec
CONSTANTS
  Id = {1, 2, 3, 4}
  Stamp <- Stamps
  Calendar <- NewYear
  Group <- Groups
  Policies <- Weekly
  NoFilter = NoFilter
  Forgetter = {f, g}
  f = f
  g = g
INVARIANT
  WeeksKept
CHECK_DEADLOCK FALSE

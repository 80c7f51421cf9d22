SPECIFICATION Spec
CONSTANTS
  Id = {1, 2, 3, 4}
  Stamp <- Stamps
  Calendar <- NewYear
  Group <- Groups
  Policies <- SomePolicies
  NoFilter = NoFilter
  Forgetter = {f, g}
  f = f
  g = g
INVARIANTS
  TypeOK
  RulesKept
  PlansStayValid
SYMMETRY Forgetters
CHECK_DEADLOCK FALSE

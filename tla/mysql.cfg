SPECIFICATION Spec
CONSTANTS
  Object <- MCObject
  Kind <- MCKind
  Needs <- MCNeeds
  Stamped = {2}
  Slices <- MCSlices
  Batches = 2
  Transfers <- MCTransfers
  MaxVersion = 3
  Targets <- MCTargets
  Faults = {"stream", "drop", "abort"}
INVARIANTS
  TypeOK
  MomentRestored
  SlicesWhole
  ExistingKept
  OnlyViewsRefused
CHECK_DEADLOCK FALSE

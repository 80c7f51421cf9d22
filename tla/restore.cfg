SPECIFICATION FairSpec
CONSTANTS
  Object <- MCObject
  Kind <- MCKind
  Needs <- MCNeeds
  Owned <- MCOwned
  Slices <- MCSlices
  Targets <- Older
  Pipe = 2
  Faults = {"fetch", "drop", "abort"}
INVARIANTS
  TypeOK
  Complete
  AllOrNothing
  NothingRefused
PROPERTY
  RestoreEnds
CHECK_DEADLOCK FALSE

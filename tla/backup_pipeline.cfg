SPECIFICATION FairSpec
CONSTANTS
  ChunkSize = 3
  MaxFrame = 5
  MaxStream = 12
INVARIANTS
  TypeOK
  CommittedWhole
  RootCause
PROPERTY
  CommandEnds
CHECK_DEADLOCK FALSE

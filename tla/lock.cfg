SPECIFICATION ConflictSpec
CONSTANTS
  Proc = {1, 2}
  Skew <- OneAhead
  MaxSkew = 1
  Settle = 2
  PutDelay = 0
  AcqTime = 2
  Interval = 1
  Lag = 0
  Grace = 1
  TTL = 6
  Faults = {"heartbeat"}
  UnlockForce = {FALSE}
  MaxTime = 5
INVARIANTS
  TypeOK
  LiveLockCounts
PROPERTY
  PromiseKept
CHECK_DEADLOCK FALSE

SPECIFICATION FairConflictSpec
CONSTANTS
  Proc = {1, 2}
  Skew <- InStep
  MaxSkew = 0
  Settle = 1
  PutDelay = 0
  AcqTime = 1
  Interval = 1
  Lag = 0
  Grace = 0
  TTL = 3
  Faults = {"list", "put", "delete"}
  UnlockForce = {}
  MaxTime = 5
INVARIANTS
  Exclusion
  SomebodyWins
PROPERTY
  LeftoversExpire
CHECK_DEADLOCK FALSE

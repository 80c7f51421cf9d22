SPECIFICATION FirstThere
CONSTANTS
  Client = {1, 2, 3}
  Key = {1, 2}
  Data = {a}
  Absent = Absent
  a = a
  Host <- OneTwoThree
  Machine <- OneTwoThree
  MaxCalls = 2
  Dir <- OneDirEach
  Windows = {3}
  Failing = {1}
  Misread = {}
  Reused = {2}
  Slow = {}
  MaxRetries = 1
  PageSize = 1
  Late = {3}
  MaxEcho = 1
INVARIANTS
  TypeOK
  LiveFilesKept
  AbandonedGo
PROPERTIES
  PromiseKept
  CallsEnd
CHECK_DEADLOCK FALSE

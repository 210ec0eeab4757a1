CONSTANTS
  Classes = {A, B, C}
  Object = Object
  Programs = {p1, p2, p3}
  None = None
  Threshold = 2
  MaxDepth = 3
SPECIFICATION FairSpec
INVARIANTS
  CacheOK
  LockCounts
  ExecutedStays
PROPERTIES
  RewrittenWhenIdle
  Dispatches
  CalleeRuns
CHECK_DEADLOCK FALSE

CONSTANTS
  NumBlocks = 3
  NumLayers = 2
  MaxRef = 2
  CallIds <- MCCallIds
  CallCounts <- MCCallCounts
SPECIFICATION Spec
INVARIANTS
  PoolConsistent
  AllocNeverRunsDry
PROPERTIES
  FailedTakeAccounted
  RedirectIsFullCopy
  AtomicSpec

SPECIFICATION Spec
CONSTANTS
  MaxScore = 2
  BlockSize = 2
  NumBlocks = 7
  NumLayers = 2
  NumKVHeads = 2
  Junk = Junk
  Calls <- MCCalls
  NumHeads = 4
  Warps = 2
  ColPerThread = 1
  DecodeBc = 2
  SplitThreshold = 4
  SplitChunk = 2
  MaxSplits = 3
INVARIANTS
  OutputIsSoftmax
  WarpsExact
  SplitsPartitionKeys
  PoolHoldsRequests
PROPERTIES
  RowWrittenOnce

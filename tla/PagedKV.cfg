CONSTANTS
  NumBlocks = 5
  BlockSize = 2
  Junk = junk
  MaxSeqLen = 5
  Cache = {k1, k2}
  NumLayers = 2
  Apis = {"write", "prepare_meta"}
  PromptLimit = 4
  TextLimit = 6
  MaxFailures = 1
SYMMETRY Perms
SPECIFICATION Spec
INVARIANTS
  TablesExact
  WritesExclusive
  ReadsOwnTokens
PROPERTIES
  BatchesComplete

CONSTANTS
  NumBlocks = 4
  BlockSize = 2
  Junk = junk
  Client = {c1, c2}
  TokenSeqs <- MCAligned
SYMMETRY Perms
SPECIFICATION Spec
INVARIANTS
  TreeWellFormed
  CountsExact
  UnpinnedUnshared
  ContentsRight
PROPERTIES
  PrefixCacheSpec

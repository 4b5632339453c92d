CONSTANTS
  NumBlocks = 6
  BlockSize = 2
  Junk = junk
  Client = {c1, c2}
  TokenSeqs <- MCCrooked
SPECIFICATION Spec
INVARIANT
  RunningReadsItsTokens

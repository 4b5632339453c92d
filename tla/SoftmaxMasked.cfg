SPECIFICATION Spec
CONSTANTS
  MaxScore = 2
  Calls <- MCLongCausal
  Dim = 2
  Vec = 2
  Threads = 8
  WarpSize = 2
  MaskDim = 4
INVARIANTS
  CausalRowsAreNumbers

CONSTANTS
  Token = {1, 2}
  NumLayers = 2
  NumHeads = 4
  NumKVHeads = 2
  MaxSeqLen = 3
  Setups <- MCSetups
  Prompts <- MCPrompts
  Junk = junk
  Lost = lost
SPECIFICATION Spec
INVARIANT
  IncrementalIsWhole
PROPERTIES
  SequenceSpec
  RefusedAtOnce

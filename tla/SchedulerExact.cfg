CONSTANTS
  NumBlocks = 2
  BlockSize = 3
  Junk = junk
  MaxSeqLen = 8
  Request = {1}
  Prompt <- MCPromptExact
  MaxTokens <- MCMaxTokensExact
  Eos <- MCEos
  NextTokens <- MCNextPlain
  UseRadix = FALSE
  DecodeRatio = 100
  DecodeCap = 512
  FailLimit = 5
  MaxFailures = 0
  MaxAborts = 0
SPECIFICATION Spec
INVARIANT
  FailsOnlyWithTheDevice
CHECK_DEADLOCK FALSE

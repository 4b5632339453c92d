CONSTANTS
  NumBlocks = 3
  BlockSize = 2
  Junk = junk
  MaxSeqLen = 8
  Request = {1, 2}
  Prompt <- MCPrompt
  MaxTokens <- MCMaxTokens
  Eos <- MCEos
  NextTokens <- MCNextTokens
  UseRadix = FALSE
  DecodeRatio = 0
  DecodeCap = 512
  FailLimit = 5
  MaxFailures = 1
  MaxAborts = 1
SPECIFICATION StreamsSpec
INVARIANTS
  AnswerWhole
  SleepsOnlyWhenIdle
PROPERTIES
  EveryStreamEnds
  GoneLeaveNothing
CHECK_DEADLOCK FALSE

CONSTANTS
  NumBlocks = 4
  BlockSize = 2
  Junk = junk
  MaxSeqLen = 8
  Request = {1, 2, 3}
  Prompt <- MCPrompt
  MaxTokens <- MCMaxTokens
  Eos <- MCEos
  NextTokens <- MCNextTokens
  UseRadix = TRUE
  DecodeRatio = 0
  DecodeCap = 512
  FailLimit = 2
  MaxFailures = 1
  MaxAborts = 1
SPECIFICATION Spec
INVARIANTS
  CountsExact
  ContentsRight
  BatchNeverRunsDry
  HoldersAreRunning
  ArrivalOrder
  OneTerminal
PROPERTY
  InFlightUntouched
CHECK_DEADLOCK FALSE

SPECIFICATION Spec
CONSTANTS
  MaxScore = 2
  Calls <- MCCalls
  Dim = 2
  Vec = 2
  Threads = 8
  WarpSize = 2
  MaskDim = 4
INVARIANTS
  DeviceAgreesWithHost
  LaunchesAreClean
  NothingLostInTree

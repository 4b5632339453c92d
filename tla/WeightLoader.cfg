CONSTANTS
  WordSize = 10
  CharSigned = TRUE
  Doc <- MCDoc
  Before <- MCBefore
  After <- MCAfter
SPECIFICATION Spec
INVARIANTS
  FilesReadRight  OwnershipExact ViewsRight

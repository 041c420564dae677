SPECIFICATION Spec
CONSTANTS
  PerBlock = 2
  PerDisc = 4
  NBlocks = 6
  Round = 3
  FbtBits = 3
  Group = 2
  Images <- MCImages
INVARIANTS
  NamedFileIsWhole
  HeaderIsCopy
  SourceOrCopy
  FailureCleansUp
CHECK_DEADLOCK FALSE

SPECIFICATION Spec
CONSTANTS
  MaxDisc = 2
  NBlocks = 4
  PerDisc = 2
  UsedMax = 3
  A = A
  B = B
  C = C
  Images = {A, B, C}
  UsedIdx <- MCUsedIdx
  NoImage = NoImage
  NewIds = {A}
  AvoidFrag = TRUE
  SourceFaults = FALSE
INVARIANTS
  NoBlockShared
  UsedExact
  NoGhostDisc
PROPERTIES
  UniqueIds
  StoreSpec

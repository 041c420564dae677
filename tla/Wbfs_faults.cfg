SPECIFICATION Spec
CONSTANTS
  MaxDisc = 2
  NBlocks = 4
  PerDisc = 2
  UsedMax = 2
  A = A
  B = B
  C = C
  Images = {A, B}
  UsedIdx <- MCUsedIdx
  NoImage = NoImage
  NewIds = {}
  AvoidFrag = FALSE
  SourceFaults = TRUE
INVARIANTS
  NoLiveBlockFree
PROPERTIES
  FbtWriteSafe
  OnlyRemovedVanish

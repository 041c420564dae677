SPECIFICATION Spec
CONSTANTS
  NBlocks = 10
  WordBits = 4
  MemWords = 4
INVARIANTS
  FindsFirstRange
  FullOnlyIfFull
  PackedExactly
PROPERTIES
  TakesNearest
  CallsReturn

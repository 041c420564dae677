SPECIFICATION GeoSpec
CONSTANTS
  HdShifts = {9, 11, 12}
  Sizes <- MCSizes
  WbfsShifts = {21, 22, 26}
  Fills <- MCFills
INVARIANTS
  BlockZeroFits
  EveryBlockHasBit
  TrimKeepsBlocks
  FbtWhereExpected

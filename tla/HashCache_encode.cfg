SPECIFICATION Spec
CONSTANTS
  model = model
  plain = plain
  p = p
  x = x
  y = y
  torn = torn
  tx = tx
  ty = ty
  bad = bad
  odd = odd
  None = None
  Members <- MCMembers
  Items <- MCItems
  Contents <- MCContents
  Versions <- MCVersions
  Torn = torn
  Texts <- MCTexts
  Bad = {bad}
  Unknown = {odd}
  Encode <- MCEncode
  Crashes = FALSE
  SaveOutcomes = {"ok"}
  BuildOutcomes = {"ok"}
  WriteOutcomes = {"ok"}
SYMMETRY Symmetry
INVARIANTS NoFalseHit

SPECIFICATION Spec
CONSTANTS
  Dirs <- MCDirs
  Root = "root"
  Parent <- MCParent
  Below <- MCBelow
  Form <- MCForm
  Window = 1
  Tests = {FALSE, TRUE}
  Crashes = TRUE
  MaxEdits = 1
  MaxTime = 4
INVARIANTS NoSilentLoss UntouchedStay
CHECK_DEADLOCK FALSE

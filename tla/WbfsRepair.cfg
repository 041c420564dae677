SPECIFICATION Spec
CONSTANTS
  MaxDisc = 2
  NBlocks = 3
  PerDisc = 2
  Commands = {"repair", "recover"}
  Modes <- MCModes
INVARIANTS
  HealthyDiscsStay
  RepairDropsFaulty
  RepairConverges
  RecoveredDiscsDisjoint
  RecoverDropsInvalid
PROPERTY FbtWriteSafe

SPECIFICATION Spec
CONSTANTS
  QueueLen = 1
  Commands = {"EV_START", "EV_STOP", "EV_DRY_MODE", "EV_DEBUG_MODE"}
  Coils = {"WATER_IN_V"}
  Flipping = {"L_CYL", "GRAT"}
  Found = {"H_CYL", "LIQ"}
  Ports = 1
  MaxDry = 2
INVARIANTS ModesAgree StatusTruthful LockConsistent FillOnlyInWaterIn
PROPERTY ImplementsChamber
CHECK_DEADLOCK FALSE

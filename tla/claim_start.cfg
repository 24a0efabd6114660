SPECIFICATION Spec
CONSTANTS
  QueueLen = 2
  Commands = {"EV_START", "EV_STOP", "EV_DRY_MODE"}
  Coils = {}
  Flipping = {"H_CYL", "L_CYL"}
  Found = {"H_CYL"}
  Ports = 1
  MaxDry = 1
PROPERTY StartNeedsNoError

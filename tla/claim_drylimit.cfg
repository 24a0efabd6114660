SPECIFICATION Spec
CONSTANTS
  QueueLen = 2
  Commands = {"EV_DRY_MODE"}
  Coils = {}
  Flipping = {"L_CYL"}
  Found = {"H_CYL"}
  Ports = 1
  MaxDry = 1
PROPERTY DryLimit

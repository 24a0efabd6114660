SPECIFICATION Spec
CONSTANTS
  QueueLen = 2
  Commands = {"EV_START"}
  Coils = {}
  Flipping = {"GRAT", "L_CYL"}
  Found = {"H_CYL"}
  Ports = 1
  MaxDry = 1
PROPERTY UnlockRestores

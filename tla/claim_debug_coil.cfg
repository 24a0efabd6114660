SPECIFICATION Spec
CONSTANTS
  QueueLen = 2
  Commands = {"EV_DEBUG_MODE"}
  Coils = {}
  Flipping = {"H_CYL"}
  Found = {"H_CYL"}
  Ports = 1
  MaxDry = 1
PROPERTY DebugCoilLevel

SPECIFICATION Spec
CONSTANTS
  QueueLen = 2
  Commands = {"EV_START", "EV_STOP"}
  Coils = {}
  Flipping = {"LIQ", "L_CYL"}
  Found = {"H_CYL"}
  Ports = 1
  MaxDry = 1
PROPERTY TimeoutsFresh

SPECIFICATION Spec
CONSTANTS
  QueueLen = 2
  Commands = {"EV_START", "EV_STOP"}
  Coils = {}
  Flipping = {"LIQ", "VACUUM", "L_CYL"}
  Found = {"H_CYL", "LIQ"}
  Ports = 2
  MaxDry = 1
INVARIANTS TypeOK TimersOwned NoLostWakeup ReadyNotWet
PROPERTY DrainFirst

SPECIFICATION FairSpec
CONSTANTS
  QueueLen = 2
  Commands = {"EV_START", "EV_STOP"}
  Coils = {}
  Flipping = {"GRAT", "H_CYL", "L_CYL"}
  Found = {"GRAT", "H_CYL"}
  Ports = 1
  MaxDry = 1
INVARIANTS NeverAgainstPhase CurtainStops LockReported
PROPERTY CycleEnds

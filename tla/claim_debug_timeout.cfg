SPECIFICATION Spec
CONSTANTS
  QueueLen = 2
  Commands = {"EV_DEBUG_MODE"}
  Coils = {}
  Flipping = {"GRAT"}
  Found = {}
  Ports = 1
  MaxDry = 1
INVARIANT DebugTimeoutReported

SPECIFICATION Spec
CONSTANTS
  Valves = {20}
  Cylinders = {20}
  Blocks <- NoBlocks
  QueueLen = 1
PROPERTY LevelOfRequest

SPECIFICATION Spec
CONSTANTS
  Valves = {0, 8}
  Cylinders = {}
  Blocks <- ValveBlock
  QueueLen = 1
PROPERTY BlockWritten

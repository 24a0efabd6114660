SPECIFICATION FairSpec
CONSTANTS
  Valves = {8, 20}
  Cylinders = {20}
  Blocks <- SomeBlocks
  QueueLen = 2
INVARIANTS DifferenceExplained CommandCoils
PROPERTY Refreshed

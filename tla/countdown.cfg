SPECIFICATION Spec
CONSTANTS
  Base = 2
  MaxTicks = 9
  QueueLen = 1
INVARIANT ToldNotShort
PROPERTIES NotEarly ImplementsOneShot

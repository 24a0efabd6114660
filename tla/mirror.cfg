SPECIFICATION FairSpec
CONSTANTS
  Words = {"err"}
  QueueLen = 2
  Ports = 2
  MaxCycle = 2
INVARIANTS NoChangeForgotten CyclesApart
PROPERTY Mirrored

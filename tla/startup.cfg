SPECIFICATION FairSpec
CONSTANT MaxEvents = 2
INVARIANTS QueueInTime NewestServed
PROPERTY StartEnds

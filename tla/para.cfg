SPECIFICATION ParaFairSpec
CONSTANTS
  Paras = 2
  Requests <- SomeRequests
  MaxWrites = 3
  MaxQueue = 2
INVARIANTS MixtureTransient OpeningTrue
PROPERTY LastBlockInForce

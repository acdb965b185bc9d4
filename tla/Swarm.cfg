SPECIFICATION FairSpec
CONSTANTS
  Robot = {r1, r2}
  Nil = nil
  Position = {0, 2}
  CommRange = 1
  BeaconPeriod = 2
  NeighbourTimeout = 1
  HelloPeriod = 2
  Quorum = 1
  BootstrapTimeout = 3
  MaxRotations = 1
INVARIANTS NoFalseReject PinsOwn CertVerifies
PROPERTIES TablesConverge BootstrapEnds

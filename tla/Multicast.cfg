SPECIFICATION Spec
CONSTANTS
  a = a
  b = b
  Robot <- Robots
  Nil = Nil
  NeighbourTimeout = 1
  Quorum = 1
  BootstrapTimeout = 1
  MaxIdentities <- Identities
  SocketBuffer <- Buffers
PROPERTIES GhostsFade DiscoveryRests
CHECK_DEADLOCK FALSE

SPECIFICATION Spec
CONSTANTS
  Identity = Identity
  mine = mine
  yours = yours
  BuiltIn <- BuiltIns
  UserType <- UserTypes
  Id <- Ids
  component_id <- Hash
  SystemName = {"s"}
  Period = 2
  RotationPeriod = 2
  MaxTicks = 3
  MaxTime = 6
INVARIANTS TypeSafe AuditTrue Paced
PROPERTIES StopEnds
CHECK_DEADLOCK FALSE

SPECIFICATION FairSpec
CONSTANTS
  Type = {"IDLE", "MOVE", "TRANSMIT", "CUSTOM"}
  Masks <- MaskSet
  CAPACITY = 2
  MaxHealth = 3
  degraded_threshold = 2
  degraded_hysteresis = 1
  decrement_per_fault = 2
  MaxActions = 2
  MaxFaults = 1
INVARIANTS OneFate MaskFollowsState FaultsCharged
PROPERTIES MaskHonoured InOrder QueueDrains HealthDecides

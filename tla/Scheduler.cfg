SPECIFICATION FairSpec
CONSTANTS
  a = a
  b = b
  c = c
  d = d
  System = {a, b, c, d}
  NoSystem = none
  Worker = {w1, w2}
  Desc <- DiamondDesc
  MaxTicks = 2
  MaxRuns = 2
INVARIANTS SchedulerInv HazardExclusion LexOrder
PROPERTIES ExactlyOnce TickTerminates PoolJoins
CHECK_DEADLOCK FALSE

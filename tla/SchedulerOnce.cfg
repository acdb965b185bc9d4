SPECIFICATION Spec
CONSTANTS
  a = a
  b = b
  c = c
  d = d
  System = {a, b, c, d}
  NoSystem = none
  Worker = {w1, w2}
  Desc <- ChainDesc
  MaxTicks = 1
  MaxRuns = 3
INVARIANT DispatchedOnce
CHECK_DEADLOCK FALSE

CONSTANTS
  c1 = c1
  c2 = c2
  c3 = c3
  k1 = k1
  k2 = k2
  k3 = k3
  Callers = {c1, c2, c3}
  SlotKeys = {k1, k2}
  Interval = 2
  MaxConcurrency = 2
  MaxTracked = 1
  MaxCalls = 4
  MaxNow = 3
SPECIFICATION FairRateSpec
INVARIANT PermitsAccounted
PROPERTIES SpacedStarts EveryCallRuns
CHECK_DEADLOCK FALSE

\* Two processes find the lock file of a third, which was killed.
CONSTANTS
  p1 = p1
  p2 = p2
  p3 = p3
  Procs = {p1, p2, p3}
  Steady = 2
  Interval = 3
  Burst = 1
  Stale = 1
  MaxCrashes = 1
  MaxRequests = 1
  MaxNow = 4
SPECIFICATION Spec
INVARIANT WithinBudget
CHECK_DEADLOCK FALSE

\* Two processes, one of which may be killed at any step.
CONSTANTS
  p1 = p1
  p2 = p2
  p3 = p3
  Procs = {p1, p2}
  Steady = 2
  Interval = 3
  Burst = 2
  Stale = 1
  MaxCrashes = 1
  MaxRequests = 3
  MaxNow = 4
SPECIFICATION Spec
INVARIANTS WithinBudget
PROPERTIES NobodyStuck
\* the requests of the model run out
CHECK_DEADLOCK FALSE

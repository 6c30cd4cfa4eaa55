\* The bounds on the clock and on the journal end every behaviour.
\* An append that takes its segment's name before midnight writes after it.
CONSTANTS
  p1 = p1
  p2 = p2
  Procs = {p1, p2}
  Sessions = {s1}
  Commands = {c1}
  Families = {f1}
  NoFamily = NoFamily
  Second = 1
  Window = 2
  DayLength = 2
  MaxAge = 1
  MaxTotal = 2
  Slow = TRUE
  MaxNow = 2
  MaxLines = 3
  MaxSighted = 2
SPECIFICATION Spec
SYMMETRY Symmetric
INVARIANT NothingSkipped
CHECK_DEADLOCK FALSE

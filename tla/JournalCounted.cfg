\* The bounds on the clock and on the journal end every behaviour.
\* Two passes read one batch, or a pass dies before it stores the offset.
CONSTANTS
  p1 = p1
  p2 = p2
  Procs = {p1, p2}
  Sessions = {s1}
  Commands = {c1}
  Families = {f1}
  NoFamily = NoFamily
  Second = 1
  Window = 1
  DayLength = 2
  MaxAge = 1
  MaxTotal = 2
  Slow = FALSE
  MaxNow = 1
  MaxLines = 2
  MaxSighted = 2
SPECIFICATION Spec
SYMMETRY Symmetric
INVARIANT CountedOnce
CHECK_DEADLOCK FALSE

\* The bounds on the clock and on the journal end every behaviour.
\* The clock never advances between a reading of it and the step that uses the reading.
CONSTANTS
  p1 = p1
  p2 = p2
  Procs = {p1, p2}
  Sessions = {s1}
  Commands = {c1}
  Families = {f1}
  NoFamily = NoFamily
  Second = 2
  Window = 4
  DayLength = 4
  MaxAge = 1
  MaxTotal = 2
  Slow = FALSE
  MaxNow = 5
  MaxLines = 3
  MaxSighted = 1
SPECIFICATION OneTorn
SYMMETRY Symmetric
INVARIANTS NothingSkipped OneFailurePerSuccess
PROPERTIES AnchorsAgree
CHECK_DEADLOCK FALSE

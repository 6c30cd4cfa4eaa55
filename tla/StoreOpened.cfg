\* Opens of two releases on a fresh file and on files of every era.
CONSTANTS
  old1 = old1
  old2 = old2
  new = new
  Procs = {old1, old2, new}
  NoProc = NoProc
  Binary <- Releases
  Rows = {r1}
  Found = {0, 2, 3, 8}
  MaxRetries = 1
SPECIFICATION Spec
INVARIANTS StampIsTrue
PROPERTIES NeverDowngraded RowsSurvive OpenReturns

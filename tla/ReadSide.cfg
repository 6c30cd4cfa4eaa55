\* Reading commands: see MCReadSide.  A call, a storm and the clocks may all come to an end.
CONSTANTS
  Retries = 2
  RetryBudget = 5
  MaxRetryAfter = 3
  MaxAsked = 4
  MaxFlight = 2
  MaxPacing = 1
  Readers = {p1, p2}
  CacheTTL = 1
  CommandTimeout = 1
  MaxClock = 5
  MaxMutations = 1
  MaxKills = 1
  MaxSnapshots = 2
  Areas = {a1, a2}
  MaxSignal = 2
  MaxNews = 2
  Callers = {c1, c2}
  Period = 24
  StartRate = 8
  FloorRate = 4
  RampAfter = 2
  Remainings = {0, 1, 6}
  Resets = {8, 24}
  Brake = 12
  Stations = {s1, s2}
  v1 = v1
  Values = {v1, v2}
  Schedulers = {p1, p2}
  Retention = 0
  LastDay = 1
  MaxEdits = 2
  MaxVisits = 3
  SurfaceFamilies = {f1}
  Paths = {c1}
  ShownCap = 1
  ScanLimit = 2
  MaxCandidates = 3
  MaxSightings = 2
  MaxSeen = 1
  ApiPages = 2
  ApiPageSize = 3
  Sizes = {1, 4}
  MaxItems = 2
  MaxBytes = 4
  Note = 1
SPECIFICATION Spec
INVARIANTS
  UnsafeWriteOnce
  EndsInTime
  ServerIsHeard
  ServedFresh
  NoForgottenEntry
  BlankIsTransient
  DriftInOrder
  CommandsAgree
  SignalNotUnderstated
  Polite
  NoDeathSpiral
  CorrectionsWin
  ProvenIsShown
  WalkIsComplete
CHECK_DEADLOCK FALSE

\* Fan-out and local stores: see MCLocalSide.  A fan-out returns, and teaches and changes end.
CONSTANTS
  Sources = 6
  Workers = {w1, w2}
  city = city
  town = town
  rain = rain
  cape = cape
  odd = odd
  odds = odds
  s1 = s1
  Words = {city, town, cape, rain, odd, odds}
  Odd = {odd}
  Dropped = {odds}
  Within <- MCWithin
  Limit = 1
  Stems = {s1}
  Teachers = {p1, p2}
  MaxLearned = 2
  MaxLookups = 1
  Questions <- MCQuestions
  Answers <- MCAnswers
  f1 = f1
  f2 = f2
  j1 = j1
  j2 = j2
  n1 = n1
  n2 = n2
  Families = {f1, f2}
  Own = own
  NoText = NoText
  Seeders = {p1, p2}
  MaxAmends = 1
  Seeds <- MCSeeds
  Ids = {i1, i2, i3}
  Parents = {a, b}
  PageSize = 1
  MaxPages = 2
  Lookups = {p1}
  MaxChanges = 1
  Migrators = {p1, p2}
  Hashes = {f1}
  Clients = {p1, p2}
  Reporters = {p2}
  MaxWork = 3
  MaxTime = 1
  MaxAge = 0
  MaxRows = 2
SPECIFICATION Spec
INVARIANTS
  EverySourceAccounted
  TaughtIsRecalled
  SkipIsJustified
  SeedComplete
  AmendKept
  LegacyRecoverable
  MovedOnlyAfterCopy
  ReportAddsUp
PROPERTIES
  FanoutReturns
  SweepSparesListed
CHECK_DEADLOCK FALSE

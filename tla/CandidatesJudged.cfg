\* Nobody purges: ids are stable and the quarantine holds.
CONSTANTS
  p1 = p1
  p2 = p2
  a1 = a1
  a2 = a2
  Procs = {p1, p2}
  Families = {f1}
  Aliases = {a1, a2}
  Noted = {f1}
  NoFamily = NoFamily
  NoText = NoText
  Agent = Agent
  PurgeInUse = FALSE
  MaxId = 2
  MaxSightings = 2
  MaxSteps = 2
  MaxNotes = 2
SPECIFICATION Spec
SYMMETRY Symmetric
INVARIANTS QuarantineHolds
PROPERTIES ImplementsQuarantine ConfirmsWhatItShowed

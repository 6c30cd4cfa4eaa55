\* A purge between the print and the commit hands the printed id to another candidate.
CONSTANTS
  p1 = p1
  p2 = p2
  a1 = a1
  a2 = a2
  Procs = {p1, p2}
  Families = {f1}
  Aliases = {a1, a2}
  Noted = {}
  NoFamily = NoFamily
  NoText = NoText
  Agent = Agent
  PurgeInUse = TRUE
  MaxId = 2
  MaxSightings = 2
  MaxSteps = 1
  MaxNotes = 1
SPECIFICATION Spec
SYMMETRY Symmetric
PROPERTY ConfirmsWhatItShowed

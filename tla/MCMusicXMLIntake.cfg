SPECIFICATION IntakeSpec
CONSTANTS
  None = None
  A = A
  B = B
  Label = {A, B}
  Ticks = 2
  MaxStaves = 2
  MaxEvents = 3
  ItemBound = 4
  Scores <- MCScores
INVARIANTS
  ReturnsTheWrittenScore
  RefusesExactlyTheIllFormed
  PartsKeepTheirStaves
CHECK_DEADLOCK FALSE

SPECIFICATION Spec
CONSTANTS
  Converter <- TwoConverter
  Score <- MCScore
  ScoreOf <- TwoScoreOf
  Archive <- MCArchive
  Drifted <- MCDrifted
  Unpinned <- MCUnpinned
  Absent = Absent
  MaxCalls = 1
PROPERTY
  OutputIsNeverOverwritten
\* When all calls have been made and have ended there is nothing left to do.
CHECK_DEADLOCK FALSE

SPECIFICATION FairSpec
CONSTANTS
  Converter <- MCConverter
  Score <- MCScore
  ScoreOf <- MCScoreOf
  Archive <- MCArchive
  Drifted <- MCDrifted
  Unpinned <- MCUnpinned
  Absent = Absent
  MaxCalls = 2
INVARIANT
  ReceiptsBindTheOutput
PROPERTIES
  OutputIsNeverOverwritten
  EveryCallEnds
\* When all calls have been made and have ended there is nothing left to do.
CHECK_DEADLOCK FALSE

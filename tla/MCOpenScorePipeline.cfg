SPECIFICATION PipelineSpec
CONSTANTS
  First = First
  Second = Second
  Converter <- MCConverter
  Score <- MCScore
  ScoreOf <- MCScoreOf
  Archive <- MCArchive
  Content <- MCContent
  Drifted = {}
  Unpinned = {}
  Absent = Absent
  MaxCalls = 2
  CallsOf <- MCCallsOf
  Runner <- MCRunner
  Output <- MCOutput
  OutputOf <- MCOutputOf
  Parsable <- MCArchive
  Partial = Partial
  Rootfile <- MCRootfile
  FrameCount <- MCFrameCount
  Ambiguous <- MCAmbiguous
  Manifest <- MCManifest
  MaxPrevious = 2
  MaxCandidates = 3
  MaxRecords = 3
SYMMETRY RunsAreAlike
INVARIANTS
  PublishedPoolIsReceipted
  SuccessIsOnesOwn
  WindowsAreCausal
PROPERTIES
  OutputsAreWriteOnce
\* When every call and run has ended there is nothing left to do.
CHECK_DEADLOCK FALSE

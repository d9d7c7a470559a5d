SPECIFICATION Spec
CONSTANTS
  MCRaised = MCRaised
  MCUnmapped = MCUnmapped
  Raised = MCRaised
  Unmapped = MCUnmapped
  Malformed = Malformed
  Illegible = Illegible
  Absent = Absent
  Partial = Partial
  PartitionRows = 1
  Run <- MCRun
  Label <- MCLabel
  Identity <- MCIdentity
  Vocabulary <- MCVocabulary
  ReferenceOnly <- MCReferenceOnly
  Answer <- MCAnswer
  Compatible <- MCCompatible
  Decision <- MCDecision
  AnswerOf <- MCAnswerOf
  Content <- MCContent
INVARIANTS
  SealCountsAreTrue
  ReadyIsEarned
PROPERTIES
  SealIsWriteOnce
  LeftoverIsDead
CHECK_DEADLOCK FALSE

SPECIFICATION ShadowSpec
CONSTANTS
  NoSpelling = NoSpelling
  NoContext = NoContext
  NoPlan = NoPlan
  NoPhrase = NoPhrase
  MCNothing = MCNothing
  Nothing = MCNothing
  Consulted <- MCConsulted
  SpecialistFact <- Facts
  Answers <- MCAnswers
  AllowedVersion = {"v1"}
  Frame <- MCFrame
  Requests <- MCAllRequests
INVARIANTS
  SequentialEvidenceStaysInThePhrase
  ExactVerdictIgnoresTheNeighbours
  VerdictIsLexicographicallyBest
  SixthCollisionNeedsItsTonic
  SymmetricTieFailsClosed
  EveryDecisionCanBeAudited
  PrimaryLeadsTheRanking
  EvidenceIsTheSoundAnswer
PROPERTIES
  ResolverImplementsVerdictLog
\* The call returns: after the last frame is gated and reported there is
\* nothing left to do.
CHECK_DEADLOCK FALSE

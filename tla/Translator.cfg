SPECIFICATION Spec
CONSTANTS
  MaxWord = 3
  PieceLen <- MCPieceLen
  Jobs <- MCJobs
  Earlier <- MCEarlier
INVARIANTS
  NoParallel
  RegexExact
  StaleOnlyIfSilent
PROPERTIES
  EliminationKeepsLanguage
  Terminates
CHECK_DEADLOCK FALSE

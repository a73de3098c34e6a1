CONSTANTS
  Sources <- MCSources
  DWORD_MAX = 15
  Programs <- MCPrograms
  RightSides <- MCRightSides
  MaxDepth = 3
SPECIFICATION FrontEndSpec
INVARIANTS
  TokensAreTheText
  PlacesAreTrue
  NumbersAreExact
  NoTokenLost
  AcceptsGrammar
  DiagnosticAtCulprit
  CallsInBounds
  ExpansionIsFaithful
PROPERTY
  ExpansionEnds
CHECK_DEADLOCK FALSE

CONSTANTS
  ByteBase = 4
  ByteAnd <- MCByteAnd
  RomSize = 40
  Names <- MCNames
  Requests <- MCRequests
  NoName = NoName
  NoImage = NoImage
SPECIFICATION FairSpec
INVARIANTS
  SectionsApart
  OnlyReferencesChange
  ReferencesHold
  VerdictIsTrue
  LinkedImageLoads
PROPERTY
  LinkReturns
CHECK_DEADLOCK FALSE

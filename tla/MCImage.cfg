CONSTANTS
  ByteBase = 4
  ByteAnd <- MCByteAnd
  Names <- MCNames
  Images <- MCImages
  Files <- MCFiles
  NoName = NoName
  NoImage = NoImage
SPECIFICATION Spec
INVARIANTS
  MemoryIsSafe
  AcceptedIsWellFormed
  RoundTrip
CHECK_DEADLOCK FALSE

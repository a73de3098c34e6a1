CONSTANTS
  ByteBase = 4
  ByteAnd <- MCByteAnd
  RomSize = 40
  Names <- MCNames
  Requests <- MCRequests
  NoName = NoName
  NoImage = NoImage
SPECIFICATION Spec
INVARIANT
  NoAddressWraps
CHECK_DEADLOCK FALSE

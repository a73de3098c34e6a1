CONSTANTS
  ByteBase = 64
  ByteAnd <- MCByteAnd
  RomSize = 24
  RamSize = 8
  StackSize = 4
  Dumps <- HostDumps
  Images <- HostImages
  Input <- MCInput
  NoImage = NoImage
SPECIFICATION HostSpec
PROPERTY
  StartsAtZero
CHECK_DEADLOCK FALSE

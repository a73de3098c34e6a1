CONSTANTS
  ByteBase = 64
  ByteAnd <- MCByteAnd
  RomSize = 40
  RamSize = 12
  StackSize = 8
  Dumps <- HostDumps
  Images <- HostImages
  Input <- MCInput
  NoImage = NoImage
SPECIFICATION HostFairSpec
INVARIANTS
  CopiesOnlyChecked
  AcceptedIsInPlace
PROPERTIES
  StoppedForGood
  StackIsLifo
  RunsReturn
CHECK_DEADLOCK FALSE

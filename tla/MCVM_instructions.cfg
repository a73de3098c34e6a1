CONSTANTS
  ByteBase = 64
  ByteAnd <- MCByteAnd
  RomSize = 32
  RamSize = 13
  StackSize = 8
  Dumps <- InstructionDumps
  Images <- None
  Input <- MCInput
  NoImage = NoImage
SPECIFICATION LoadedSpec
INVARIANT
  ZeroRegister
PROPERTIES
  FaultIsPrecise
  StoresAreExact
CHECK_DEADLOCK FALSE

CONSTANTS
  ByteBase = 64
  ByteAnd <- MCByteAnd
  RomSize = 60
  Names <- MCNames
  SourceLines <- MCSourceLines
  Builds <- MCBuilds
  NoName = NoName
  NoToken = NoToken
  NoOutput = NoOutput
  NoImage = NoImage
SPECIFICATION BuildFairSpec
INVARIANTS
  TypeOK
  LayoutApart
  RawImageHolds
  ObjectMeansLines
  ExecutableIsProgram
  RefusedForSource
PROPERTIES
  LocationsNeverMoveBack
  AssemblerReturns
CHECK_DEADLOCK FALSE

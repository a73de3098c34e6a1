CONSTANTS
  ByteBase = 64
  ByteAnd <- MCByteAnd
  RomSize = 60
  Names <- MCNames
  SourceLines <- MCSourceLines
  Builds <- MCBuilds
  NoName = NoName
  NoToken = NoToken
  NoOutput = NoOutput
  NoImage = NoImage
SPECIFICATION BuildSpec
INVARIANT
  LocalLabelsAreAddresses
CHECK_DEADLOCK FALSE

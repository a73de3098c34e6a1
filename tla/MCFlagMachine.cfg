CONSTANTS
  ByteBase = 4
  ByteAnd <- MCByteAnd
  Operands <- MCOperands
SPECIFICATION Spec
INVARIANTS
  ConditionsOrder
  FlagsAreExact
  DivisionIdentity
CHECK_DEADLOCK FALSE

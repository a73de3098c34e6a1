CONSTANTS
  Sources <- MCSources
  DWORD_MAX = 15
SPECIFICATION Spec
INVARIANT
  SemicolonsBeginComments
CHECK_DEADLOCK FALSE

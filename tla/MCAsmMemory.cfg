CONSTANTS
  Threads = {t1, t2}
  Blocks = {b1, b2, b3, b4, b5, b6}
  NULL = NULL
SYMMETRY Symmetry
SPECIFICATION Spec
INVARIANTS
  OneOwner
  AnswerIsClear
PROPERTY
  IsArena

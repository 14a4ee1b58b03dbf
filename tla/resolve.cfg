SPECIFICATION Spec
CONSTANTS
  Length = 4
  Strengths = {1, 2}
  MaxFound = 3
  Bases = {0, 3, 6}
  Word = 8
INVARIANTS
  TypeOK
  KeptDisjoint
  DroppedIsBeaten
  KeptIsTheKernel
CHECK_DEADLOCK FALSE

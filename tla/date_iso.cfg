SPECIFICATION Spec
CONSTANTS
  MaxFraction = 3
  MaxWide = 1
  RetryPerCandidate = 4
INVARIANTS
  CutsAreKnown
  DayIsSalvaged
CHECK_DEADLOCK FALSE

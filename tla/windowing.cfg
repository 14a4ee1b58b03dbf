SPECIFICATION Spec
CONSTANTS
  Cue <- Word
  CueWindow = 2
  NumberLength = 1
  Overlap = 5
  Documents <- Seven
INVARIANTS
  InnerEntitiesExact
  WideOverlapLosesNothing
CHECK_DEADLOCK FALSE

SPECIFICATION CueSpec
CONSTANTS
  Cue <- Word
  CueWindow = 3
  Fragments <- Everything
INVARIANTS NeverPanics
CHECK_DEADLOCK FALSE

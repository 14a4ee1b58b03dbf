SPECIFICATION CueSpec
CONSTANTS
  Cue <- Word
  CueWindow = 3
  Fragments <- Everything
INVARIANTS
  SlicesAreSound
  CueStaysInItsField
  WordIsFound
  OnlyTheWindowCutsWords
  LabelIsItsHeader
CHECK_DEADLOCK FALSE

SPECIFICATION FairScannerSpec
CONSTANTS
  Size = 3
  Boundaries = {0, 1, 2, 3}
  RuleCount = 2
  PatternSets <- GreedyPatterns
  Resuming = {2}
  Slack = 1
  RetryPerCandidate = 1
  RetryPerFragment = 2
  ResumePerFragment = 2
  Ladders <- EqualOrNot
  Bases = {2}
  Word = 16
INVARIANTS
  LaterRulesFirst
  ResumeTried
  RetriesCountSearches
  EveryMatchAnswered
  AnswerIsExact
PROPERTIES
  KeepsPromise
  EveryCallReturns
CHECK_DEADLOCK FALSE

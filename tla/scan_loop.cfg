SPECIFICATION Spec
CONSTANTS
  Size = 5
  Boundaries = {0, 1, 3, 4, 5}
  RuleCount = 2
  PatternSets <- BesideAResumingRule
  Resuming = {2}
  Slack = 0
  RetryPerCandidate = 2
  RetryPerFragment = 5
  ResumePerFragment = 2
INVARIANTS
  TypeOK
  OnlyMatchesValidated
  SlicesOnBoundaries
  NoMatchUnexamined
  InteriorExamined
  ShallowRejectionsSearched
CHECK_DEADLOCK FALSE

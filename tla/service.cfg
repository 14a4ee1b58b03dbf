SPECIFICATION FairSpec
CONSTANTS
  Environments <- AnyEnvironment
  Minimum <- TwoEntries
  DefaultMaxBody = 2
  Word = 16
  Requests = {r1, r2}
  RequestKinds <- EveryKind
  Workers = 1
  Allowance = 1
INVARIANTS
  TypeOK
  HealthNeverDegraded
  SizeErrorsArePrecise
  DroppedForItsOwnReason
PROPERTIES
  EveryRequestEnds
  ShutdownEnds
CHECK_DEADLOCK FALSE

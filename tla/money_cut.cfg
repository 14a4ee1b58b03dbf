SPECIFICATION Spec
CONSTANTS
  CountryCodes <- SomeCountries
  IbanRegistry <- TwoIbanCountries
  Exponents <- SomeExponents
  Symbols <- SomeSymbols
  WordLikeCodes <- NoCodes
  Plans <- SomePlans
  KnownTlds <- SomeTlds
  Written <- Examples
  Contexts <- Surroundings
  RetryPerCandidate = 8
  RetryPerFragment = 256
  ResumePerFragment = 32
INVARIANTS MinusRefusesTheAmount
CHECK_DEADLOCK FALSE

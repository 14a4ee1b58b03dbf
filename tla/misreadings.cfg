SPECIFICATION MisreadSpec
CONSTANTS
  CountryCodes <- SomeCountries
  IbanRegistry <- TwoIbanCountries
  Samples <- ExampleSamples
INVARIANTS
  MisreadingIsCaught
  SwapIsCaught
  NoNumberIsBoth
  SpanishReadersAgree
CHECK_DEADLOCK FALSE

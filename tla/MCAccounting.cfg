SPECIFICATION Spec
CONSTANTS
  Measure = {"calls", "tokens"}
  Currency = {"EUR", "USD"}
  NoCurrency = NoCurrency
  MaxUnits = 3
  MaxMicro = 1
  Vectors <- SomeVectors
  MaxContributions = 4
CHECK_DEADLOCK FALSE
INVARIANTS
  TypeOK
  TotalsAreExact
  NeverStronger
  CompleteMeansKnown
  FailsForCause

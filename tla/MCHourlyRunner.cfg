SPECIFICATION MCSpec
CONSTANTS
  None = None
  r1 = r1
  r2 = r2
  AAPL = AAPL
  MSFT = MSFT
  Runners <- MCRunners
  Symbols <- MCSymbols
  Settings <- MCSettings
  Outlooks <- MCOutlooks
  MaxDay = 2
  MaxRuns = 2
INVARIANTS
  SealKept
  OnlyPassedEvidence
  ReportsAreTrue
PROPERTIES
  ImplementsPromotionRecord
  RunEnds
CHECK_DEADLOCK FALSE

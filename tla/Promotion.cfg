SPECIFICATION FairSpec
CONSTANTS
  hourly = hourly
  postMerge = postMerge
  Runners <- MCRunners
  MaxRuns <- MCMaxRuns
INVARIANTS
  HistoryIsLegal
  NoFalseGreen
PROPERTIES
  ImplementsPromotionRecord
  RunEnds
CHECK_DEADLOCK FALSE

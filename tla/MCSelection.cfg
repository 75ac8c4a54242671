SPECIFICATION MCSpec
CONSTANTS
  None = None
  AAPL = AAPL
  MSFT = MSFT
  Profile = "v4"
  Bars = 11
  Candidates <- MCCandidates
  Selection <- MCSelectionCriteria
  Statistics <- MCStatistics
  Criteria <- MCCriteria
  TrainRuns <- MCTrainRuns
  TestRuns <- MCTestRuns
  Expanded <- MCExpanded
  Balanced <- MCBalanced
  Family <- MCFamily
  RunSymbols <- MCRunSymbols
  Buckets <- MCBuckets
  Contexts <- MCContexts
  NewestRuns <- MCNewestRuns
  MaxCycles = 2
  Symbol = AAPL
  Symbols <- MCSymbols
  Regimes = {"BULL", "BEAR"}
  Folds <- MCFolds
  ResearchEnd = 4
  MaxAge = 2
  MinFolds = 1
  Hypotheses = {"BULL"}
  Alterations = {"none", "backdated", "relabelled", "withheld", "late"}
  RegisterAt = {0, 1}
  MaxRecords = 2
  MaxCollected = 1
  MaxTrades = 2
INVARIANTS
  WindowsApart
  PromotionsAreEarned
  ChoiceExplained
  OverlapIsEarned
  EligibleIsEarned
  EvidenceNotConfused
  LabelsAreTrue
PROPERTIES
  PastLabelsStay
CHECK_DEADLOCK FALSE

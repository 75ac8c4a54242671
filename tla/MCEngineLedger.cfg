SPECIFICATION LedgerSpec
CONSTANTS
  BPS = 10
  PriceTick = 247
  Cent = 2000
  QuantityIncrement = 1
  HalfSpreadBps = 0
  SlippageBps = 1
  MarketImpactBps = 2
  FeeBps = 1
  MaxVolumeParticipation = 5
  StopLossPct = 3
  RewardRiskRatio = 1
  RiskPerTrade = 3
  MaxPositionPct = 6
  Symbols = {1, 2}
  Shapes = {"quiet", "gapUp"}
  Volumes = {8, 24}
  InitialDollars = 100
  Bars <- MCBars
  InitialEquity <- MCInitialEquity
  CashReservePct = 1
  MaxTotalExposurePct = 6
  MaxOpenPositions = 2
  MaxNewPositionsPerBar = 2
  UseRiskAgent = TRUE
  EmergencyHalt = FALSE
  MaxTradesPerDay = 2
  ForceCloseAtEnd = TRUE
  MaxBatches = 3
INVARIANTS
  SnapshotSuffices
  PublishedIsTrue
  GenuineIsVouched
  DamageIsSeen
  AccountExplained
PROPERTIES
  WithinLimits
CHECK_DEADLOCK FALSE

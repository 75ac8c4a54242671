SPECIFICATION Spec
CONSTANTS
  BPS = 10
  QuantityIncrement = 2
  HalfSpreadBps = 1
  SlippageBps = 0
  MarketImpactBps = 2
  FeeBps = 1
  MaxVolumeParticipation = 5
  StopLossPct = 2
  RewardRiskRatio = 1
  RiskPerTrade = 2
  MaxPositionPct = 8
  Symbols = {1}
  Shapes = {"quiet", "rise", "fall", "both", "gapUp", "gapDown"}
  Volumes = {0, 4, 16}
  InitialDollars = 100
  Bars <- MCBars
  InitialEquity <- MCInitialEquity
  CashReservePct = 1
  MaxTotalExposurePct = 9
  MaxOpenPositions = 1
  MaxNewPositionsPerBar = 1
  UseRiskAgent = TRUE
  EmergencyHalt = FALSE
  MaxTradesPerDay = 2
  ForceCloseAtEnd = TRUE
  MaxBatches = 4
PROPERTIES
  SellSignalWorkedOff
CHECK_DEADLOCK FALSE

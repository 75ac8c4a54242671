SPECIFICATION Spec
CONSTANTS
  BPS = 10
  QuantityIncrement = 2
  HalfSpreadBps = 1
  SlippageBps = 0
  MarketImpactBps = 2
  FeeBps = 1
  MaxVolumeParticipation = 5
  StopLossPct = 2
  RewardRiskRatio = 1
  RiskPerTrade = 1
  MaxPositionPct = 8
  Symbols = {1}
  Shapes = {"quiet", "rise", "fall", "both", "gapUp", "gapDown"}
  Volumes = {0, 6, 16}
  InitialDollars = 120
  Bars <- MCBars
  InitialEquity <- MCInitialEquity
  CashReservePct = 1
  MaxTotalExposurePct = 9
  MaxOpenPositions = 1
  MaxNewPositionsPerBar = 1
  UseRiskAgent = TRUE
  EmergencyHalt = FALSE
  MaxTradesPerDay = 2
  ForceCloseAtEnd = TRUE
  MaxBatches = 4
INVARIANTS
  WithinBarVolume
  FillsStand
PROPERTIES
  StopsAreWorkedOff
  FillsAreConservative
CHECK_DEADLOCK FALSE

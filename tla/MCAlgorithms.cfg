SPECIFICATION MCSpec
CONSTANTS
  BPS = 10
  QuantityIncrement = 2
  HalfSpreadBps = 1
  SlippageBps = 1
  MarketImpactBps = 4
  FeeBps = 1
  MaxVolumeParticipation = 10
  StopLossPct = 3
  RewardRiskRatio = 1
  RiskPerTrade = 2
  MaxPositionPct = 8
  Requests = {0, 3, 6, 7, 10, 12, 13}
  Volumes = {0, 5, 14}
  Prices = {3, 5}
  Budgets = {0, 14, 40, 90}
  Orders <- MCOrders
  FastWindow = 2
  SlowWindow = 3
  MarketBars <- MCBars
  MaxHistory = 6
  MaxBars = 7
  PageMax = 3
  Limit = 5
  MinimumBars = 3
  MaxCandidates = 2
  Slices = 4
  MinPerSlice = 1
  LimitPct = 20
  Returns = {0, 1, 3}
  Lengths = {3, 4, 5}
INVARIANTS
  ReturnsTheLargest
  SignalsAreSound
  FetchIsFaithful
  GateIsFair
PROPERTIES
  LoopsEnd
CHECK_DEADLOCK FALSE

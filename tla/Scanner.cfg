SPECIFICATION Spec
CONSTANTS
  None = None
  Markets <- MCMarkets
  MarketOf <- MCMarketOf
  Deliveries <- MCDeliveries
  UseUniverse = TRUE
  TopSectors = 2
  LeadersPerSector = 1
  PoolLimit = 4
  TargetSize = 5
  MinLiquidity = 50
  MinCluster = 2
  MaxCluster = 3
  MinMembers = 2
  MinCoherence = 5
  MinBreadth = 8
  MaxConcentration = 92
  MinPrice = 5
  MinValue = 100
  MinVolumeRatio = 15
  VwapRequired = FALSE
  MaxPullback = 12
  MinSectorScore = 10
  Window = 1
  ScanInterval = 2
  WeightIntensity = 8
  BonusHigh = 4
  PenaltyVwap = 5
  Decades = 5
  MaxEvents = 3
  MaxSubscribed = 3
  MaxTime = 3
  MaxRuns = 2
INVARIANTS LeadersUnderTopSectors RealtimeOfScan

SPECIFICATION LabSpec
CONSTANTS
  Scale = 1000
  Markets <- MCMarkets
  InitialCapital = 100
  MaxPositions = 2
  Allocation = 50
  Rate = 40
  Commission = 1
  Tax = 2
  Slippage = 1
  StopLoss = 4
  Trailing = 6
  MinBars = 9
  Grids <- MCGrids
  Targets <- MCTargets
  MaxCombos = 2
  Budget = TRUE
  PoolSizes = {1, 2}
  TopK = 1
  Start = 1
  End = 20
INVARIANTS LabTypeOK RoundsExplainCash SurvivorsAboveStop ReportMatchesRanking

SPECIFICATION ThemeSpec
CONSTANTS
  Symbols <- MCSymbols
  Cap <- MCCap
  TopN = 2
  Short = 2
  Medium = 2
  Long = 3
  Lookback = 3
  MinEligible = 2
  MinLeader = 3
  PathRenames <- MCRenames
  Additional <- MCAdditional
  Overrides <- MCOverrides
  OtherBattery <- MCOther
  BatteryCell <- MCCell
  BatteryParts <- MCParts
  File0 <- MCFile
  Markets <- MCMarkets
  MarketOf <- MCMarketOf
  Losses <- MCLosses
  Rounds <- MCRounds
  Archive <- MCArchive
  FirstDay = 3
  Weekdays = {1, 2, 3, 4, 5}
  Sessions = {1, 2, 4, 5}
  MaxDay = 5
  LocalDays = {4}
  MaxRuns = 2
  MinDays = 2
  MaxGap = 2
  MaxDays = 3
  MaxReleases <- MCReleases
  Fallback = 1
  ReportDays = 2
INVARIANTS ScoresMatchHistory LeadersWereFound 
PROPERTY HistoryCarriedOn

SPECIFICATION HSpec
CONSTANTS
  Symbols = {a, b}
  Prices = {50, 100}
  Allocation = 100
  InitialCash = 250
  ImmediateFill = TRUE
  FillDelayPolls = 0
  MaxPositions = 2
  SectorOf <- OneSector
  SectorCap <- TechCap
  MaxDailyNewEntries = 2
  MaxLosing = 0
  DailyLossLimit = 40
  StopLossPct = 8
  Cooldown = 2
  SlotsPerDay = 4
  OpenSlot = 0
  NoEntrySlots = 0
  CutoffSlot = 3
  ForceExitSlot = 3
  CloseSlot = 3
  ForceExitBeforeClose = TRUE
  PersistEvery = 3
  MaxTime = 4
  MaxStarts = 1
  MaxCrashes = 0
INVARIANTS SectorLimit 
PROPERTIES CooldownHolds 
CHECK_DEADLOCK FALSE

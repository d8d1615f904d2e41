SPECIFICATION Spec
CONSTANTS
  Symbols = {a, b}
  Prices = {50, 100}
  Allocation = 100
  InitialCash = 149
  ImmediateFill = TRUE
  FillDelayPolls = 0
  MaxPositions = 1
  SectorOf <- OneSector
  SectorCap <- NoSectorCap
  MaxDailyNewEntries = 3
  MaxLosing = 2
  DailyLossLimit = 40
  StopLossPct = 8
  Cooldown = 1
  SlotsPerDay = 4
  OpenSlot = 0
  NoEntrySlots = 0
  CutoffSlot = 2
  ForceExitSlot = 2
  CloseSlot = 3
  ForceExitBeforeClose = TRUE
  PersistEvery = 1
  MaxTime = 5
  MaxStarts = 1
  MaxCrashes = 0
INVARIANTS TypeOK BooksBalance PositionLimit  
 
CHECK_DEADLOCK FALSE

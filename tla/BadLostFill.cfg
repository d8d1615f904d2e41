SPECIFICATION Spec
CONSTANTS
  Symbols = {a, b}
  Prices = {50, 100}
  Allocation = 100
  InitialCash = 250
  ImmediateFill = FALSE
  FillDelayPolls = 1
  MaxPositions = 2
  SectorOf <- OneSector
  SectorCap <- NoSectorCap
  MaxDailyNewEntries = 2
  MaxLosing = 0
  DailyLossLimit = 40
  StopLossPct = 8
  Cooldown = 1
  SlotsPerDay = 4
  OpenSlot = 0
  NoEntrySlots = 0
  CutoffSlot = 2
  ForceExitSlot = 2
  CloseSlot = 3
  ForceExitBeforeClose = TRUE
  PersistEvery = 2
  MaxTime = 3
  MaxStarts = 0
  MaxCrashes = 0
INVARIANT PolledFillsApplied
CHECK_DEADLOCK FALSE

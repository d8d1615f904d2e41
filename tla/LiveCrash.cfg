SPECIFICATION FairSpec
CONSTANTS
  Symbols = {a, b}
  Prices = {100}
  Allocation = 100
  InitialCash = 200
  ImmediateFill = FALSE
  FillDelayPolls = 1
  MaxPositions = 2
  SectorOf <- OneSector
  SectorCap <- NoSectorCap
  MaxDailyNewEntries = 2
  MaxLosing = 0
  DailyLossLimit = 0
  StopLossPct = 0
  Cooldown = 1
  SlotsPerDay = 4
  OpenSlot = 0
  NoEntrySlots = 0
  CutoffSlot = 2
  ForceExitSlot = 1
  CloseSlot = 3
  ForceExitBeforeClose = TRUE
  PersistEvery = 3
  MaxTime = 1
  MaxStarts = 2
  MaxCrashes = 1
INVARIANTS LedgerAgreement OrdersAgree OneOpenOrder OpenOrderIsPending
PROPERTIES LedgerRestored OrderSettles
CHECK_DEADLOCK FALSE

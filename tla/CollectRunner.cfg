SPECIFICATION Spec
CONSTANTS
  Symbols = {a, b}
  NoSymbol = none
  LastDay = 3
  OpenDays = {1, 2, 3}
  NewYear = 3
  MinRows = 200
  Listed <- OldListings
  Troubled = {a}
  MaxAttempts = 2
  AuditDays = 2
  OnRunner = TRUE
INVARIANTS TypeOK ExclusionsProven NoHoleInPublished
PROPERTY BarsKept
CHECK_DEADLOCK FALSE

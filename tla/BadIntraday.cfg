SPECIFICATION Spec
CONSTANTS
  Symbols = {a, b}
  NoSymbol = none
  LastDay = 3
  OpenDays = {1, 2, 3}
  NewYear = 9
  MinRows = 200
  Listed <- OldListings
  Troubled = {}
  MaxAttempts = 1
  AuditDays = 2
  OnRunner = TRUE
INVARIANT IntradayRefreshed
CHECK_DEADLOCK FALSE

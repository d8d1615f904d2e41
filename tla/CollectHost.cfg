SPECIFICATION LiveSpec
CONSTANTS
  Symbols = {a, b}
  NoSymbol = none
  LastDay = 3
  OpenDays = {1, 3}
  NewYear = 3
  MinRows = 2
  Listed <- NewListing
  Troubled = {a}
  MaxAttempts = 2
  AuditDays = 2
  OnRunner = FALSE
INVARIANTS RunComplete LastIsStored FailuresQueued
PROPERTY RunEnds
CHECK_DEADLOCK FALSE

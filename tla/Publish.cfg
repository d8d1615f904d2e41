SPECIFICATION ConsumerSpec
CONSTANTS
  LastDay = 3
  MaxTags = 3
  Workflows = {"refresh", "from_latest", "bootstrap", "delta"}
  AuditDays = 3
  AllUrls = TRUE
INVARIANTS ConsumerTypeOK  SnapshotsWhole AppliedIsStored OnlyReleasedBars
 
CHECK_DEADLOCK FALSE

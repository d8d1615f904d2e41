SPECIFICATION Spec
CONSTANTS
  LastDay = 2
  MaxTags = 2
  Workflows = {"refresh", "bootstrap"}
  AuditDays = 2
  AllUrls = FALSE
INVARIANT CurrentVerifies
CHECK_DEADLOCK FALSE

SPECIFICATION RescueSpec
CONSTANTS
  MayAutostart = FALSE
  ReloadPlans <- MCOnePlan
  MaxEpoch = 2
  Threshold = 2
  MaxAttempts = 3
  RescueEnabled = TRUE
  SlowChecks = FALSE
PROPERTIES
  StartNeverOrphans
  RescueRespectsIntent
  OnlyWantedStarts

SPECIFICATION Spec
CONSTANTS
  MayAutostart = TRUE
  ReloadPlans <- MCPlans
  MaxEpoch = 2
INVARIANTS
  SuccessLeavesNoBlackhole
  FailedStartStopsCore
  ResetLeavesNothing
PROPERTIES
  NoStartUnderResetLock

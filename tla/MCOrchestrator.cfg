SPECIFICATION Spec
CONSTANTS
  p1 = p1
  p2 = p2
  Profiles <- MCProfiles
  Kinds <- MCKinds
  HardCodes <- MCHardCodes
  SoftCodes <- MCSoftCodes
  ErrorCodes <- MCErrorCodes
  MaxOps = 2
INVARIANTS
  OneOperationAtATime
  GenerationIdentifiesOperation
CHECK_DEADLOCK FALSE
PROPERTIES
  LateRefreshIsHarmless
  FailureIsNotHealthy
  SuccessAppliesDesiredProfile
  ImplementsSlot

SPECIFICATION FileSpec
CONSTANTS
  p1 = p1
  Profiles <- MCProfiles
  Kinds <- MCFewKinds
  HardCodes <- MCHardCodes
  SoftCodes <- MCSoftCodes
  ErrorCodes <- MCErrorCodes
  MaxOps = 2
  WritesFail = FALSE
PROPERTIES
  ResultReachesFile
CHECK_DEADLOCK FALSE

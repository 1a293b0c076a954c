SPECIFICATION Spec
CONSTANTS
  Releases <- MCReleases
  MaxFaults = 2
  MaxRequests = 3
INVARIANTS
  RecordIsTrue
  FailedInstallKeepsBinaries
  SomebodyStays
PROPERTY
  InstallEnds

SPECIFICATION Spec
CONSTANTS
  Releases <- MCReleases
  MaxFaults = 0
  MaxRequests = 3
INVARIANT AcceptedInstallFinishes

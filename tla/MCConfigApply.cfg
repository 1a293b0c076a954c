SPECIFICATION Spec
CONSTANTS
  r1 = r1
  r2 = r2
  Requests = {r1, r2}
  Changes <- MCChanges
  First <- MCFirst
  Sidecar = {"x"}
  BadValues = {0}
  MaxMutations = 2
  MaxFaults = 1
CONSTRAINT OverlapWithoutFaults
SYMMETRY RequestSymmetry
CHECK_DEADLOCK FALSE
INVARIANTS
  AnswerIsTrue
  CrashKeepsOldOrNew
  RuntimeFollowsConfig

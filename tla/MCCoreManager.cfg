SPECIFICATION Spec
CONSTANTS
  c1 = c1
  c2 = c2
  n1 = n1
  n2 = n2
  x1 = x1
  Configs <- MCConfigs
  Nodes <- MCNodes
  XrayNodes <- MCXrayNodes
SYMMETRY Alike
INVARIANTS
  RunningIsWhatRuns
  PidFileFindsIt
PROPERTIES
  CallContract

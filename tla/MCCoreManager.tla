---------------------------- MODULE MCCoreManager ----------------------------
(* Two configurations and three nodes, one of which needs Xray.             *)
EXTENDS CoreManager, TLC

CONSTANTS c1, c2, n1, n2, x1

MCConfigs == {c1, c2}
MCNodes == {n1, n2, x1}
MCXrayNodes == {x1}

\* Configurations are only compared with each other; so are the nodes without Xray.
Alike == Permutations({c1, c2}) \cup Permutations({n1, n2})
=============================================================================

---------------------------- MODULE MCConfigApply ----------------------------
(* A small instance of ConfigApply for TLC. *)
EXTENDS ConfigApply, TLC

CONSTANTS r1, r2
RequestSymmetry == Permutations(Requests)

MCFirst == [node |-> "a", dns |-> 1, rules |-> 1, root |-> 1]
Change(k, p, v, r) == [kind |-> k, part |-> p, value |-> v, reload |-> r]
MCChanges == {Change("profile", "node", "b", TRUE), Change("profile", "rules", 2, TRUE),
              Change("profile", "rules", 3, FALSE), Change("import", "root", 2, TRUE)}

\* Bound: two mutations at once are followed as long as nothing fails.
OverlapWithoutFaults == overlap => faults = 0
=============================================================================

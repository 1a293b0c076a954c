------------------------------ MODULE Selection ------------------------------
(***************************************************************************)
(* The part of a sequence that a loop keeps.  SelectSeq says the same with *)
(* an operator for its test, of which the provers know nothing; here the   *)
(* test is a set of positions, and the recursion a function.               *)
(***************************************************************************)
EXTENDS Naturals, Sequences

\* The elements of s at the positions of I, in their order.
Those(s, I) ==
  LET kept[n \in 0..Len(s)] ==
        IF n = 0 THEN <<>>
        ELSE IF n \in I THEN Append(kept[n - 1], s[n]) ELSE kept[n - 1]
  IN kept[Len(s)]
=============================================================================

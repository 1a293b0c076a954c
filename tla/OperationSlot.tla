---------------------------- MODULE OperationSlot ----------------------------
(***************************************************************************)
(* What the runtime actor of the daemon promises to everybody who asks it  *)
(* for a lifecycle operation (daemon/internal/runtimev2): there is one     *)
(* slot; an operation is accepted only into a free slot and gets the next  *)
(* generation; the operation in the slot is the one that ends, it ends     *)
(* with a recorded verdict, and only then is the slot free again.          *)
(***************************************************************************)
EXTENDS Naturals

VARIABLES
  slot,        \* the operation that owns the runtime, 0 when there is none
  generation,  \* the generation the runtime is at
  lastOp,      \* the operation that ended last, 0 before the first
  lastOk       \* its verdict

slotVars == <<slot, generation, lastOp, lastOk>>

Free == 0

Init ==
  /\ slot = Free
  /\ generation = 0
  /\ lastOp = 0
  /\ lastOk = TRUE

\* A request is let in: the new operation and the new generation are one step.
Accept ==
  /\ slot = Free
  /\ slot' = generation + 1
  /\ generation' = generation + 1
  /\ UNCHANGED <<lastOp, lastOk>>

\* The operation in the slot ends, with success or failure.
Complete ==
  /\ slot # Free
  /\ slot' = Free
  /\ lastOp' = slot
  /\ lastOk' \in BOOLEAN
  /\ UNCHANGED generation

Next == Accept \/ Complete

Spec == Init /\ [][Next]_slotVars /\ WF_slotVars(Complete)

=============================================================================

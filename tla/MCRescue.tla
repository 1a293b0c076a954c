------------------------------ MODULE MCRescue --------------------------------
(* Instances of Rescue for TLC.  A reload is a restart in two of its plans   *)
(* for what rescue sees of it, so one plan is enough where there is any.     *)
EXTENDS Rescue

MCOnePlan == {"swap"}
=============================================================================

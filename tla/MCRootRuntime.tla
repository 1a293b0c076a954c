---------------------------- MODULE MCRootRuntime ----------------------------
(* Instance of RootRuntime for TLC: every kind of reload.                    *)
EXTENDS RootRuntime

MCPlans == Plans
=============================================================================

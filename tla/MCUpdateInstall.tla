-------------------------- MODULE MCUpdateInstall ---------------------------
(* A small instance of UpdateInstall for TLC. *)
EXTENDS UpdateInstall

MCReleases == 1..2
=============================================================================

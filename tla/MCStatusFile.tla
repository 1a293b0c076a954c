---------------------------- MODULE MCStatusFile -----------------------------
(* Instance of StatusFile for TLC: one profile and three kinds of operation, *)
(* of the three ways an operation's closure can go (backend call, stop,      *)
(* function with a readiness gate).                                          *)
EXTENDS StatusFile

CONSTANT p1

MCProfiles == {p1}
MCKinds == {"start", "stop", "profile-apply"}
MCFewKinds == {"profile-apply"}
MCHardCodes == {"TPROXY_PORT_DOWN"}
MCSoftCodes == {}
MCErrorCodes == {""}
=============================================================================

--------------------------- MODULE MCOrchestrator ----------------------------
(* Instance of Orchestrator for TLC.  One code per class of check is enough: *)
(* phaseFromHealth only looks up the stage.                                  *)
EXTENDS Orchestrator

CONSTANTS p1, p2

MCProfiles == {p1, p2}
MCKinds == OperationKinds \ {"config-mutation", "applyDesiredState", "reload"}
MCHardCodes == {"TPROXY_PORT_DOWN"}
MCSoftCodes == {"OUTBOUND_URL_FAILED"}
MCErrorCodes == {"", "CONFIG_CHECK_FAILED"}
=============================================================================

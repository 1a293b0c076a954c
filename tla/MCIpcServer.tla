----------------------------- MODULE MCIpcServer -----------------------------
(* Three clients at a server for two connections, and four handlers.        *)
EXTENDS IpcServer

MCClients == {"a", "b", "c"}
=============================================================================

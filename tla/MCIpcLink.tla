----------------------------- MODULE MCIpcLink ------------------------------
(* IpcLink with two connections: the live one and one not yet noticed dead. *)
EXTENDS IpcLink

CONSTANTS k1, k2

MCConns == {k1, k2}
=============================================================================

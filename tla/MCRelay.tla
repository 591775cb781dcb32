------------------------------- MODULE MCRelay -------------------------------
(* Relay with two connections: the daemon's, and one the relay still holds. *)
EXTENDS Relay

CONSTANTS k1, k2

MCConns == {k1, k2}
=============================================================================

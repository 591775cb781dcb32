----------------------------- MODULE MCWinRing ------------------------------
(* WinRing with two reader threads and the pipe thread. *)
EXTENDS WinRing

CONSTANTS t1, t2

MCReaders == {t1, t2}
=============================================================================

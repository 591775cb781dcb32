----------------------------- MODULE MCHidQueue -----------------------------
(* HidQueue on two host threads, with its abstract specification. *)
EXTENDS HidQueue

CONSTANTS c1, c2

MCCallers == {c1, c2}
=============================================================================

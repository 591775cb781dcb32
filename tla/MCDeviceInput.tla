--------------------------- MODULE MCDeviceInput ----------------------------
(* DeviceInput with two host threads. *)
EXTENDS DeviceInput, TLC

CONSTANTS c1, c2

MCCallers == {c1, c2}

(* No definition tells one host thread from another. *)
CallerSymmetry == Permutations(MCCallers)
=============================================================================

---------------------------- MODULE MCOkvhidLink -----------------------------
(* OkvhidLink with a device and its successor and one socket at a time, or    *)
(* with one device, started once, and two sockets.                           *)
EXTENDS OkvhidLink

CONSTANTS d1, d2, s1, s2

MCDevs == {d1, d2}
MCSocks == {s1, s2}
MCBounds == {[devs |-> {d1, d2}, starts |-> 2, socks |-> {s1}],
             [devs |-> {d1}, starts |-> 1, socks |-> {s1, s2}]}
=============================================================================

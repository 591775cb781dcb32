------------------------------- MODULE MCEdge -------------------------------
(* Edge with one signing identity, a derive and a certification; a host that *)
(* announces one request and may submit another.                             *)
EXTENDS Edge

MCKinds == {"sign", "derive", "certify"}
MCReqs == {[kind |-> k, n |-> 1] : k \in MCKinds}
MCCaps(s, d, c) == [k \in MCKinds |-> IF k = "sign" THEN s
                                      ELSE IF k = "derive" THEN d ELSE c]
MCOffers == {MCCaps(1, 0, 1), MCCaps(0, 1, 0)}
MCRanges == {<<0, 1>>}
=============================================================================

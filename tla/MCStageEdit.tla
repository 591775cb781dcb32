---------------------------- MODULE MCStageEdit ----------------------------
(* StageEdit on every release, target and gate, each tree also one line or   *)
(* file away from what it was measured to be; and on every header there may  *)
(* be, for a release that names its edition.                                *)
EXTENDS StageEdit

Usual == [debug |-> "on", verbose |-> TRUE, layouts |-> "on", std |-> "on", hwid |-> "off"]

Staging(r, drifts) ==
  {[release |-> r, target |-> t, want |-> w, drift |-> d, header |-> Usual, trust |-> TRUE,
    enforce |-> FALSE, std |-> "asStaged", duo |-> "asStaged"] :
     t \in TARGETS, w \in {"on", "off"}, d \in drifts}

(* v2.1.2, v3.0.1, v3.0.3, v3.0.4 drift as a release with the same edits does *)
Drifting == {"v0.2-beta.8", "v2.1.0", "v2.1.1", "v3.0.0", "v3.0.2", "v3.1.01", "working-tree"}

Headers == [debug : {"on", "off", "gone"}, verbose : {TRUE}, layouts : {"on", "gone"},
            std : {"on", "gone"}, hwid : {"on", "off", "gone"}]

Gating ==
  [release : {"v2.1.1"}, target : {"node-linux"}, want : {"on", "off"}, header : Headers,
   trust : BOOLEAN, enforce : BOOLEAN, std : {"asStaged", "off"}, duo : {"asStaged", "on"},
   drift : {NoDrift}]

MCRequests ==
  Gating \cup UNION {Staging(r, IF r \in Drifting THEN Drifts(Releases[r]) ELSE {NoDrift}) : r \in DOMAIN Releases}
=============================================================================

------------------------------ MODULE MCStage ------------------------------
(* Stage with a release and the working tree, the two programs and the two    *)
(* kinds of build the directory of release scripts and a checkout have.      *)
EXTENDS Stage

Script(v, status) == [runs |-> FALSE, version |-> v, status |-> status, emulator |-> "boots"]

(* what is in scripts/versions/ that versions.list() does not filter out; the *)
(* two that are no release are fixes-3.1.0.js and gen-fixes.js               *)
MCScripts ==
  [v \in {WORKING_TREE, "v3.0.4", "gen-fixes", "fixes-3.1.0"} |->
     CASE v = "v3.0.4" -> Script(v, "tested")
       [] v = WORKING_TREE -> Script(v, "tested")
       [] v = "gen-fixes" -> [Script(None, None) EXCEPT !.runs = TRUE]
       [] v = "fixes-3.1.0" -> Script(None, None)]
MCOrder == <<"v3.0.4", "gen-fixes", "fixes-3.1.0">>

Build(v, t, p) == [version |-> v, target |-> t, plugins |-> p]
MCBuilds == {Build(WORKING_TREE, "node-linux", FALSE), Build(WORKING_TREE, "node-linux", TRUE),
             Build("v3.0.4", "node-linux", FALSE), Build("v3.0.4", "android", FALSE)}
=============================================================================

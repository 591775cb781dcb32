------------------------------ MODULE StageEdit ------------------------------
(***************************************************************************)
(* What one run of scripts/stage.js does to the text of the tree it copied:  *)
(* the gates (DEBUG, keyboard layouts, trust-all origins, edition, model),   *)
(* the literal edits of StageTables, and the registers, up to the record the *)
(* run leaves in .stage/build.json.  `npm run stage` goes on to the compiler *)
(* only when the run exits 0.                                               *)
(*                                                                          *)
(* A tree is the lines the tables name that are in it, by file, and the      *)
(* switches of onlykey.h, keylayouts.h and device.cpp.  The sources of a     *)
(* release are not in this repository: a tree carries every line its release *)
(* is patched at and does not declare absent - what the scripts say was      *)
(* measured - or differs from that in one line or file (req.drift), as a     *)
(* re-pin or an edited checkout would.                                      *)
(***************************************************************************)
EXTENDS StageTables, Naturals

CONSTANT Requests   (* the runs there may be *)

Named(e) == e.from[1]
Members(s) == {s[i] : i \in DOMAIN s}
LooksFor(p, e) == {<<p.file, e.from[k]>> : k \in DOMAIN e.from}

(* every edit some run of a release could look for *)
Wanted(r) == Members(PATCHES \o <<APPID_NULL_GUARD>> \o r.patches \o DEBUG_OFF_PATCHES \o r.debugOffPatches)
Absent(r) == r.absent \cup r.debugOffAbsent \cup (IF r.hasOkpqc THEN {} ELSE {okpqc})

(* the tree a release is measured to be.  3.1.0 and the checkouts after it    *)
(* are respelt.                                                             *)
TreeFiles(r) == {p.file : p \in Wanted(r)} \ Absent(r)
TreePatches(r) == {p \in Wanted(r) : p.file \notin Absent(r)}
Carried(p, r) == {e \in Members(p.edits) : Named(e) \notin Absent(r)}
TreeLines(r) ==
  UNION {{<<p.file, IF r.hasOkpqc THEN e.from[Len(e.from)] ELSE Named(e)>> : e \in Carried(p, r)} :
         p \in TreePatches(r)}

(* one line or one file lost, or back although its release says it is gone,  *)
(* or a line there a second time in another spelling                        *)
NoDrift == <<"none">>
FirstSpellings(p) == {<<p.file, Named(e)>> : e \in Members(p.edits)}
Drifts(r) ==
  {NoDrift}
  \cup {<<"lost", l>> : l \in TreeLines(r)}
  \cup {<<"back", l>> : l \in {l \in UNION {FirstSpellings(p) : p \in Wanted(r)} : l[2] \in Absent(r)}}
  \cup {<<"twice", l>> : l \in
          UNION {UNION {LooksFor(p, e) : e \in Carried(p, r)} : p \in TreePatches(r)} \ TreeLines(r)}
  \cup {<<"no file", f>> : f \in TreeFiles(r)}
  \cup {<<"file", f>> : f \in Absent(r) \cap {p.file : p \in Wanted(r)}}

Drifted(r, d) ==
  LET fs == TreeFiles(r)
      ls == TreeLines(r)
  IN CASE d[1] = "none"    -> <<fs, ls>>
       [] d[1] = "lost"    -> <<fs, ls \ {d[2]}>>
       [] d[1] \in {"back", "twice"} -> <<fs, ls \cup {d[2]}>>
       [] d[1] = "no file" -> <<fs \ {d[2]}, {l \in ls : l[1] # d[2]}>>
       [] d[1] = "file"    -> <<fs \cup {d[2]}, ls \cup UNION
                                {FirstSpellings(p) : p \in {p \in Wanted(r) : p.file = d[2]}}>>

Switch == {"on", "off", "gone"}     (* as a header has it *)

(* what OKEMU_* can ask for, of a release there is and any header            *)
ASSUME RequestsAssumption == \A r \in Requests :
  /\ r.release \in DOMAIN Releases /\ r.target \in TARGETS
  /\ r.want \in {"on", "off"} /\ {r.enforce, r.trust} \subseteq BOOLEAN
  /\ {r.std, r.duo} \subseteq {"asStaged", "on", "off"}
  /\ r.header \in [debug : Switch, verbose : BOOLEAN, layouts : Switch, std : Switch, hwid : Switch]
ASSUME DriftsAssumption == \A v \in DOMAIN Releases :
  {r.drift : r \in {r \in Requests : r.release = v}} \subseteq Drifts(Releases[v])

VARIABLES
  req,        (* the run: OKEMU_* as they are read at the start               *)
  header,     (* the switches in the staged tree                              *)
  trust,      (* device.cpp has the trust-all return                          *)
  lines,      (* the <<file, line>> pairs the staged tree carries              *)
  files,      (* the patched files it carries                                 *)
  rebased,    (* no register is at a fixed address                            *)
  phase,      (* the step of main() that is next                              *)
  at,         (* applyPatches: the patch that is next                         *)
  seen,       (* applyPatches: declared lines and files that were looked for   *)
  code,       (* process.exitCode                                             *)
  debugOn,    (* what gateDebug found or made: "on", "off", "null"             *)
  enforcing,  (* what gateTrustAllOrigins returned                            *)
  record      (* build.json                                                   *)

text == <<header, trust, lines, files, rebased>>
found == <<debugOn, enforcing>>
editVars == <<req, text, phase, at, seen, code, found, record>>

release == Releases[req.release]
copied == Drifted(release, req.drift)

EditInit ==
  /\ req \in Requests
  /\ header = req.header
  /\ trust = req.trust
  /\ LET tree == copied IN files = tree[1] /\ lines = tree[2]
  /\ rebased = FALSE
  /\ phase = "debug"
  /\ at = 1
  /\ seen = {}
  /\ code = 0
  /\ debugOn = "null"
  /\ enforcing = FALSE
  /\ record = "none"

-----------------------------------------------------------------------------
(* THE GATES.  A switch reads "on", "off", or "gone" from its header.         *)

(* an uncaught throw, or process.exit: nothing after it runs *)
Stop ==
  /\ phase' = "stopped"
  /\ code' = 1
  /\ UNCHANGED record

(* gateDebug(WANT_DEBUG): what the tree is, or was made; unreadable is null.   *)
(* With the gate turned off the verbose switch goes too.                    *)
GateDebug ==
  /\ phase = "debug"
  /\ IF header.debug = "gone"
       THEN code' = 1 /\ debugOn' = "null" /\ UNCHANGED header
       ELSE /\ header' = [header EXCEPT !.debug = req.want,
                            !.verbose = @ /\ (header.debug = req.want \/ req.want = "on")]
            /\ debugOn' = req.want
            /\ UNCHANGED code
  /\ phase' = "layouts"
  /\ UNCHANGED <<req, trust, lines, files, rebased, at, seen, enforcing, record>>

(* gateKeylayouts(debugOn): follows the gate where the switch exists *)
GateKeylayouts ==
  /\ phase = "layouts"
  /\ header' = [header EXCEPT !.layouts =
       IF debugOn = "null" \/ @ = "gone" THEN @ ELSE debugOn]
  /\ phase' = "trust"
  /\ UNCHANGED <<req, trust, lines, files, rebased, at, seen, code, found, record>>

(* mutant: the cut is made in memory and not written back *)
GateTrustAllOriginsUnwritten ==
  /\ phase = "trust"
  /\ enforcing' = (debugOn = "off" \/ req.enforce)
  /\ phase' = "defines"
  /\ UNCHANGED <<req, text, at, seen, code, debugOn, record>>

(* gateTrustAllOrigins(WANT_ENFORCE, debugOn): the return is compiled only    *)
(* with DEBUG; asked to enforce and not finding it, the stage refuses        *)
GateTrustAllOrigins ==
  /\ phase = "trust"
  /\ UNCHANGED <<req, header, lines, files, rebased, at, seen, debugOn>>
  /\ \/ /\ debugOn = "off" \/ ~req.enforce
        /\ enforcing' = (debugOn = "off")
        /\ phase' = "defines"
        /\ UNCHANGED <<trust, code, record>>
     \/ /\ debugOn # "off" /\ req.enforce
        /\ IF trust THEN /\ trust' = FALSE
                         /\ enforcing' = TRUE
                         /\ phase' = "defines"
                         /\ UNCHANGED <<code, record>>
                    ELSE Stop /\ UNCHANGED <<trust, enforcing>>

(* gateDefine(name, ..., want) *)
GateDefine(switch, want) ==
  IF switch = "gone" \/ want = "asStaged" THEN switch ELSE want

(* STD_VERSION, whose want the release may name, and DEFINED_HWID, which an   *)
(* older release has not got and a DUO cannot be made without               *)
WantStd == IF req.std = "asStaged" THEN release.std ELSE req.std
GateDefines ==
  /\ phase = "defines"
  /\ header' = [header EXCEPT !.std = GateDefine(@, WantStd), !.hwid = GateDefine(@, req.duo)]
  /\ UNCHANGED <<req, trust, lines, files, rebased, at, seen, found>>
  /\ IF req.duo = "on" /\ header.hwid = "gone"
       THEN Stop
       ELSE /\ phase' = "patches"
            /\ code' = IF header.std = "gone" THEN 1 ELSE code
            /\ UNCHANGED record

-----------------------------------------------------------------------------
(* applyPatches(): main() gives it the release's edits and, with DEBUG off,   *)
(* the guards that go with that; and what the release declares absent        *)
PatchesOf == [v \in DOMAIN Releases |-> [gate \in {"on", "off", "null"} |->
  PATCHES \o <<APPID_NULL_GUARD>> \o Releases[v].patches
  \o (IF gate = "off" THEN DEBUG_OFF_PATCHES \o Releases[v].debugOffPatches ELSE <<>>)]]
Patches == PatchesOf[req.release][debugOn]
DeclaredOf(r, gate) ==
  r.absent
  \cup (IF r.pinned /\ ~r.hasOkpqc THEN {okpqc} ELSE {})
  \cup (IF gate = "off" THEN r.debugOffAbsent ELSE {})
Declared == DeclaredOf(release, debugOn)

(* What the tables and the measured trees are, for every release, gate and    *)
(* target.  A patch is a list of edits, and an edit of spellings;             *)
IsList(s) == Len(s) \in Nat /\ DOMAIN s = 1..Len(s)
ASSUME TablesAssumption == \A v \in DOMAIN Releases, gate \in {"on", "off", "null"} :
  LET ps == PatchesOf[v][gate]
  IN  /\ IsList(ps)
      /\ \A a \in DOMAIN ps : /\ IsList(ps[a].edits)
                             /\ \A i \in DOMAIN ps[a].edits : /\ IsList(ps[a].edits[i].from)
                                                              /\ 1 \in DOMAIN ps[a].edits[i].from

(* no line is looked for by two edits of one run;                            *)
Apart(p, i, q, j) == LooksFor(p, p.edits[i]) \cap LooksFor(q, q.edits[j]) = {}
PatchesFor(ps, target) == {a \in DOMAIN ps : target \in PatchTargets(ps[a])}
ASSUME EditsApartAssumption ==
  \A v \in DOMAIN Releases, gate \in {"on", "off", "null"}, target \in TARGETS :
  LET ps == PatchesOf[v][gate]
  IN  \A a, b \in PatchesFor(ps, target) : \A i \in DOMAIN ps[a].edits, j \in DOMAIN ps[b].edits :
        a # b \/ i # j => Apart(ps[a], i, ps[b], j)

(* no tree a run starts from has a line of a file it has not got;            *)
ASSUME TreesAssumption == \A v \in DOMAIN Releases : \A d \in Drifts(Releases[v]) :
  LET tree == Drifted(Releases[v], d) IN \A l \in tree[2] : l[1] \in tree[1]

(* and in the tree a release is measured to be, what its script declares      *)
(* absent is absent, nothing else is, and all of it is looked for by some     *)
(* patch, applied or not, whatever the target.                               *)
LooksAt(p, r, gate, target) ==
  IF target \notin PatchTargets(p) THEN {p.file} \cup {Named(e) : e \in Members(p.edits)}
  ELSE IF p.file \notin TreeFiles(r) THEN {p.file}
  ELSE {Named(e) : e \in Members(p.edits)} \cap DeclaredOf(r, gate)
ASSUME ScriptsAgreeAssumption ==
  \A v \in DOMAIN Releases, gate \in {"on", "off"}, target \in TARGETS :
  LET r == Releases[v]
      ps == PatchesOf[v][gate]
  IN  /\ \A a \in PatchesFor(ps, target) :
           /\ ps[a].file \in TreeFiles(r) \cup DeclaredOf(r, gate)
           /\ ps[a].file \in TreeFiles(r) => \A i \in DOMAIN ps[a].edits :
                Named(ps[a].edits[i]) \in DeclaredOf(r, gate)
                  <=> LooksFor(ps[a], ps[a].edits[i]) \cap TreeLines(r) = {}
      /\ \A d \in DeclaredOf(r, gate) : \E a \in DOMAIN ps : d \in LooksAt(ps[a], r, gate, target)

patch == Patches[at]
More == phase = "patches" /\ at <= Len(Patches)
Mine == req.target \in PatchTargets(patch)
Next1 == at' = at + 1 /\ UNCHANGED <<req, header, trust, files, rebased, found, record>>

(* mutant: another target's patch is passed over, not looked for *)
SkipPatchUnseen ==
  /\ More /\ ~Mine
  /\ Next1
  /\ UNCHANGED <<lines, phase, code, seen>>

(* another target's patch: not applied, but looked for *)
SkipPatch ==
  /\ More /\ ~Mine
  /\ seen' = seen \cup {patch.file} \cup {Named(e) : e \in Members(patch.edits)}
  /\ Next1
  /\ UNCHANGED <<lines, phase, code>>

(* the file is not there: as declared, or an edit that did not apply *)
FileAbsent ==
  /\ More /\ Mine /\ patch.file \notin files
  /\ IF patch.file \in Declared
       THEN seen' = seen \cup {patch.file} /\ UNCHANGED code
       ELSE code' = 1 /\ UNCHANGED seen
  /\ Next1
  /\ UNCHANGED <<lines, phase>>

(* which spellings of an edit a text has; the first that matches is replaced  *)
There(e, ls) == {k \in DOMAIN e.from : <<patch.file, e.from[k]>> \in ls}
Edited(ls, e) ==
  LET k == CHOOSE k \in There(e, ls) : \A n \in There(e, ls) : k <= n
  IN  (ls \ {<<patch.file, e.from[k]>>}) \cup (IF e.keeps THEN {<<patch.file, Named(e)>>} ELSE {})

(* one edit on the file's text; `gone` the edits whose line was not found,    *)
(* `stale` whether one declared absent was                                  *)
EditOne(before, e) ==
  IF There(e, before.ls) = {}
  THEN [before EXCEPT !.gone = @ \cup {Named(e)}]
  ELSE [before EXCEPT !.ls = Edited(@, e), !.stale = @ \/ Named(e) \in Declared]

(* the edits of a patch in order, after each of them and after the last      *)
Edits ==
  LET after[i \in 0..Len(patch.edits)] ==
        IF i = 0 THEN [ls |-> lines, gone |-> {}, stale |-> FALSE]
        ELSE EditOne(after[i - 1], patch.edits[i])
  IN after
RunEdits == Edits[Len(patch.edits)]

(* mutant: a line not found is a warning, the run still exits 0 *)
ApplyPatchQuiet ==
  /\ More /\ Mine /\ patch.file \in files
  /\ \E end \in {RunEdits} : /\ ~end.stale
                           /\ lines' = end.ls
                           /\ seen' = seen \cup (end.gone \cap Declared)
  /\ Next1
  /\ UNCHANGED <<phase, code>>

ApplyPatch ==
  /\ More /\ Mine /\ patch.file \in files
  /\ \E end \in {RunEdits} : /\ ~end.stale
                           /\ lines' = end.ls
                           /\ seen' = seen \cup (end.gone \cap Declared)
                           /\ code' = IF end.gone \subseteq Declared THEN code ELSE 1
  /\ Next1
  /\ UNCHANGED phase

(* a line its release declares absent is there: throw, the file not written  *)
StaleClaim ==
  /\ More /\ Mine /\ patch.file \in files
  /\ RunEdits.stale
  /\ Stop
  /\ UNCHANGED <<req, text, at, seen, found>>

(* a line declared absent that no patch looked for: throw *)
CheckDeclared ==
  /\ phase = "patches" /\ at > Len(Patches)
  /\ UNCHANGED <<req, text, at, seen, found>>
  /\ IF Declared \subseteq seen THEN phase' = "registers" /\ UNCHANGED <<code, record>> ELSE Stop

-----------------------------------------------------------------------------
(* rewriteRegisterBlocks(): a header without registers or without its include *)
(* guard is left as it was, and the run fails                               *)
RewriteRegisterBlocks ==
  /\ phase = "registers"
  /\ \/ rebased' = TRUE /\ UNCHANGED code
     \/ rebased' = FALSE /\ code' = 1
  /\ phase' = "record"
  /\ UNCHANGED <<req, header, trust, lines, files, at, seen, found, record>>

(* build.json, last: it says what the gates returned *)
WriteBuildJson ==
  /\ phase = "record"
  /\ record' = [debug |-> debugOn, std |-> header.std, enforce |-> enforcing,
                model |-> IF header.hwid = "on" THEN "duo" ELSE "classic"]
  /\ phase' = "done"
  /\ UNCHANGED <<req, text, at, seen, code, found>>

EditNext ==
  \/ GateDebug \/ GateKeylayouts \/ GateTrustAllOrigins \/ GateDefines
  \/ SkipPatch \/ FileAbsent \/ ApplyPatch \/ StaleClaim \/ CheckDeclared
  \/ RewriteRegisterBlocks \/ WriteBuildJson

EditSpec == EditInit /\ [][EditNext]_editVars

-----------------------------------------------------------------------------
(* a run `npm run stage` goes on to compile from *)
Passed == phase = "done" /\ code = 0

(* an edit is made: of the spellings its line was there in, the first is      *)
(* replaced, by text that still has the line where the edit keeps it         *)
Made(p, e, was, is) ==
  \E k \in DOMAIN e.from :
    /\ <<p.file, e.from[k]>> \in was
    /\ \A n \in DOMAIN e.from : n < k => <<p.file, e.from[n]>> \notin was
    /\ (e.keeps /\ k = 1) \/ <<p.file, e.from[k]>> \notin is
    /\ e.keeps => <<p.file, Named(e)>> \in is

(* A tree that goes to the compiler is whole: every edit for this target whose *)
(* line was in the copied tree is made, and its line is not one the release   *)
(* declares absent; every other edit's line, or its file, is declared absent. *)
(* No drift of the sources that takes a line or brings one back is passed     *)
(* over (stage.js:1643).                                                    *)
NothingHalfApplied ==
  Passed =>
    /\ rebased
    /\ LET was == copied[2]
       IN  \A p \in {p \in Members(Patches) : req.target \in PatchTargets(p)} :
             \A e \in Members(p.edits) :
               IF LooksFor(p, e) \cap was = {}
                 THEN {p.file, Named(e)} \cap Declared # {}
                 ELSE Named(e) \notin Declared /\ Made(p, e, was, lines)

(* The scripts agree with each other: a release whose sources are what they   *)
(* were measured to be stages for every target and every gate - no claim of   *)
(* one script is stale because of the target, the gate or another list.       *)
ReleasesStage ==
  (phase = "stopped" \/ code = 1) =>
    \/ req.drift # NoDrift
    \/ header.debug = "gone" \/ header.std = "gone"
    \/ req.duo = "on" /\ header.hwid = "gone"
    \/ req.enforce /\ debugOn # "off" /\ ~req.trust
    \/ phase \in {"record", "done"} /\ ~rebased

(* The record tells the tree, not the request: a build said to enforce the    *)
(* origin table has no trust-all return compiled in, a build that has one is  *)
(* not said to, and the layouts compiled are those of the gate.              *)
RecordTellsTheTree ==
  Passed =>
    /\ record.debug = header.debug
    /\ record.enforce => ~(header.debug = "on" /\ trust)
    /\ ~record.enforce => header.debug = "on" /\ ~req.enforce
    /\ header.layouts \in {"gone", header.debug}
    /\ header.debug = "off" => ~header.verbose \/ req.header.debug = "off"
    /\ record.std = header.std /\ (record.model = "duo") = (header.hwid = "on")
    /\ req.duo = "on" => record.model = "duo"
=============================================================================

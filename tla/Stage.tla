-------------------------------- MODULE Stage --------------------------------
(***************************************************************************)
(* What a stage leaves on the disk, run after run: scripts/stage.js's main() *)
(* from the release's script to .stage/build.json, the compiler after it     *)
(* (`npm run build`, or Gradle for Android), and scripts/matrix.js, which    *)
(* drives one build per release and then puts the working tree back.         *)
(*                                                                          *)
(* Only the files of a run matter here: the unpacked sources of a release    *)
(* and their stamps, the staged tree and its record, the compiled objects    *)
(* and the marker saying whose they are.  What an edit does to a file is     *)
(* StageEdit's.  A run can be killed between any two of its writes, and may  *)
(* be for the other kind of build than the last.                            *)
(***************************************************************************)
EXTENDS Naturals, Sequences, FiniteSets

CONSTANTS
  Scripts,    (* scripts/versions/*.js by name: [runs, version, status, emulator]  *)
  Order,      (* the names versions.list() gives, in its order                *)
  Builds,     (* what may be asked for by hand: [version, target, plugins]    *)
  MaxRuns,    (* bound: stage runs in one behaviour                           *)
  MaxKills,   (* bound: runs killed                                           *)
  MaxPin      (* bound: a release is re-pinned MaxPin - 1 times               *)

ASSUME BoundsAssumption == MaxRuns \in Nat /\ MaxKills \in Nat /\ MaxPin \in Nat \ {0}
(* releases and targets are named by file names and environment variables    *)
ASSUME NamesAssumption ==
  /\ DOMAIN Scripts \subseteq STRING /\ Order \in Seq(STRING)
  /\ Builds \subseteq [version : STRING, target : STRING, plugins : BOOLEAN]

WORKING_TREE == "working-tree"
STATUS == {"blocked", "untried", "stages", "builds", "boots", "tested"}
Repos == <<"OnlyKey-Firmware", "libraries">>
Kinds == {"node", "android"}
ObjectDirs == 1..2        (* OBJECT_DIRS: Release and Debug, .cxx and intermediates *)
Pinned == {v \in DOMAIN Scripts : Scripts[v].version = v /\ v # WORKING_TREE}
None == "none"

VARIABLES
  pins,      (* node-onlykey-lib's pin of each repository, one for all releases *)
  scriptPins,(* ... and the pins the release's script was written against     *)
  cache,     (* .stage-src/<version>/<repo>: [stamp, of, whole]                *)
  tree,      (* .stage: [of, whole, info], `of` the builds its files are from  *)
  marker,    (* .stage-identity-<kind>                                        *)
  objs,      (* the compiled objects: per kind and directory, whose they are   *)
  run,       (* the build under way                                           *)
  pc,        (* the step of it that is next                                   *)
  step,      (* where a loop of it is                                         *)
  exitCode,  (* process.exitCode                                              *)
  matrix,    (* matrix.js: [state, asked, todo, done, wasRunning]             *)
  daemon,    (* pm2 runs the emulator                                         *)
  env,       (* OKEMU_VERSION in the shell matrix.js is run from, or None      *)
  runs, kills

disk == <<cache, tree, marker, objs>>
world == <<pins, scriptPins>>
vars == <<world, disk, run, pc, step, exitCode, matrix, daemon, env, runs, kills>>

Kind(r) == IF r.target = "android" THEN "android" ELSE "node"
(* cleanOnSwap(): the identity a marker holds, of what was asked for *)
Identity(r) == [version |-> r.version, target |-> r.target, plugins |-> r.plugins]
(* what build.json says, and what a staged file is from *)
Info(r) == [id |-> Identity(r), pins |-> IF r.version = WORKING_TREE THEN <<>> ELSE scriptPins]

NoBuild == [version |-> None, target |-> None, plugins |-> FALSE]
NoInfo == [id |-> NoBuild, pins |-> <<>>]
Empty == [of |-> {}, whole |-> FALSE, info |-> NoInfo]

Init ==
  /\ pins = [i \in 1..2 |-> 1] /\ scriptPins = pins
  /\ cache = [v \in Pinned |-> [i \in 1..2 |-> [stamp |-> 0, of |-> 0, whole |-> FALSE]]]
  /\ tree = Empty
  /\ marker = [k \in Kinds |-> NoBuild]
  /\ objs = [k \in Kinds |-> [d \in ObjectDirs |-> {}]]
  /\ run = NoBuild /\ pc = "idle" /\ step = 1 /\ exitCode = 0
  /\ matrix = [state |-> "none", asked |-> FALSE, todo |-> <<>>, done |-> {}, wasRunning |-> FALSE]
  /\ daemon \in BOOLEAN
  /\ env \in {None} \cup Pinned
  /\ runs = 0 /\ kills = 0

(* A re-pin: the library's table moves on, and the script is re-measured and  *)
(* follows.  Pins are never moved back.                                     *)
MovePin(i) ==
  /\ pins[i] < MaxPin
  /\ pins' = [pins EXCEPT ![i] = @ + 1]
  /\ UNCHANGED <<scriptPins, disk, run, pc, step, exitCode, matrix, daemon, env, runs, kills>>
FollowPins ==
  /\ scriptPins # pins /\ pc = "idle"
  /\ scriptPins' = pins
  /\ UNCHANGED <<pins, disk, run, pc, step, exitCode, matrix, daemon, env, runs, kills>>

-----------------------------------------------------------------------------
(* versions.load(): "release", or that it throws; a file of the directory     *)
(* that is a program runs as it is required, and ends the process            *)
Load(name) ==
  IF name \notin DOMAIN Scripts THEN "throws"
  ELSE IF Scripts[name].runs THEN "exits"
  ELSE IF /\ Scripts[name].version = name
          /\ Scripts[name].status \in STATUS
          /\ Scripts[name].emulator \in STATUS
          /\ name = WORKING_TREE \/ scriptPins = pins
       THEN "release" ELSE "throws"
(* targetStatus() *)
TargetStatus(r) ==
  IF r.target = "android" THEN Scripts[r.version].status ELSE Scripts[r.version].emulator

Idle == pc = "idle"
Quit(code) == pc' = "over" /\ exitCode' = code
Goto(next) == pc' = next /\ UNCHANGED exitCode

(* stage.js starts; `r` is what the environment asks for *)
Start(r) ==
  /\ runs < MaxRuns
  /\ runs' = runs + 1
  /\ run' = r
  /\ pc' = "load" /\ step' = 1 /\ exitCode' = 0
BuildByHand(r) ==
  /\ Idle /\ matrix.state \in {"none", "over"}
  /\ Start(r)
  /\ UNCHANGED <<world, disk, matrix, daemon, env, kills>>

running == <<run, matrix, daemon, env, runs, kills>>

LoadRelease ==
  /\ pc = "load"
  /\ IF Load(run.version) # "release" \/ TargetStatus(run) = "blocked" THEN Quit(1) ELSE Goto("swap")
  /\ UNCHANGED <<world, disk, step, running>>

(* mutant: the marker is written with the first directory removed *)
DropObjectsMarked ==
  /\ pc = "swap" /\ marker[Kind(run)] # Identity(run) /\ step \in ObjectDirs
  /\ marker' = [marker EXCEPT ![Kind(run)] = Identity(run)]
  /\ objs' = [objs EXCEPT ![Kind(run)][step] = {}]
  /\ step' = step + 1
  /\ UNCHANGED <<world, cache, tree, pc, exitCode, running>>

(* cleanOnSwap(): the objects of this kind go, directory by directory, and    *)
(* then the marker is written                                               *)
SameIdentity ==
  /\ pc = "swap" /\ marker[Kind(run)] = Identity(run)
  /\ Goto("plugins") /\ step' = 1
  /\ UNCHANGED <<world, disk, running>>
DropObjects ==
  /\ pc = "swap" /\ marker[Kind(run)] # Identity(run) /\ step \in ObjectDirs
  /\ objs' = [objs EXCEPT ![Kind(run)][step] = {}]
  /\ step' = step + 1
  /\ UNCHANGED <<world, cache, tree, marker, pc, exitCode, running>>
WriteMarker ==
  /\ pc = "swap" /\ marker[Kind(run)] # Identity(run) /\ step \notin ObjectDirs
  /\ marker' = [marker EXCEPT ![Kind(run)] = Identity(run)]
  /\ Goto("plugins") /\ step' = 1
  /\ UNCHANGED <<world, cache, tree, objs, running>>

(* firmwarePlugins.load() throws on a bad plugin, before anything is staged *)
LoadPlugins ==
  /\ pc = "plugins"
  /\ \/ Goto(IF run.version = WORKING_TREE THEN "clear" ELSE "unpack")
     \/ run.plugins /\ Quit(1)
  /\ UNCHANGED <<world, disk, step, running>>

-----------------------------------------------------------------------------
(* materialiseVersion(): each repository is reused if its stamp is the pin;   *)
(* else it is removed, unpacked, and stamped last                           *)
Unpacked == cache[run.version][step]
SetCache(c) == cache' = [cache EXCEPT ![run.version][step] = c]

ReuseCache ==
  /\ pc = "unpack" /\ step \in 1..2
  /\ Unpacked.stamp = scriptPins[step]
  /\ step' = step + 1
  /\ UNCHANGED <<world, disk, pc, exitCode, running>>
(* rmrf: what is left while it goes on is some of the files, the stamp among  *)
(* them or not                                                              *)
RemoveCache ==
  /\ pc = "unpack" /\ step \in 1..2
  /\ Unpacked.stamp # scriptPins[step]
  /\ \/ Unpacked.of # 0 /\ \E s \in {0, Unpacked.stamp} : SetCache([Unpacked EXCEPT !.stamp = s, !.whole = FALSE])
        /\ Unpacked.whole /\ UNCHANGED <<pc, exitCode>>
     \/ SetCache([stamp |-> 0, of |-> 0, whole |-> FALSE]) /\ Goto("fill")
  /\ UNCHANGED <<world, tree, marker, objs, step, running>>
(* mutant: the stamp is written with the first file *)
FillCacheStamped ==
  /\ pc = "fill"
  /\ \/ SetCache([stamp |-> scriptPins[step], of |-> scriptPins[step], whole |-> FALSE]) /\ Goto("filled")
     \/ Quit(1) /\ UNCHANGED cache
  /\ UNCHANGED <<world, tree, marker, objs, step, running>>

(* materialise(): git has the commit or it throws; files appear one by one *)
FillCache ==
  /\ pc = "fill"
  /\ \/ SetCache([stamp |-> 0, of |-> scriptPins[step], whole |-> FALSE]) /\ Goto("filled")
     \/ Quit(1) /\ UNCHANGED cache
  /\ UNCHANGED <<world, tree, marker, objs, step, running>>
FinishCache ==
  /\ pc = "filled"
  /\ SetCache([Unpacked EXCEPT !.whole = TRUE])
  /\ Goto("stamp")
  /\ UNCHANGED <<world, tree, marker, objs, step, running>>
StampCache ==
  /\ pc = "stamp"
  /\ SetCache([Unpacked EXCEPT !.stamp = scriptPins[step]])
  /\ step' = step + 1
  /\ Goto("unpack")
  /\ UNCHANGED <<world, tree, marker, objs, running>>
AllUnpacked ==
  /\ pc = "unpack" /\ step \notin 1..2
  /\ Goto("clear")
  /\ UNCHANGED <<world, disk, step, running>>

-----------------------------------------------------------------------------

(* the checkouts and the core must exist; then .stage is removed, cut at any  *)
(* point, its record left or not                                            *)
ClearStage ==
  /\ pc = "clear"
  /\ \/ Quit(1) /\ UNCHANGED tree
     \/ /\ tree.whole
        /\ \E i \in {NoInfo, tree.info} : tree' = [tree EXCEPT !.whole = FALSE, !.info = i]
        /\ UNCHANGED <<pc, exitCode>>
     \/ tree' = Empty /\ Goto("copy")
  /\ UNCHANGED <<world, cache, marker, objs, step, running>>

SourcesWhole ==
  run.version # WORKING_TREE =>
    \A i \in 1..2 : cache[run.version][i].whole /\ cache[run.version][i].of = scriptPins[i]

(* core, override, libraries and sketch are copied file by file; a copy of    *)
(* what is not all there is not the release                                 *)
CopySources ==
  /\ pc = "copy"
  /\ tree' = [tree EXCEPT !.of = @ \cup {IF SourcesWhole THEN Info(run) ELSE NoInfo}]
  /\ Goto("edit")
  /\ UNCHANGED <<world, cache, marker, objs, step, running>>

(* gates, edits, plugin hooks, registers: StageEdit.  It throws, or goes on   *)
(* with an exit code                                                        *)
EditSources ==
  /\ pc = "edit"
  /\ \/ Quit(1) /\ UNCHANGED tree
     \/ tree' = [tree EXCEPT !.whole = TRUE] /\ Goto("record")
     \/ tree' = [tree EXCEPT !.whole = TRUE] /\ pc' = "record" /\ exitCode' = 1
  /\ UNCHANGED <<world, cache, marker, objs, step, running>>
WriteRecord ==
  /\ pc = "record"
  /\ tree' = [tree EXCEPT !.info = Info(run)]
  /\ IF exitCode = 0 THEN Goto("compile") ELSE Quit(1)
  /\ UNCHANGED <<world, cache, marker, objs, step, running>>

(* `npm run stage && node-gyp build`, or CMake after Gradle's stage: the      *)
(* build tool tracks timestamps, and what it does not recompile it links as  *)
(* it is.  It writes some of its directories, and may fail.                 *)
Compile ==
  /\ pc = "compile"
  /\ \E ds \in SUBSET ObjectDirs : \E stale \in BOOLEAN :
        objs' = [objs EXCEPT ![Kind(run)] = [d \in ObjectDirs |->
                   IF d \in ds THEN {Identity(run)} \cup (IF stale THEN @[d] ELSE {}) ELSE @[d]]]
  /\ \E code \in {0, 1} : Quit(code)
  /\ UNCHANGED <<world, cache, tree, marker, step, running>>

(* the process ends *)
Over ==
  /\ pc = "over" /\ matrix.state # "building" /\ matrix.state # "restoring"
  /\ pc' = "idle" /\ run' = NoBuild /\ step' = 1 /\ exitCode' = 0
  /\ UNCHANGED <<world, disk, matrix, daemon, env, runs, kills>>

(* a kill, or the power going: of the run and of the matrix that drives it *)
Kill ==
  /\ pc # "idle" \/ matrix.state \notin {"none", "over"}
  /\ kills < MaxKills
  /\ kills' = kills + 1
  /\ pc' = "idle" /\ run' = NoBuild /\ step' = 1 /\ exitCode' = 0
  /\ matrix' = [matrix EXCEPT !.state = "none", !.todo = <<>>, !.done = {}]
  /\ UNCHANGED <<world, disk, daemon, env, runs>>

-----------------------------------------------------------------------------
(* matrix.js.  No argument is every name of versions.list(); each is loaded   *)
(* before anything is stopped, and a throw or an exit ends the run there.     *)
Matrix(asked) ==
  /\ Idle /\ matrix.state \in {"none"} /\ runs + 2 <= MaxRuns
  /\ LET list == IF asked = <<>> THEN Order ELSE asked
     IN IF \A i \in DOMAIN list : Load(list[i]) = "release"
        THEN /\ matrix' = [state |-> "next", asked |-> asked # <<>>, todo |-> list, done |-> {}, wasRunning |-> daemon]
             /\ daemon' = FALSE                 (* pm2 stop *)
        ELSE /\ matrix' = [matrix EXCEPT !.state = "over", !.asked = asked # <<>>, !.done = {}]
             /\ UNCHANGED daemon
  /\ UNCHANGED <<world, disk, run, pc, step, exitCode, env, runs, kills>>

(* buildAndCheck(): build/ goes, whatever the marker says, and the build runs. *)
(* The working tree's environment adds nothing to the shell's.              *)
DropBuild == objs' = [objs EXCEPT !["node"] = [d \in ObjectDirs |-> {}]]
MatrixBuild ==
  /\ matrix.state = "next" /\ Idle
  /\ DropBuild
  /\ IF matrix.todo # <<>>
       THEN /\ Start([version |-> Head(matrix.todo), target |-> "node-linux", plugins |-> FALSE])
            /\ matrix' = [matrix EXCEPT !.state = "building"]
       ELSE /\ Start([version |-> IF env = None THEN WORKING_TREE ELSE env,
                      target |-> "node-linux", plugins |-> FALSE])
            /\ matrix' = [matrix EXCEPT !.state = "restoring"]
  /\ UNCHANGED <<world, cache, tree, marker, daemon, env, kills>>

(* an exception ends the loop; what is in `finally` runs all the same *)
MatrixThrows ==
  /\ matrix.state = "next" /\ Idle /\ matrix.todo # <<>>
  /\ matrix' = [matrix EXCEPT !.todo = <<>>]
  /\ UNCHANGED <<world, disk, run, pc, step, exitCode, daemon, env, runs, kills>>

(* a row of the table; press.js and compat.js change nothing on the disk *)
MatrixRow ==
  /\ matrix.state = "building" /\ pc = "over"
  /\ matrix' = [matrix EXCEPT !.state = "next", !.todo = Tail(@), !.done = @ \cup {Head(matrix.todo)}]
  /\ pc' = "idle" /\ run' = NoBuild /\ step' = 1 /\ exitCode' = 0
  /\ UNCHANGED <<world, disk, daemon, env, runs, kills>>

(* mutant: the daemon is started whether or not it was running *)
MatrixRestoredStarts ==
  /\ matrix.state = "restoring" /\ pc = "over"
  /\ matrix' = [matrix EXCEPT !.state = IF exitCode = 0 THEN "over" ELSE "failed"]
  /\ daemon' = TRUE
  /\ pc' = "idle" /\ run' = NoBuild /\ step' = 1 /\ exitCode' = 0
  /\ UNCHANGED <<world, disk, env, runs, kills>>

(* the working tree is back; the daemon is started if it was running *)
MatrixRestored ==
  /\ matrix.state = "restoring" /\ pc = "over"
  /\ matrix' = [matrix EXCEPT !.state = IF exitCode = 0 THEN "over" ELSE "failed"]
  /\ daemon' = matrix.wasRunning
  /\ pc' = "idle" /\ run' = NoBuild /\ step' = 1 /\ exitCode' = 0
  /\ UNCHANGED <<world, disk, env, runs, kills>>

Next ==
  \/ \E i \in 1..2 : MovePin(i)
  \/ FollowPins
  \/ \E r \in Builds : BuildByHand(r)
  \/ LoadRelease \/ SameIdentity \/ DropObjects \/ WriteMarker \/ LoadPlugins
  \/ ReuseCache \/ RemoveCache \/ FillCache \/ FinishCache \/ StampCache \/ AllUnpacked
  \/ ClearStage \/ CopySources \/ EditSources \/ WriteRecord \/ Compile
  \/ Over \/ Kill
  \/ \E asked \in {<<>>} \cup {<<v>> : v \in Pinned} : Matrix(asked)
  \/ MatrixBuild \/ MatrixThrows \/ MatrixRow \/ MatrixRestored

Spec == Init /\ [][Next]_vars

-----------------------------------------------------------------------------
(* No silently mixed emulator: compiled objects that may be linked are of the *)
(* build the marker of their kind names, whatever was killed and whichever    *)
(* kind of build ran in between.                                            *)
ObjectsOfOneBuild ==
  \A k \in Kinds : \A d \in ObjectDirs : objs[k][d] \subseteq {marker[k]}

(* What the compiler is given is the release asked for, all of it, at the     *)
(* pins its script was written against - never a mix of two, a half unpacked  *)
(* cache or a tree half removed.                                            *)
CompilesWhatWasAsked ==
  pc = "compile" => tree.whole /\ tree.of = {Info(run)} /\ tree.info = Info(run)

(* A matrix run started from a shell that names no release, and whose last    *)
(* build went well, leaves the working tree staged, none of another release's *)
(* objects where the addon is loaded from, and the daemon as it found it.    *)
MatrixPutsBack ==
  [][ matrix.state = "restoring" /\ matrix'.state = "over" /\ env = None =>
        /\ tree.info.id.version = WORKING_TREE /\ tree.of = {tree.info}
        /\ \A d \in ObjectDirs : objs["node"][d] \subseteq {tree.info.id}
        /\ daemon' = matrix.wasRunning ]_vars

(* matrix.js:5 "node scripts/matrix.js   every release, then the working tree": *)
(* asked for nothing, a matrix run that is over has built every release.  It *)
(* does not hold: README, Divergences.                                       *)
MatrixIsEveryRelease ==
  matrix.state = "over" /\ ~matrix.asked =>
    Pinned \subseteq matrix.done
=============================================================================

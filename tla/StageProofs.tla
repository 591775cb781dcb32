----------------------------- MODULE StageProofs -----------------------------
(***************************************************************************)
(* Objects of two builds are never linked together, the compiler is given    *)
(* the release that was asked for, and the matrix puts the working tree back: *)
(* for every directory of release scripts, any number of runs, kills and     *)
(* re-pins (Stage).  The record of one run tells the tree it is of, a tree    *)
(* that goes to the compiler has every edit made, and a release as it was     *)
(* measured stages: for any request, header and drift (StageEdit).            *)
(***************************************************************************)
EXTENDS Stage, StageEdit, WellFoundedInduction, TLAPS

(* Every string, the ones written in the program among them. *)
Words == STRING \cup {WORKING_TREE, None, "node-linux"}
Ids == [version : Words, target : Words, plugins : BOOLEAN]
CacheStates == [stamp : Nat, of : Nat, whole : BOOLEAN]
Infos == [id : Ids, pins : {<<>>} \cup [1..2 -> Nat \ {0}]]
Trees == [of : SUBSET Infos, whole : BOOLEAN, info : Infos]
MatrixStates == {"none", "next", "building", "restoring", "over", "failed"}
Matrices == [state : MatrixStates, asked : BOOLEAN, todo : Seq(Words), done : SUBSET Words, wasRunning : BOOLEAN]
(* the steps from the marker on, from the gates on, and all of them          *)
Unpacking == {"unpack", "fill", "filled", "stamp"}
Marked == Unpacking \cup {"plugins", "clear", "copy", "edit", "record", "compile"}
Loaded == Marked \cup {"swap"}
Steps == Loaded \cup {"idle", "load", "over"}

StageTypes ==
  /\ pins \in [1..2 -> Nat \ {0}] /\ scriptPins \in [1..2 -> Nat \ {0}]
  /\ cache \in [Pinned -> [1..2 -> CacheStates]]
  /\ tree \in Trees
  /\ marker \in [Kinds -> Ids]
  /\ objs \in [Kinds -> [ObjectDirs -> SUBSET Ids]]
  /\ run \in Ids /\ pc \in Steps /\ step \in 1..3
  /\ matrix \in Matrices /\ daemon \in BOOLEAN
  /\ env \in Words

(* A directory of objects is emptied before the marker names their build.    *)
MarkerLast ==
  /\ pc = "swap" => \A d \in 1..(step - 1) : objs[Kind(run)][d] = {}
  /\ pc \in Marked => marker[Kind(run)] = Identity(run)
  /\ pc \in {"load", "plugins"} => step = 1

(* A stamp that is the script's pin is of sources that are whole: the stamp  *)
(* is written last, and one that outlives part of its files is older.        *)
StampLast ==
  /\ \A i \in 1..2 : scriptPins[i] <= pins[i]
  /\ \A v \in Pinned : \A i \in 1..2 :
       /\ cache[v][i].stamp <= scriptPins[i]
       /\ cache[v][i].stamp = scriptPins[i] => cache[v][i].whole /\ cache[v][i].of = scriptPins[i]

(* What has been unpacked, by the step the unpacking is at. *)
UnpackedSoFar ==
  /\ pc \in Loaded => run.version \in Pinned \cup {WORKING_TREE}
  /\ pc \in Unpacking =>
       /\ run.version \in Pinned
       /\ \A i \in 1..2 : i < step => cache[run.version][i].whole /\ cache[run.version][i].of = scriptPins[i]
  /\ pc \in {"fill", "filled", "stamp"} => step \in 1..2
  /\ pc = "filled" => cache[run.version][step].of = scriptPins[step] /\ cache[run.version][step].stamp = 0
  /\ pc = "stamp" => cache[run.version][step].whole /\ cache[run.version][step].of = scriptPins[step]
  /\ pc \in {"clear", "copy"} => SourcesWhole

(* What the staged tree is, by the step the staging is at. *)
TreeSoFar ==
  /\ pc = "copy" => tree.of = {}
  /\ pc \in {"edit", "record", "compile"} => tree.of = {Info(run)}
  /\ pc \in {"record", "compile"} => tree.whole
  /\ pc = "compile" => tree.info = Info(run)

(* A run that ended well got as far as the compiler, and the matrix's last   *)
(* build is of the release its shell names, or of the working tree.          *)
EndedWell ==
  pc = "over" /\ exitCode = 0 =>
    tree.of = {Info(run)} /\ tree.info = Info(run) /\ marker[Kind(run)] = Identity(run)
LastBuild ==
  /\ matrix.state = "restoring" =>
       /\ run.target = "node-linux"
       /\ env = None => run.version = WORKING_TREE
  /\ matrix.state = "building" => matrix.todo # <<>>

IInv ==
  /\ StageTypes /\ ObjectsOfOneBuild /\ MarkerLast
  /\ StampLast /\ UnpackedSoFar /\ TreeSoFar
  /\ EndedWell /\ LastBuild

USE DEF ObjectDirs, world, disk, running, Idle, Quit, Goto

(* A build is named by what identifies it, and every name is one of STRING.  *)
LEMMA Names ==
  /\ Pinned \subseteq Words /\ WORKING_TREE \notin Pinned
  /\ WORKING_TREE \in Words /\ None \in Words /\ "node-linux" \in Words
  /\ NoBuild \in Ids /\ NoInfo \in Infos /\ Empty \in Trees
  /\ Builds \subseteq Ids /\ Order \in Seq(Words) /\ <<>> \in Seq(Words)
  /\ \A r \in Ids : Kind(r) \in Kinds /\ Identity(r) = r
<1>1. Pinned \subseteq Words
  <2>1. Pinned \subseteq DOMAIN Scripts
    BY DEF Pinned
  <2> QED BY <2>1, NamesAssumption DEF Words
<1>2. WORKING_TREE \in Words /\ None \in Words /\ "node-linux" \in Words
  BY DEF Words
<1>3. WORKING_TREE \notin Pinned
  BY DEF Pinned
<1>4. NoBuild \in Ids
  BY <1>2 DEF NoBuild, Ids
<1>5. NoInfo \in Infos
  BY <1>4 DEF NoInfo, Infos
<1>6. Empty \in Trees
  BY <1>5 DEF Empty, Trees
<1>7. Builds \subseteq Ids
  BY NamesAssumption DEF Ids, Words
<1>8. Order \in Seq(Words) /\ <<>> \in Seq(Words)
  BY NamesAssumption DEF Words
<1>9. \A r \in Ids : Kind(r) \in Kinds /\ Identity(r) = r
  BY DEF Kind, Kinds, Identity, Ids
<1> QED BY <1>1, <1>2, <1>3, <1>4, <1>5, <1>6, <1>7, <1>8, <1>9

(* An update of an unpacked repository's record sets what it names.          *)
LEMMA CacheRecords ==
  ASSUME NEW c \in CacheStates, NEW n \in Nat
  PROVE  /\ [c EXCEPT !.stamp = n, !.whole = FALSE] \in CacheStates
         /\ [c EXCEPT !.stamp = n, !.whole = FALSE].stamp = n
         /\ [c EXCEPT !.whole = TRUE] \in CacheStates
         /\ [c EXCEPT !.whole = TRUE].whole
         /\ [c EXCEPT !.whole = TRUE].of = c.of /\ [c EXCEPT !.whole = TRUE].stamp = c.stamp
         /\ [c EXCEPT !.stamp = n] \in CacheStates
         /\ [c EXCEPT !.stamp = n].stamp = n
         /\ [c EXCEPT !.stamp = n].of = c.of /\ [c EXCEPT !.stamp = n].whole = c.whole
  BY DEF CacheStates

LEMMA InfoType == ASSUME StageTypes PROVE Info(run) \in Infos
  BY Names DEF StageTypes, Info, Infos

LEMMA InitInv == Init => IInv
<1> SUFFICES ASSUME Init PROVE IInv
  OBVIOUS
<1>1. StageTypes
  <2>1. pins \in [1..2 -> Nat \ {0}] /\ scriptPins \in [1..2 -> Nat \ {0}]
    BY DEF Init
  <2>2. cache \in [Pinned -> [1..2 -> CacheStates]]
    BY DEF Init, CacheStates
  <2>3. tree \in Trees /\ run \in Ids /\ marker \in [Kinds -> Ids]
    BY Names DEF Init
  <2>4. objs \in [Kinds -> [ObjectDirs -> SUBSET Ids]]
    BY DEF Init
  <2>5. pc \in Steps /\ step \in 1..3
    BY DEF Init, Steps
  <2>6. matrix \in Matrices /\ daemon \in BOOLEAN
    BY Names DEF Init, Matrices, MatrixStates
  <2>7. env \in Words
    BY Names DEF Init
  <2> QED BY <2>1, <2>2, <2>3, <2>4, <2>5, <2>6, <2>7 DEF StageTypes
<1>2. ObjectsOfOneBuild /\ MarkerLast /\ TreeSoFar /\ EndedWell /\ LastBuild
  BY DEF Init, ObjectsOfOneBuild, MarkerLast, TreeSoFar, EndedWell, LastBuild, Marked, Unpacking
<1>3. StampLast /\ UnpackedSoFar
  BY DEF Init, StampLast, UnpackedSoFar, Loaded, Marked, Unpacking
<1> QED BY <1>1, <1>2, <1>3 DEF IInv

USE DEF IInv, StageTypes, ObjectsOfOneBuild, MarkerLast, StampLast, UnpackedSoFar, TreeSoFar,
        EndedWell, LastBuild, Unpacking, Marked, Loaded, Steps

(* A re-pin of the library leaves every stamp at or below it; following it  *)
(* makes the older stamps stale.                                            *)
LEMMA MovePinInv == ASSUME IInv, NEW i \in 1..2, MovePin(i) PROVE IInv'
  BY DEF MovePin, SourcesWhole, Info

LEMMA FollowPinsInv == ASSUME IInv, FollowPins PROVE IInv'
<1>1. scriptPins' = pins /\ pc = "idle" /\ UNCHANGED <<pins, disk, run, pc, step, exitCode, matrix, daemon, env>>
  BY DEF FollowPins
<1>2. \A v \in Pinned : \A i \in 1..2 :
        /\ cache[v][i].stamp <= pins[i]
        /\ cache[v][i].stamp = pins[i] => cache[v][i].stamp = scriptPins[i] /\ pins[i] = scriptPins[i]
  BY DEF CacheStates
<1>3. StampLast'
  BY <1>1, <1>2
<1> QED BY <1>1, <1>3

(* What is loaded is a release or the working tree, so that its sources     *)
(* have a cache or need none.                                               *)
LEMMA LoadReleaseInv == ASSUME IInv, LoadRelease PROVE IInv'
  BY Names DEF LoadRelease, SourcesWhole, Info, Load, Pinned

(* The objects of the other builds go before the marker is written.         *)
LEMMA SameIdentityInv == ASSUME IInv, SameIdentity PROVE IInv'
  BY Names DEF SameIdentity, SourcesWhole, Info

LEMMA DropObjectsInv == ASSUME IInv, DropObjects PROVE IInv'
  BY Names DEF DropObjects, SourcesWhole, Info

LEMMA WriteMarkerInv == ASSUME IInv, WriteMarker PROVE IInv'
  BY Names DEF WriteMarker, SourcesWhole, Info

LEMMA LoadPluginsInv == ASSUME IInv, LoadPlugins PROVE IInv'
<1>1. pc = "plugins" /\ UNCHANGED <<world, disk, run, step, matrix, daemon, env>>
  BY DEF LoadPlugins
<1>2. CASE pc' = "over" /\ exitCode' = 1
  BY <1>1, <1>2
<1>3. CASE pc' = "clear" /\ run.version = WORKING_TREE /\ exitCode' = exitCode
  BY <1>1, <1>3 DEF SourcesWhole
<1>4. CASE pc' = "unpack" /\ run.version # WORKING_TREE /\ exitCode' = exitCode
  BY <1>1, <1>4 DEF Info
<1>5. \/ pc' = "over" /\ exitCode' = 1
      \/ pc' = "clear" /\ run.version = WORKING_TREE /\ exitCode' = exitCode
      \/ pc' = "unpack" /\ run.version # WORKING_TREE /\ exitCode' = exitCode
  <2> HIDE DEF IInv
  <2> QED BY DEF LoadPlugins
<1> QED BY <1>2, <1>3, <1>4, <1>5

(* A stamp is believed only where it is the pin, and written only when the  *)
(* sources are whole.                                                       *)
LEMMA ReuseCacheInv == ASSUME IInv, ReuseCache PROVE IInv'
  BY DEF ReuseCache, Unpacked, Info

LEMMA RemoveCacheInv == ASSUME IInv, RemoveCache PROVE IInv'
<1> DEFINE old == cache[run.version][step]
<1>1. pc = "unpack" /\ step \in 1..2 /\ old \in CacheStates /\ old.stamp # scriptPins[step]
      /\ UNCHANGED <<world, tree, marker, objs, run, step, matrix, daemon, env>>
  BY DEF RemoveCache, Unpacked
<1>2. CASE \E s \in {0, old.stamp} : SetCache([old EXCEPT !.stamp = s, !.whole = FALSE]) /\ pc' = pc
  <2>1. PICK s \in {0, old.stamp} : SetCache([old EXCEPT !.stamp = s, !.whole = FALSE])
    BY <1>2
  <2> DEFINE c == [old EXCEPT !.stamp = s, !.whole = FALSE]
  <2>2. c \in CacheStates /\ c.stamp \in {0, old.stamp}
    <3>1. s \in Nat
      BY <1>1 DEF CacheStates
    <3> HIDE DEF old
    <3> QED BY ZenonT(40), <1>1, <3>1, CacheRecords
  <2>3. cache' = [cache EXCEPT ![run.version][step] = c]
    BY <2>1 DEF SetCache
  <2> HIDE DEF c
  <2>4. pc' = pc /\ cache' \in [Pinned -> [1..2 -> CacheStates]]
    BY <1>1, <1>2, <2>2, <2>3
  <2>5. run.version \in Pinned /\ step \in {1, 2} /\ scriptPins[step] # 0 /\ c.stamp # scriptPins[step]
    BY <1>1, <2>2
  <2>6. \A v \in Pinned : \A i \in 1..2 : cache'[v][i] = IF v = run.version /\ i = step THEN c ELSE cache[v][i]
    BY <2>3, <2>5
  <2>7. c.stamp <= scriptPins[step]
    BY <1>1, <2>2, <2>5
  <2>8. StampLast'
    BY <1>1, <2>5, <2>6, <2>7
  <2>9. UnpackedSoFar'
    BY <1>1, <2>4, <2>5, <2>6
  <2> QED BY <1>1, <2>4, <2>8, <2>9 DEF Info
<1>3. CASE SetCache([stamp |-> 0, of |-> 0, whole |-> FALSE]) /\ pc' = "fill"
  <2> DEFINE c == [stamp |-> 0, of |-> 0, whole |-> FALSE]
  <2>1. cache' = [cache EXCEPT ![run.version][step] = c] /\ pc' = "fill"
    BY <1>3 DEF SetCache
  <2>2. c \in CacheStates /\ c.stamp = 0
    BY DEF CacheStates
  <2> HIDE DEF c
  <2>3. cache' \in [Pinned -> [1..2 -> CacheStates]]
    BY <1>1, <2>1, <2>2
  <2>4. run.version \in Pinned /\ step \in {1, 2} /\ scriptPins[step] \in Nat /\ scriptPins[step] # 0
    BY <1>1
  <2>5. \A v \in Pinned : \A i \in 1..2 : cache'[v][i] = IF v = run.version /\ i = step THEN c ELSE cache[v][i]
    BY <2>1, <2>4
  <2>6. StampLast'
    BY <1>1, <2>2, <2>4, <2>5
  <2>7. UnpackedSoFar'
    BY <1>1, <2>1, <2>4, <2>5
  <2> QED BY <1>1, <2>1, <2>3, <2>6, <2>7 DEF Info
<1> QED BY <1>2, <1>3 DEF RemoveCache, Unpacked

LEMMA FillCacheInv == ASSUME IInv, FillCache PROVE IInv'
<1>1. pc = "fill" /\ UNCHANGED <<world, tree, marker, objs, run, step, matrix, daemon, env>>
  BY DEF FillCache
<1>2. CASE pc' = "over" /\ exitCode' = 1 /\ UNCHANGED cache
  BY <1>1, <1>2
<1>3. CASE SetCache([stamp |-> 0, of |-> scriptPins[step], whole |-> FALSE]) /\ Goto("filled")
  <2> DEFINE c == [stamp |-> 0, of |-> scriptPins[step], whole |-> FALSE]
  <2>1. cache' = [cache EXCEPT ![run.version][step] = c] /\ pc' = "filled"
    BY <1>3 DEF SetCache
  <2>2. run.version \in Pinned /\ step \in {1, 2} /\ scriptPins[step] \in Nat /\ scriptPins[step] # 0
    BY <1>1
  <2>3. c \in CacheStates /\ c.stamp = 0 /\ c.of = scriptPins[step]
    BY <2>2 DEF CacheStates
  <2> HIDE DEF c
  <2>4. cache' \in [Pinned -> [1..2 -> CacheStates]]
    BY <2>1, <2>3
  <2>5. \A v \in Pinned : \A i \in 1..2 : cache'[v][i] = IF v = run.version /\ i = step THEN c ELSE cache[v][i]
    BY <2>1, <2>2
  <2>6. StampLast'
    BY <1>1, <2>2, <2>3, <2>5
  <2>7. UnpackedSoFar'
    BY <1>1, <2>1, <2>2, <2>3, <2>5
  <2> QED BY <1>1, <2>1, <2>4, <2>6, <2>7 DEF Info
<1> QED BY <1>2, <1>3 DEF FillCache

LEMMA FinishCacheInv == ASSUME IInv, FinishCache PROVE IInv'
<1> DEFINE old == cache[run.version][step]
           c == [old EXCEPT !.whole = TRUE]
<1>1. pc = "filled" /\ pc' = "stamp" /\ UNCHANGED <<world, tree, marker, objs, run, step, matrix, daemon, env>>
  BY DEF FinishCache
<1>2. cache' = [cache EXCEPT ![run.version][step] = c]
  BY DEF FinishCache, Unpacked, SetCache
<1>3. old \in CacheStates /\ old.stamp = 0 /\ old.of = scriptPins[step]
  BY <1>1
<1>4. c \in CacheStates /\ c.stamp = 0 /\ c.whole /\ c.of = scriptPins[step]
  <2> HIDE DEF old
  <2> QED BY <1>3, CacheRecords
<1> HIDE DEF old, c
<1>5. run.version \in Pinned /\ step \in {1, 2} /\ scriptPins[step] # 0
  BY <1>1
<1>6. cache' \in [Pinned -> [1..2 -> CacheStates]]
  BY <1>2, <1>4
<1>7. \A v \in Pinned : \A i \in 1..2 : cache'[v][i] = IF v = run.version /\ i = step THEN c ELSE cache[v][i]
  BY <1>2, <1>5
<1>8. StampLast'
  BY <1>1, <1>4, <1>5, <1>7
<1>9. UnpackedSoFar'
  BY <1>1, <1>4, <1>5, <1>7
<1> QED BY <1>1, <1>6, <1>8, <1>9 DEF Info

LEMMA StampCacheInv == ASSUME IInv, StampCache PROVE IInv'
<1> DEFINE old == cache[run.version][step]
           c == [old EXCEPT !.stamp = scriptPins[step]]
<1>1. pc = "stamp" /\ pc' = "unpack" /\ step' = step + 1
      /\ UNCHANGED <<world, tree, marker, objs, run, matrix, daemon, env>>
  BY DEF StampCache
<1>2. cache' = [cache EXCEPT ![run.version][step] = c]
  BY DEF StampCache, Unpacked, SetCache
<1>3. old \in CacheStates /\ old.whole /\ old.of = scriptPins[step] /\ scriptPins[step] \in Nat
  BY <1>1
<1>4. c \in CacheStates /\ c.stamp = scriptPins[step] /\ c.whole /\ c.of = scriptPins[step]
  <2> DEFINE pin == scriptPins[step]
  <2> HIDE DEF old, pin
  <2>1. old \in CacheStates /\ pin \in Nat /\ old.whole /\ old.of = pin
    BY <1>3 DEF pin
  <2>2. [old EXCEPT !.stamp = pin] \in CacheStates /\ [old EXCEPT !.stamp = pin].stamp = pin
    BY <2>1 DEF CacheStates
  <2>3. [old EXCEPT !.stamp = pin].of = pin
    BY <2>1 DEF CacheStates
  <2>4. [old EXCEPT !.stamp = pin].whole
    BY <2>1 DEF CacheStates
  <2> QED BY <2>2, <2>3, <2>4 DEF pin
<1> HIDE DEF old, c
<1>5. run.version \in Pinned /\ step \in {1, 2} /\ step' \in 1..3
  BY <1>1
<1>6. cache' \in [Pinned -> [1..2 -> CacheStates]]
  BY <1>2, <1>4
<1>7. \A v \in Pinned : \A i \in 1..2 : cache'[v][i] = IF v = run.version /\ i = step THEN c ELSE cache[v][i]
  BY <1>2, <1>5
<1>8. StampLast'
  BY <1>1, <1>4, <1>5, <1>7
<1>9. UnpackedSoFar'
  <2>1. ASSUME NEW i \in 1..2, i < step'
        PROVE  cache'[run.version][i].whole /\ cache'[run.version][i].of = scriptPins[i]
    <3>1. i = step \/ i < step
      BY <1>1, <1>5, <2>1
    <3> QED BY <1>1, <1>4, <1>5, <1>7, <3>1
  <2> QED BY <1>1, <1>5, <2>1
<1> QED BY <1>1, <1>5, <1>6, <1>8, <1>9 DEF Info

LEMMA AllUnpackedInv == ASSUME IInv, AllUnpacked PROVE IInv'
  BY DEF AllUnpacked, SourcesWhole, Info

(* The tree is emptied, filled from whole sources, edited and recorded.     *)
LEMMA ClearStageInv == ASSUME IInv, ClearStage PROVE IInv'
<1>1. pc = "clear" /\ UNCHANGED <<world, cache, marker, objs, run, step, matrix, daemon, env>>
  BY DEF ClearStage
<1>2. CASE pc' = "over" /\ exitCode' = 1 /\ UNCHANGED tree
  BY <1>1, <1>2
<1>3. ASSUME NEW i \in {NoInfo, tree.info}, tree' = [tree EXCEPT !.whole = FALSE, !.info = i], pc' = pc
      PROVE  IInv'
  <2>1. i \in Infos
    BY Names DEF Trees
  <2>2. tree' \in Trees
    BY <1>3, <2>1 DEF Trees
  <2> QED BY <1>1, <1>3, <2>2 DEF SourcesWhole
<1>4. CASE tree' = Empty /\ pc' = "copy"
  BY <1>1, <1>4, Names DEF SourcesWhole, Empty
<1> QED BY <1>2, <1>3, <1>4 DEF ClearStage

LEMMA CopySourcesInv == ASSUME IInv, CopySources PROVE IInv'
  BY InfoType DEF CopySources, Info, Trees

LEMMA EditSourcesInv == ASSUME IInv, EditSources PROVE IInv'
<1>1. pc = "edit" /\ UNCHANGED <<world, cache, marker, objs, run, step, matrix, daemon, env>>
  BY DEF EditSources
<1>2. CASE pc' = "over" /\ exitCode' = 1 /\ UNCHANGED tree
  BY <1>1, <1>2
<1>3. CASE tree' = [tree EXCEPT !.whole = TRUE] /\ pc' = "record"
  BY ZenonT(40), <1>1, <1>3 DEF Trees, Info
<1> QED BY <1>2, <1>3 DEF EditSources

LEMMA WriteRecordInv == ASSUME IInv, WriteRecord PROVE IInv'
  BY InfoType DEF WriteRecord, Info, Trees

LEMMA CompileInv == ASSUME IInv, Compile PROVE IInv'
  BY Names DEF Compile, Info

(* A run that is over, or killed, leaves the disk as it is.                 *)
LEMMA OverInv == ASSUME IInv, Over PROVE IInv'
  BY Names DEF Over

LEMMA KillInv == ASSUME IInv, Kill PROVE IInv'
<1>1. pc' = "idle" /\ run' = NoBuild /\ step' = 1 /\ UNCHANGED <<world, disk, daemon, env>>
  BY DEF Kill
<1>2. matrix' \in Matrices /\ matrix'.state = "none"
  BY Names DEF Kill, Matrices, MatrixStates
<1> QED BY <1>1, <1>2, Names

LEMMA BuildByHandInv == ASSUME IInv, NEW r \in Builds, BuildByHand(r) PROVE IInv'
  BY Names DEF BuildByHand, Start

(* The matrix drops the objects before each of its builds, and starts them  *)
(* in order.                                                                *)
LEMMA MatrixInv == ASSUME IInv, NEW asked \in {<<>>} \cup {<<v>> : v \in Pinned}, Matrix(asked) PROVE IInv'
<1>1. matrix.state = "none" /\ UNCHANGED <<world, disk, run, pc, step, exitCode, env>>
  BY DEF Matrix
<1> DEFINE list == IF asked = <<>> THEN Order ELSE asked
<1>2. list \in Seq(Words)
  <2>1. CASE asked = <<>>
    BY <2>1, Names
  <2>2. ASSUME NEW v \in Pinned, asked = <<v>> PROVE list \in Seq(Words)
    <3>1. v \in Words
      BY Names
    <3>2. asked \in Seq(Words) /\ asked # <<>>
      BY <2>2, <3>1
    <3> QED BY <3>2
  <2> QED BY <2>1, <2>2
<1>3. CASE /\ matrix' = [state |-> "next", asked |-> asked # <<>>, todo |-> list, done |-> {}, wasRunning |-> daemon]
           /\ daemon' = FALSE
  <2>1. matrix' \in Matrices /\ matrix'.state = "next"
    BY <1>2, <1>3 DEF Matrices, MatrixStates
  <2>2. daemon' \in BOOLEAN
    BY <1>3
  <2> QED BY <1>1, <2>1, <2>2 DEF SourcesWhole, Info
<1>4. CASE /\ matrix' = [matrix EXCEPT !.state = "over", !.asked = asked # <<>>, !.done = {}]
           /\ UNCHANGED daemon
  <2>1. matrix' \in Matrices /\ matrix'.state = "over"
    BY <1>2, <1>4 DEF Matrices, MatrixStates
  <2> QED BY <1>1, <1>4, <2>1 DEF SourcesWhole, Info
<1> QED BY <1>3, <1>4 DEF Matrix

LEMMA MatrixBuildInv == ASSUME IInv, MatrixBuild PROVE IInv'
<1>1. pc' = "load" /\ step' = 1 /\ UNCHANGED <<world, cache, tree, marker, daemon, env>>
  BY DEF MatrixBuild, Start
<1>2. objs' = [objs EXCEPT !["node"] = [d \in ObjectDirs |-> {}]]
  BY DEF MatrixBuild, DropBuild
<1>3. objs' \in [Kinds -> [ObjectDirs -> SUBSET Ids]] /\ ObjectsOfOneBuild'
  <2>1. objs' \in [Kinds -> [ObjectDirs -> SUBSET Ids]]
    BY <1>2
  <2>2. \A k \in Kinds : \A d \in ObjectDirs : objs'[k][d] = {} \/ objs'[k][d] = objs[k][d]
    BY <1>2
  <2>3. ObjectsOfOneBuild'
    BY <1>1, <2>1, <2>2
  <2> QED BY <2>1, <2>3
<1>4. CASE matrix.todo # <<>>
  <2>1. Head(matrix.todo) \in Words
    BY <1>4 DEF Matrices
  <2>2. run' = [version |-> Head(matrix.todo), target |-> "node-linux", plugins |-> FALSE]
    BY <1>4 DEF MatrixBuild, Start
  <2>3. run' \in Ids
    BY <2>1, <2>2, Names DEF Ids
  <2>4. matrix' = [matrix EXCEPT !.state = "building"]
    BY <1>4 DEF MatrixBuild
  <2>5. matrix' \in Matrices /\ matrix'.state = "building" /\ matrix'.todo # <<>>
    BY <1>4, <2>4 DEF Matrices, MatrixStates
  <2> QED BY <1>1, <1>3, <2>3, <2>5
<1>5. CASE matrix.todo = <<>>
  <2>1. run' = [version |-> IF env = None THEN WORKING_TREE ELSE env, target |-> "node-linux", plugins |-> FALSE]
    BY <1>5 DEF MatrixBuild, Start
  <2>2. run' \in Ids
    BY <2>1, Names DEF Ids
  <2>3. run'.target = "node-linux" /\ (env = None => run'.version = WORKING_TREE)
    BY <2>1
  <2>4. matrix' \in Matrices /\ matrix'.state = "restoring"
    BY <1>5 DEF MatrixBuild, Matrices, MatrixStates
  <2> QED BY <1>1, <1>3, <2>2, <2>3, <2>4
<1> QED BY <1>4, <1>5

LEMMA MatrixThrowsInv == ASSUME IInv, MatrixThrows PROVE IInv'
<1>1. matrix' \in Matrices /\ matrix'.state = "next"
  BY Names DEF MatrixThrows, Matrices, MatrixStates
<1> QED BY <1>1 DEF MatrixThrows, SourcesWhole, Info

LEMMA MatrixRowInv == ASSUME IInv, MatrixRow PROVE IInv'
<1>1. matrix' \in Matrices /\ matrix'.state = "next"
  <2>1. Tail(matrix.todo) \in Seq(Words) /\ Head(matrix.todo) \in Words
    <3>1. matrix.todo \in Seq(Words) /\ matrix.todo # <<>>
      BY DEF MatrixRow, Matrices
    <3> QED BY <3>1
  <2> QED BY <2>1, Names DEF MatrixRow, Matrices, MatrixStates
<1>2. pc' = "idle" /\ run' = NoBuild /\ step' = 1 /\ UNCHANGED <<world, disk, daemon, env>>
  BY DEF MatrixRow
<1> QED BY <1>1, <1>2, Names

LEMMA MatrixRestoredInv == ASSUME IInv, MatrixRestored PROVE IInv'
<1>1. matrix' \in Matrices /\ matrix'.state # "restoring" /\ matrix'.state # "building"
  BY DEF MatrixRestored, Matrices, MatrixStates
<1>2. pc' = "idle" /\ run' = NoBuild /\ step' = 1 /\ UNCHANGED <<world, disk, env>>
  BY DEF MatrixRestored
<1>3. daemon' \in BOOLEAN
  BY DEF MatrixRestored, Matrices
<1> QED BY <1>1, <1>2, <1>3, Names

(* Every step keeps the invariant. *)
LEMMA StepInv == IInv /\ [Next]_vars => IInv'
<1> SUFFICES ASSUME IInv, [Next]_vars PROVE IInv'
  OBVIOUS
<1>1. ASSUME NEW i \in 1..2, MovePin(i) PROVE IInv'
  BY <1>1, MovePinInv
<1>2. ASSUME NEW r \in Builds, BuildByHand(r) PROVE IInv'
  BY <1>2, BuildByHandInv
<1>3. ASSUME NEW asked \in {<<>>} \cup {<<v>> : v \in Pinned}, Matrix(asked) PROVE IInv'
  BY <1>3, MatrixInv
<1>4. CASE UNCHANGED vars
  BY <1>4 DEF vars, SourcesWhole, Info
<1> HIDE DEF IInv
<1> QED
  BY <1>1, <1>2, <1>3, <1>4, FollowPinsInv, LoadReleaseInv, SameIdentityInv, DropObjectsInv, WriteMarkerInv,
     LoadPluginsInv, ReuseCacheInv, RemoveCacheInv, FillCacheInv, FinishCacheInv, StampCacheInv, AllUnpackedInv,
     ClearStageInv, CopySourcesInv, EditSourcesInv, WriteRecordInv, CompileInv, OverInv, KillInv,
     MatrixBuildInv, MatrixThrowsInv, MatrixRowInv, MatrixRestoredInv DEF Next

LEMMA Invariance == Spec => []IInv
<1> HIDE DEF IInv
<1> QED BY InitInv, StepInv, PTL DEF Spec

(* No silently mixed emulator: whatever was killed, and whichever kind of     *)
(* build ran in between, compiled objects are of the build their kind's marker *)
(* names, because the objects go before the marker is written.               *)
THEOREM ObjectsOfOneBuildHolds == Spec => []ObjectsOfOneBuild
<1>1. IInv => ObjectsOfOneBuild
  OBVIOUS
<1> HIDE DEF IInv, ObjectsOfOneBuild
<1> QED BY <1>1, Invariance, PTL

(* The compiler runs on the release that was asked for, all of it and at the *)
(* pins of its script.                                                      *)
THEOREM CompilesWhatWasAskedHolds == Spec => []CompilesWhatWasAsked
<1>1. IInv => CompilesWhatWasAsked
  BY DEF CompilesWhatWasAsked
<1> HIDE DEF IInv
<1> QED BY <1>1, Invariance, PTL

(* Only the step that ends the restoring build makes the matrix run over from *)
(* restoring, and with an exit code of 0 that build is the working tree's.   *)
LEMMA PutsBackStep ==
  ASSUME IInv, [Next]_vars, matrix.state = "restoring", matrix'.state = "over", env = None
  PROVE  /\ tree.info.id.version = WORKING_TREE /\ tree.of = {tree.info}
         /\ \A d \in ObjectDirs : objs["node"][d] \subseteq {tree.info.id}
         /\ daemon' = matrix.wasRunning
<1>1. MatrixRestored
  <2>1. matrix' # matrix
    OBVIOUS
  <2>2. ~Kill
    BY DEF Kill, Matrices
  <2>3. ~MatrixBuild /\ ~MatrixThrows /\ ~MatrixRow
    BY DEF MatrixBuild, MatrixThrows, MatrixRow
  <2>4. \A asked : ~Matrix(asked)
    BY DEF Matrix
  <2>5. \A r : ~BuildByHand(r)
    BY DEF BuildByHand
  <2> QED BY <2>1, <2>2, <2>3, <2>4, <2>5
    DEF Next, vars, MovePin, FollowPins, LoadRelease, SameIdentity, DropObjects, WriteMarker, LoadPlugins,
        ReuseCache, RemoveCache, FillCache, FinishCache, StampCache, AllUnpacked, ClearStage, CopySources,
        EditSources, WriteRecord, Compile, Over
<1>2. pc = "over" /\ exitCode = 0 /\ daemon' = matrix.wasRunning
  BY <1>1 DEF MatrixRestored, Matrices
<1>3. tree.of = {Info(run)} /\ tree.info = Info(run) /\ marker[Kind(run)] = Identity(run)
  BY <1>2
<1>4. Kind(run) = "node" /\ run.version = WORKING_TREE
  BY DEF Kind
<1>5. Info(run).id = Identity(run) /\ Identity(run).version = WORKING_TREE
  BY <1>4 DEF Info, Identity
<1> QED BY <1>2, <1>3, <1>4, <1>5 DEF Kinds

(* A matrix run started from a shell that names no release, and that ends     *)
(* well, leaves the working tree staged and its objects alone where the addon *)
(* is loaded from, and the daemon as it found it.                            *)
THEOREM MatrixPutsBackHolds == Spec => MatrixPutsBack
<1> DEFINE PutsBack ==
      matrix.state = "restoring" /\ matrix'.state = "over" /\ env = None =>
        /\ tree.info.id.version = WORKING_TREE /\ tree.of = {tree.info}
        /\ \A d \in ObjectDirs : objs["node"][d] \subseteq {tree.info.id}
        /\ daemon' = matrix.wasRunning
<1>1. IInv /\ [Next]_vars => [PutsBack]_vars
  BY PutsBackStep
<1> HIDE DEF IInv
<1> QED BY <1>1, Invariance, PTL DEF Spec, MatrixPutsBack

-----------------------------------------------------------------------------
(* What the gates leave in the header, after each of them (StageEdit).       *)
Gates == {"debug", "layouts", "trust", "defines", "patches", "registers", "record", "done", "stopped"}
After(steps) == phase \notin steps /\ code = 0

EditTypes ==
  /\ req \in Requests
  /\ header \in [debug : Switch, verbose : BOOLEAN, layouts : Switch, std : {header.std}, hwid : Switch]
  /\ phase \in Gates /\ code \in {0, 1}
  /\ debugOn \in {"on", "off", "null"} /\ trust \in BOOLEAN /\ enforcing \in BOOLEAN

(* the run goes on with an unreadable gate, but no longer with exit code 0   *)
DebugIsKnown ==
  After({"debug"}) =>
    /\ debugOn = header.debug /\ debugOn # "null"
    /\ debugOn = "off" => ~header.verbose \/ req.header.debug = "off"
AsCopied == phase = "debug" => header = req.header
LayoutsFollow == After({"debug", "layouts"}) => header.layouts \in {"gone", header.debug}
EnforcesAsSaid ==
  After({"debug", "layouts", "trust"}) =>
    /\ enforcing => ~(header.debug = "on" /\ trust)
    /\ ~enforcing => header.debug = "on" /\ ~req.enforce
DuoIsMade == After({"debug", "layouts", "trust", "defines"}) /\ req.duo = "on" => header.hwid = "on"
RecordIsOfTheRun ==
  phase = "done" =>
    record = [debug |-> debugOn, std |-> header.std, enforce |-> enforcing,
              model |-> IF header.hwid = "on" THEN "duo" ELSE "classic"]

EditInv ==
  EditTypes /\ AsCopied /\ DebugIsKnown /\ LayoutsFollow /\ EnforcesAsSaid /\ DuoIsMade /\ RecordIsOfTheRun

(* A copy of a release's tree. *)
LEMMA EditInitInv == EditInit => EditInv
<1> SUFFICES ASSUME EditInit PROVE EditInv
  OBVIOUS
<1>1. /\ req \in Requests /\ header = req.header /\ trust = req.trust /\ phase = "debug" /\ code = 0
      /\ debugOn = "null" /\ enforcing = FALSE
  BY DEF EditInit
<1>2. /\ req.header \in [debug : Switch, verbose : BOOLEAN, layouts : Switch, std : Switch, hwid : Switch]
      /\ req.trust \in BOOLEAN
  BY <1>1, RequestsAssumption
<1>3. EditTypes
  BY <1>1, <1>2 DEF EditTypes, Gates
<1>4. AsCopied /\ DebugIsKnown /\ LayoutsFollow /\ EnforcesAsSaid /\ DuoIsMade /\ RecordIsOfTheRun
  BY <1>1 DEF AsCopied, DebugIsKnown, LayoutsFollow, EnforcesAsSaid, DuoIsMade, RecordIsOfTheRun, After
<1> QED BY <1>3, <1>4 DEF EditInv

(* Stopping leaves nothing to compile. *)
LEMMA StopInv ==
  ASSUME EditInv, Stop, UNCHANGED <<req, debugOn, enforcing>>, trust' \in BOOLEAN,
         header' \in [debug : Switch, verbose : BOOLEAN, layouts : Switch, std : {header'.std}, hwid : Switch]
  PROVE  EditInv'
<1>1. phase' = "stopped" /\ code' = 1
  BY DEF Stop
<1>2. EditTypes'
  BY <1>1 DEF EditInv, EditTypes, Gates
<1>3. (AsCopied /\ DebugIsKnown /\ LayoutsFollow /\ EnforcesAsSaid /\ DuoIsMade /\ RecordIsOfTheRun)'
  BY <1>1 DEF AsCopied, DebugIsKnown, LayoutsFollow, EnforcesAsSaid, DuoIsMade, RecordIsOfTheRun, After
<1> QED BY <1>2, <1>3 DEF EditInv

LEMMA GateDebugInv == ASSUME EditInv, GateDebug PROVE EditInv'
<1> USE DEF EditInv
<1>1. /\ phase = "debug" /\ phase' = "layouts" /\ header = req.header
      /\ UNCHANGED <<req, trust, enforcing>>
  BY DEF GateDebug, AsCopied
<1>2. req.want \in {"on", "off"}
  BY RequestsAssumption DEF EditTypes
<1>3. CASE header.debug = "gone"
  <2>1. code' = 1 /\ debugOn' = "null" /\ header' = header
    BY <1>3 DEF GateDebug
  <2>2. EditTypes'
    BY <1>1, <2>1 DEF EditTypes, Gates
  <2> QED BY <1>1, <2>1, <2>2
          DEF AsCopied, DebugIsKnown, LayoutsFollow, EnforcesAsSaid, DuoIsMade, RecordIsOfTheRun, After
<1>4. CASE header.debug # "gone"
  <2>1. /\ code' = code /\ debugOn' = req.want
        /\ header' = [header EXCEPT !.debug = req.want,
                        !.verbose = header.verbose /\ (header.debug = req.want \/ req.want = "on")]
    BY <1>4 DEF GateDebug
  <2>2. /\ header' \in [debug : Switch, verbose : BOOLEAN, layouts : Switch, std : {header.std}, hwid : Switch]
        /\ header'.debug = req.want /\ header'.std = header.std
        /\ header'.verbose => header.debug = req.want \/ req.want = "on"
    BY <1>2, <2>1 DEF EditTypes, Switch
  <2>3. EditTypes'
    BY <1>1, <1>2, <2>1, <2>2 DEF EditTypes, Gates
  <2>4. DebugIsKnown'
    BY <1>1, <1>2, <2>1, <2>2 DEF DebugIsKnown
  <2> QED BY <1>1, <2>3, <2>4
          DEF AsCopied, LayoutsFollow, EnforcesAsSaid, DuoIsMade, RecordIsOfTheRun, After
<1> QED BY <1>3, <1>4

LEMMA GateKeylayoutsInv == ASSUME EditInv, GateKeylayouts PROVE EditInv'
<1> USE DEF EditInv
<1> DEFINE l == IF debugOn = "null" \/ header.layouts = "gone" THEN header.layouts ELSE debugOn
<1>1. /\ phase = "layouts" /\ phase' = "trust" /\ header' = [header EXCEPT !.layouts = l]
      /\ UNCHANGED <<req, trust, code, debugOn, enforcing>>
  BY DEF GateKeylayouts, found
<1>2. l \in Switch /\ (debugOn # "null" => l \in {"gone", debugOn})
  BY DEF EditTypes, Switch
<1> HIDE DEF l
<1>3. /\ header' \in [debug : Switch, verbose : BOOLEAN, layouts : Switch, std : {header.std}, hwid : Switch]
      /\ header'.debug = header.debug /\ header'.verbose = header.verbose /\ header'.layouts = l
      /\ header'.std = header.std
  BY <1>1, <1>2 DEF EditTypes
<1>4. EditTypes'
  BY <1>1, <1>3 DEF EditTypes, Gates
<1>5. DebugIsKnown' /\ LayoutsFollow'
  BY <1>1, <1>2, <1>3 DEF DebugIsKnown, LayoutsFollow, After
<1> QED BY <1>1, <1>4, <1>5 DEF AsCopied, EnforcesAsSaid, DuoIsMade, RecordIsOfTheRun, After

(* Asked to enforce, the stage cuts the return or stops; with DEBUG off it   *)
(* is not compiled.                                                          *)
LEMMA GateTrustAllOriginsInv == ASSUME EditInv, GateTrustAllOrigins PROVE EditInv'
<1> USE DEF EditInv
<1>1. phase = "trust" /\ UNCHANGED <<req, header, debugOn>>
  BY DEF GateTrustAllOrigins
<1>2. req.enforce \in BOOLEAN
  BY RequestsAssumption DEF EditTypes
<1>3. CASE /\ debugOn = "off" \/ ~req.enforce
           /\ enforcing' = (debugOn = "off") /\ phase' = "defines"
           /\ UNCHANGED <<trust, code, record>>
  <2>1. EditTypes'
    BY <1>1, <1>3 DEF EditTypes, Gates
  <2>2. DebugIsKnown' /\ LayoutsFollow'
    BY <1>1, <1>3 DEF DebugIsKnown, LayoutsFollow, After
  <2>3. EnforcesAsSaid'
    BY <1>1, <1>2, <1>3 DEF EditTypes, DebugIsKnown, EnforcesAsSaid, After
  <2> QED BY <1>1, <1>3, <2>1, <2>2, <2>3 DEF AsCopied, DuoIsMade, RecordIsOfTheRun, After
<1>4. CASE /\ debugOn # "off" /\ req.enforce /\ trust
           /\ trust' = FALSE /\ enforcing' = TRUE /\ phase' = "defines"
           /\ UNCHANGED <<code, record>>
  <2>1. EditTypes'
    BY <1>1, <1>4 DEF EditTypes, Gates
  <2>2. DebugIsKnown' /\ LayoutsFollow'
    BY <1>1, <1>4 DEF DebugIsKnown, LayoutsFollow, After
  <2>3. EnforcesAsSaid'
    BY <1>4 DEF EnforcesAsSaid
  <2> QED BY <1>1, <1>4, <2>1, <2>2, <2>3 DEF AsCopied, DuoIsMade, RecordIsOfTheRun, After
<1>5. CASE Stop /\ UNCHANGED <<trust, enforcing>>
  BY <1>1, <1>5, StopInv DEF EditTypes
<1> QED BY <1>3, <1>4, <1>5 DEF GateTrustAllOrigins

LEMMA GateDefinesInv == ASSUME EditInv, GateDefines PROVE EditInv'
<1> USE DEF EditInv
<1> DEFINE s == GateDefine(header.std, WantStd)
           w == GateDefine(header.hwid, req.duo)
<1>1. /\ phase = "defines" /\ header' = [header EXCEPT !.std = s, !.hwid = w]
      /\ UNCHANGED <<req, trust, debugOn, enforcing>>
  BY DEF GateDefines, found
<1>2. w \in Switch /\ (req.duo = "on" /\ header.hwid # "gone" => w = "on")
  BY RequestsAssumption DEF EditTypes, Switch, GateDefine
<1> HIDE DEF s, w
<1>3. /\ header' \in [debug : Switch, verbose : BOOLEAN, layouts : Switch, std : {header'.std}, hwid : Switch]
      /\ header'.debug = header.debug /\ header'.verbose = header.verbose
      /\ header'.layouts = header.layouts /\ header'.hwid = w
  BY <1>1, <1>2 DEF EditTypes
<1>4. CASE Stop
  BY <1>1, <1>3, <1>4, StopInv DEF EditTypes
<1>5. CASE /\ ~(req.duo = "on" /\ header.hwid = "gone")
           /\ phase' = "patches" /\ (code' = code \/ code' = 1)
  <2>1. EditTypes'
    BY <1>1, <1>3, <1>5 DEF EditTypes, Gates
  <2>2. DebugIsKnown' /\ LayoutsFollow'
    BY <1>1, <1>3, <1>5 DEF DebugIsKnown, LayoutsFollow, After
  <2>3. EnforcesAsSaid'
    BY <1>1, <1>3, <1>5 DEF EnforcesAsSaid, After
  <2>4. DuoIsMade'
    BY <1>1, <1>2, <1>3, <1>5 DEF DuoIsMade
  <2> QED BY <1>1, <1>5, <2>1, <2>2, <2>3, <2>4 DEF AsCopied, RecordIsOfTheRun
<1> QED BY <1>4, <1>5 DEF GateDefines

(* The edits and the registers leave the gates, and never lower the exit code.*)
LEMMA EditsInv ==
  ASSUME EditInv, UNCHANGED <<req, header, trust, debugOn, enforcing>>,
         phase \in {"patches", "registers"}, phase' \in {"patches", "registers", "record"},
         code' = code \/ code' = 1
  PROVE  EditInv'
<1>1. EditTypes'
  BY DEF EditInv, EditTypes, Gates
<1>2. (AsCopied /\ DebugIsKnown /\ LayoutsFollow)'
  BY DEF EditInv, AsCopied, DebugIsKnown, LayoutsFollow, After
<1>3. (EnforcesAsSaid /\ DuoIsMade /\ RecordIsOfTheRun)'
  BY DEF EditInv, EnforcesAsSaid, DuoIsMade, RecordIsOfTheRun, After
<1> QED BY <1>1, <1>2, <1>3 DEF EditInv

(* The record is made of what the gates returned. *)
LEMMA WriteBuildJsonInv == ASSUME EditInv, WriteBuildJson PROVE EditInv'
<1>1. /\ phase = "record" /\ phase' = "done" /\ UNCHANGED <<req, header, trust, code, debugOn, enforcing>>
      /\ record' = [debug |-> debugOn, std |-> header.std, enforce |-> enforcing,
                    model |-> IF header.hwid = "on" THEN "duo" ELSE "classic"]
  BY DEF WriteBuildJson, text, found
<1>2. EditTypes'
  BY <1>1 DEF EditInv, EditTypes, Gates
<1>3. (AsCopied /\ DebugIsKnown /\ LayoutsFollow)'
  BY <1>1 DEF EditInv, AsCopied, DebugIsKnown, LayoutsFollow, After
<1>4. (EnforcesAsSaid /\ DuoIsMade)'
  BY <1>1 DEF EditInv, EnforcesAsSaid, DuoIsMade, After
<1>5. RecordIsOfTheRun'
  BY <1>1 DEF RecordIsOfTheRun
<1> QED BY <1>2, <1>3, <1>4, <1>5 DEF EditInv

(* Every step of a run keeps the invariant. *)
LEMMA EditStepInv == EditInv /\ [EditNext]_editVars => EditInv'
<1> SUFFICES ASSUME EditInv, [EditNext]_editVars PROVE EditInv'
  OBVIOUS
<1>1. CASE SkipPatch \/ FileAbsent \/ ApplyPatch
  <2>1. /\ phase = "patches" /\ phase' = "patches" /\ (code' = code \/ code' = 1)
        /\ UNCHANGED <<req, header, trust, debugOn, enforcing>>
    BY <1>1 DEF SkipPatch, FileAbsent, ApplyPatch, More, Next1, found
  <2> QED BY <2>1, EditsInv
<1>2. CASE StaleClaim
  <2>1. Stop /\ UNCHANGED <<req, header, trust, debugOn, enforcing>>
    BY <1>2 DEF StaleClaim, text, found
  <2> QED BY <2>1, StopInv DEF EditInv, EditTypes
<1>3. CASE CheckDeclared
  <2>1. phase = "patches" /\ UNCHANGED <<req, header, trust, debugOn, enforcing>>
    BY <1>3 DEF CheckDeclared, text, found
  <2>2. Stop \/ (phase' = "registers" /\ code' = code)
    BY <1>3 DEF CheckDeclared
  <2>3. CASE Stop
    BY <2>1, <2>3, StopInv DEF EditInv, EditTypes
  <2>4. CASE phase' = "registers" /\ code' = code
    BY <2>1, <2>4, EditsInv
  <2> QED BY <2>2, <2>3, <2>4
<1>4. CASE RewriteRegisterBlocks
  <2>1. /\ phase = "registers" /\ phase' = "record" /\ (code' = code \/ code' = 1)
        /\ UNCHANGED <<req, header, trust, debugOn, enforcing>>
    BY <1>4 DEF RewriteRegisterBlocks, found
  <2> QED BY <2>1, EditsInv
<1>5. CASE UNCHANGED editVars
  <2>1. UNCHANGED <<req, header, trust, phase, code, debugOn, enforcing, record>>
    BY <1>5 DEF editVars, text, found
  <2>2. (EditTypes /\ AsCopied /\ DebugIsKnown)'
    BY <2>1 DEF EditInv, EditTypes, AsCopied, DebugIsKnown, After
  <2>3. (LayoutsFollow /\ EnforcesAsSaid /\ DuoIsMade /\ RecordIsOfTheRun)'
    BY <2>1 DEF EditInv, LayoutsFollow, EnforcesAsSaid, DuoIsMade, RecordIsOfTheRun, After
  <2> QED BY <2>2, <2>3 DEF EditInv
<1> QED BY <1>1, <1>2, <1>3, <1>4, <1>5, GateDebugInv, GateKeylayoutsInv, GateTrustAllOriginsInv,
           GateDefinesInv, WriteBuildJsonInv DEF EditNext

(* A run whose tree goes to the compiler leaves a record that is of that     *)
(* tree, whatever was asked for and whatever the header had (stage.js:2620). *)
THEOREM RecordTellsTheTreeHolds == EditSpec => []RecordTellsTheTree
<1>1. EditInv => RecordTellsTheTree
  <2> SUFFICES ASSUME EditInv, phase = "done", code = 0
               PROVE  RecordTellsTheTree
    BY DEF RecordTellsTheTree, Passed
  <2>1. /\ record.debug = debugOn /\ record.std = header.std /\ record.enforce = enforcing
        /\ (record.model = "duo") = (header.hwid = "on")
    BY DEF EditInv, RecordIsOfTheRun
  <2>2. DebugIsKnown /\ LayoutsFollow /\ EnforcesAsSaid /\ DuoIsMade
    BY DEF EditInv
  <2>3. /\ debugOn = header.debug /\ (debugOn = "off" => ~header.verbose \/ req.header.debug = "off")
        /\ header.layouts \in {"gone", header.debug}
    BY <2>2 DEF DebugIsKnown, LayoutsFollow, After
  <2>4. /\ enforcing => ~(header.debug = "on" /\ trust)
        /\ ~enforcing => header.debug = "on" /\ ~req.enforce
        /\ req.duo = "on" => header.hwid = "on"
    BY <2>2 DEF EnforcesAsSaid, DuoIsMade, After
  <2> QED BY <2>1, <2>3, <2>4 DEF RecordTellsTheTree
<1> QED BY <1>1, EditInitInv, EditStepInv, PTL DEF EditSpec

-----------------------------------------------------------------------------
(* The literal edits (StageEdit): what one of them, and then a patch's list  *)
(* of them, does to the lines of the tree.                                   *)
Result(b) == b = [ls |-> b.ls, gone |-> b.gone, stale |-> b.stale] /\ b.stale \in BOOLEAN
Spelt(e) == LooksFor(patch, e)
EditShape(e) == IsList(e.from) /\ 1 \in DOMAIN e.from

EditDid(b, a, e) ==
  /\ \A l : l \notin Spelt(e) => (l \in a.ls <=> l \in b.ls)
  /\ Spelt(e) \cap b.ls # {} => Made(patch, e, b.ls, a.ls)
  /\ a.gone = b.gone \cup (IF Spelt(e) \cap b.ls = {} THEN {Named(e)} ELSE {})
  /\ a.stale <=> b.stale \/ (Spelt(e) \cap b.ls # {} /\ Named(e) \in Declared)

LEMMA ThereIs == ASSUME NEW e, NEW ls PROVE There(e, ls) # {} <=> Spelt(e) \cap ls # {}
  BY DEF There, Spelt, LooksFor

(* Some numbers have a least. *)
LEMMA LeastIs == ASSUME NEW S \in SUBSET Nat, S # {} PROVE \E k \in S : \A n \in S : k <= n
<1>1. PICK k \in S : \A n \in S : ~(<<n, k>> \in OpToRel(<, Nat))
  BY NatLessThanWellFounded, WFMin
<1>2. ASSUME NEW n \in S PROVE k <= n
  <2>1. ~(<<n, k>> \in OpToRel(<, Nat))
    BY <1>1
  <2>2. ~(n < k)
    BY <2>1 DEF OpToRel
  <2> QED BY <2>2
<1> QED BY <1>2

LEMMA EditOneDoes ==
  ASSUME NEW e, NEW b, EditShape(e), Result(b)
  PROVE  Result(EditOne(b, e)) /\ EditDid(b, EditOne(b, e), e)
<1> DEFINE a == EditOne(b, e)
<1>0. <<patch.file, Named(e)>> \in Spelt(e)
  BY DEF Spelt, LooksFor, Named, EditShape
<1>1. CASE There(e, b.ls) = {}
  <2>1. a = [ls |-> b.ls, gone |-> b.gone \cup {Named(e)}, stale |-> b.stale]
    BY <1>1 DEF EditOne, Result
  <2>2. Spelt(e) \cap b.ls = {}
    BY <1>1, ThereIs
  <2> HIDE DEF a
  <2>3. a.ls = b.ls /\ a.gone = b.gone \cup {Named(e)} /\ a.stale = b.stale
    BY <2>1
  <2>4. Result(a)
    BY <2>1, <2>3 DEF Result
  <2>5. a.stale <=> b.stale \/ (Spelt(e) \cap b.ls # {} /\ Named(e) \in Declared)
    BY <2>2, <2>3
  <2>6. a.gone = b.gone \cup (IF Spelt(e) \cap b.ls = {} THEN {Named(e)} ELSE {})
    BY <2>2, <2>3
  <2>7. EditDid(b, a, e)
    BY <2>2, <2>3, <2>5, <2>6 DEF EditDid
  <2> QED BY <2>4, <2>7 DEF a
<1>2. CASE There(e, b.ls) # {}
  <2> DEFINE k == CHOOSE k \in There(e, b.ls) : \A n \in There(e, b.ls) : k <= n
             x == <<patch.file, e.from[k]>>
             s == Named(e) \in Declared
             kept == IF e.keeps THEN {<<patch.file, Named(e)>>} ELSE {}
  <2>1. a = [ls |-> (b.ls \ {x}) \cup kept, gone |-> b.gone, stale |-> b.stale \/ s]
    BY <1>2 DEF EditOne, Result, Edited
  <2>2. k \in There(e, b.ls) /\ \A n \in There(e, b.ls) : k <= n
    <3>1. There(e, b.ls) \in SUBSET Nat
      BY DEF There, EditShape, IsList
    <3>2. \E n \in There(e, b.ls) : \A i \in There(e, b.ls) : n <= i
      BY <1>2, <3>1, LeastIs
    <3> QED BY <3>2
  <2> HIDE DEF k
  <2>3. x \in Spelt(e) \cap b.ls
    BY <2>2 DEF There, Spelt, LooksFor
  <2>4. a.ls = (b.ls \ {x}) \cup kept /\ a.gone = b.gone /\ a.stale = (b.stale \/ s)
    BY <2>1
  <2>5. Made(patch, e, b.ls, a.ls)
    <3>1. k \in DOMAIN e.from /\ DOMAIN e.from \subseteq Nat \ {0} /\ 1 \in DOMAIN e.from
      BY <2>2 DEF There, EditShape, IsList
    <3>2. \A n \in DOMAIN e.from : n < k => <<patch.file, e.from[n]>> \notin b.ls
      <4>1. \A n \in DOMAIN e.from : n < k => n \notin There(e, b.ls)
        BY <2>2, <3>1
      <4> QED BY <4>1 DEF There
    <3>3. x \in b.ls
      BY <2>3
    <3>4. e.keeps => <<patch.file, Named(e)>> \in a.ls
      BY <2>4
    <3>5. k = 1 \/ <<patch.file, e.from[1]>> \notin b.ls
      BY <3>1, <3>2
    <3>6. (e.keeps /\ k = 1) \/ x \notin a.ls
      <4> HIDE DEF a, x
      <4> QED BY <2>4, <3>3, <3>5 DEF Named
    <3> HIDE DEF a
    <3> QED BY <3>1, <3>2, <3>3, <3>4, <3>6 DEF Made
  <2> HIDE DEF a, x
  <2>6. Result(a)
    BY <2>1, <2>4 DEF Result
  <2>7. \A l : l \notin Spelt(e) => (l \in a.ls <=> l \in b.ls)
    BY <1>0, <2>3, <2>4
  <2>8. Spelt(e) \cap b.ls # {}
    BY <2>3
  <2>10. a.stale <=> b.stale \/ (Spelt(e) \cap b.ls # {} /\ Named(e) \in Declared)
    BY <2>4, <2>8
  <2>11. a.gone = b.gone \cup (IF Spelt(e) \cap b.ls = {} THEN {Named(e)} ELSE {})
    BY <2>4, <2>8
  <2>12. EditDid(b, a, e)
    BY <2>5, <2>7, <2>10, <2>11 DEF EditDid
  <2> QED BY <2>6, <2>12 DEF a
<1> QED BY <1>1, <1>2

(* The lists of edits, unfolded: one after each edit, the first the tree. *)
AsFound == [ls |-> lines, gone |-> {}, stale |-> FALSE]
Follow(f, n) == f = [i \in 0..n |-> IF i = 0 THEN AsFound ELSE EditOne(f[i - 1], patch.edits[i])]

LEMMA FollowsFrom ==
  ASSUME NEW n \in Nat, NEW f, Follow(f, n)
  PROVE  \E g : Follow(g, n + 1)
<1> DEFINE nth(i) == IF i = 0 THEN AsFound ELSE EditOne(f[i - 1], patch.edits[i])
           g == [i \in 0..(n + 1) |-> nth(i)]
<1>1. f = [i \in 0..n |-> nth(i)]
  BY DEF Follow
<1> HIDE DEF nth
<1>2. \A i \in 0..n : g[i] = f[i]
  BY <1>1
<1>3. \A i \in 0..(n + 1) : g[i] = nth(i)
  OBVIOUS
<1>4. g = [i \in 0..(n + 1) |-> g[i]]
  OBVIOUS
<1> HIDE DEF g
<1>5. ASSUME NEW i \in 0..(n + 1)
      PROVE  g[i] = IF i = 0 THEN AsFound ELSE EditOne(g[i - 1], patch.edits[i])
  <2>1. i # 0 => i - 1 \in 0..n
    OBVIOUS
  <2>2. i # 0 => g[i - 1] = f[i - 1]
    BY <1>2, <2>1
  <2> QED BY <1>3, <2>2 DEF nth
<1>6. Follow(g, n + 1)
  BY <1>4, <1>5 DEF Follow
<1> QED BY <1>6

LEMMA FollowsExist == ASSUME NEW n \in Nat PROVE \E f : Follow(f, n)
<1> DEFINE B == {m \in Nat : ~ \E f : Follow(f, m)}
<1>1. SUFFICES ASSUME B # {} PROVE FALSE
  OBVIOUS
<1>2. PICK m \in B : \A j \in B : m <= j
  <2>1. B \in SUBSET Nat
    OBVIOUS
  <2> HIDE DEF B
  <2> QED BY <1>1, <2>1, LeastIs
<1>3. m \in Nat /\ ~ \E f : Follow(f, m)
  OBVIOUS
<1>4. m # 0
  <2> DEFINE z == [i \in 0..0 |-> AsFound]
  <2>1. z = [i \in 0..0 |-> IF i = 0 THEN AsFound ELSE EditOne(z[i - 1], patch.edits[i])]
    OBVIOUS
  <2>2. Follow(z, 0)
    BY <2>1 DEF Follow
  <2> QED BY <1>3, <2>2
<1>5. m - 1 \in Nat /\ m - 1 < m
  BY <1>3, <1>4
<1>6. m - 1 \notin B
  BY <1>2, <1>3, <1>5
<1>7. PICK f : Follow(f, m - 1)
  BY <1>5, <1>6
<1>8. \E g : Follow(g, (m - 1) + 1)
  BY <1>5, <1>7, FollowsFrom
<1>9. (m - 1) + 1 = m
  BY <1>3
<1> QED BY <1>3, <1>8, <1>9

LEMMA EditsFollow ==
  ASSUME Len(patch.edits) \in Nat
  PROVE  /\ Edits[0] = AsFound
         /\ \A i \in 1..Len(patch.edits) : Edits[i] = EditOne(Edits[i - 1], patch.edits[i])
<1> DEFINE n == Len(patch.edits)
<1>1. PICK f : Follow(f, n)
  BY FollowsExist
<1>2. Follow(Edits, n)
  <2>1. f = [i \in 0..n |-> IF i = 0 THEN AsFound ELSE EditOne(f[i - 1], patch.edits[i])]
    BY <1>1 DEF Follow
  <2> HIDE DEF n
  <2>2. Edits = CHOOSE g : g = [i \in 0..n |-> IF i = 0 THEN AsFound ELSE EditOne(g[i - 1], patch.edits[i])]
    BY DEF Edits, AsFound, n
  <2> QED BY <2>1, <2>2 DEF Follow
<1>3. Edits = [i \in 0..n |-> IF i = 0 THEN AsFound ELSE EditOne(Edits[i - 1], patch.edits[i])]
  BY <1>2 DEF Follow
<1>4. ASSUME NEW i \in 0..n PROVE Edits[i] = IF i = 0 THEN AsFound ELSE EditOne(Edits[i - 1], patch.edits[i])
  BY <1>3
<1> QED BY <1>4

(* The patch that is next is one a run can make: its edits are lists, and no  *)
(* line is looked for by two of them.                                       *)
PatchShape(p) == IsList(p.edits) /\ \A i \in DOMAIN p.edits : EditShape(p.edits[i])
NoneTwice(p) == \A i, j \in DOMAIN p.edits : i # j => Apart(p, i, p, j)

(* What the first n edits of the patch that is next have done. *)
Looks(p, i) == LooksFor(p, p.edits[i])
EditsDid(n) ==
  LET b == Edits[n]
  IN  /\ Result(b)
      /\ \A l : (\A i \in 1..n : l \notin Looks(patch, i)) => (l \in b.ls <=> l \in lines)
      /\ \A i \in 1..n : Looks(patch, i) \cap lines # {} => Made(patch, patch.edits[i], lines, b.ls)
      /\ b.gone = {Named(patch.edits[i]) : i \in {i \in 1..n : Looks(patch, i) \cap lines = {}}}
      /\ b.stale <=> \E i \in 1..n : Looks(patch, i) \cap lines # {} /\ Named(patch.edits[i]) \in Declared

(* Whether an edit is made is told by the lines it looks for. *)
LEMMA MadeLooks ==
  ASSUME NEW p, NEW e, EditShape(e), NEW was, NEW is, NEW was2, NEW is2, Made(p, e, was, is),
         LooksFor(p, e) \cap was2 = LooksFor(p, e) \cap was,
         LooksFor(p, e) \cap is2 = LooksFor(p, e) \cap is
  PROVE  Made(p, e, was2, is2)
<1>1. \A n \in DOMAIN e.from : <<p.file, e.from[n]>> \in LooksFor(p, e)
  BY DEF LooksFor
<1>2. <<p.file, Named(e)>> \in LooksFor(p, e)
  BY <1>1 DEF EditShape, Named
<1>3. PICK k \in DOMAIN e.from :
        /\ <<p.file, e.from[k]>> \in was
        /\ \A n \in DOMAIN e.from : n < k => <<p.file, e.from[n]>> \notin was
        /\ (e.keeps /\ k = 1) \/ <<p.file, e.from[k]>> \notin is
        /\ e.keeps => <<p.file, Named(e)>> \in is
  BY DEF Made
<1>4. /\ <<p.file, e.from[k]>> \in was2
      /\ \A n \in DOMAIN e.from : n < k => <<p.file, e.from[n]>> \notin was2
  BY <1>1, <1>3
<1>5. /\ (e.keeps /\ k = 1) \/ <<p.file, e.from[k]>> \notin is2
      /\ e.keeps => <<p.file, Named(e)>> \in is2
  BY <1>1, <1>2, <1>3
<1> QED BY <1>4, <1>5 DEF Made

LEMMA EditsDoOne ==
  ASSUME PatchShape(patch), NoneTwice(patch),
         NEW n \in Nat, n + 1 <= Len(patch.edits), EditsDid(n)
  PROVE  EditsDid(n + 1)
<1> DEFINE e == patch.edits[n + 1]
           b == Edits[n]
           a == Edits[n + 1]
<1>1. Len(patch.edits) \in Nat /\ DOMAIN patch.edits = 1..Len(patch.edits) /\ n + 1 \in DOMAIN patch.edits
  BY DEF PatchShape, IsList
<1>2. EditShape(e)
  BY <1>1 DEF PatchShape
<1>3. a = EditOne(b, e)
  <2>1. n + 1 \in 1..Len(patch.edits) /\ (n + 1) - 1 = n
    BY <1>1
  <2> QED BY <1>1, <2>1, EditsFollow
<1>4. /\ Result(b) /\ \A l : (\A i \in 1..n : l \notin Looks(patch, i)) => (l \in b.ls <=> l \in lines)
      /\ b.gone = {Named(patch.edits[i]) : i \in {i \in 1..n : Looks(patch, i) \cap lines = {}}}
  BY DEF EditsDid
<1>5. /\ \A i \in 1..n : Looks(patch, i) \cap lines # {} => Made(patch, patch.edits[i], lines, b.ls)
      /\ b.stale <=> \E i \in 1..n : Looks(patch, i) \cap lines # {} /\ Named(patch.edits[i]) \in Declared
  BY DEF EditsDid
<1>6. Spelt(e) = Looks(patch, n + 1)
  BY DEF Spelt, Looks
<1>7. \A i \in 1..n : Looks(patch, i) \cap Looks(patch, n + 1) = {}
  <2>1. ASSUME NEW i \in 1..n PROVE Looks(patch, i) \cap Looks(patch, n + 1) = {}
    <3>1. i \in DOMAIN patch.edits /\ i # n + 1
      BY <1>1
    <3> QED BY <1>1, <3>1 DEF NoneTwice, Apart, Looks
  <2> QED BY <2>1
<1>8. \A l \in Spelt(e) : l \in b.ls <=> l \in lines
  BY <1>4, <1>6, <1>7
<1> HIDE DEF a, b, e
<1>10. Result(a) /\ EditDid(b, a, e)
  BY <1>2, <1>3, <1>4, EditOneDoes
<1>11. /\ \A l : l \notin Spelt(e) => (l \in a.ls <=> l \in b.ls)
       /\ Spelt(e) \cap b.ls # {} => Made(patch, e, b.ls, a.ls)
       /\ a.gone = b.gone \cup (IF Spelt(e) \cap b.ls = {} THEN {Named(e)} ELSE {})
       /\ a.stale <=> b.stale \/ (Spelt(e) \cap b.ls # {} /\ Named(e) \in Declared)
  BY <1>10 DEF EditDid
<1>12. 1..(n + 1) = 1..n \cup {n + 1}
  OBVIOUS
<1>13. Spelt(e) \cap b.ls = {} <=> Looks(patch, n + 1) \cap lines = {}
  BY <1>6, <1>8
<1>14. \A l : (\A i \in 1..(n + 1) : l \notin Looks(patch, i)) => (l \in a.ls <=> l \in lines)
  BY <1>4, <1>6, <1>11, <1>12
<1>15. \A i \in 1..(n + 1) : Looks(patch, i) \cap lines # {} => Made(patch, patch.edits[i], lines, a.ls)
  <2>1. ASSUME NEW i \in 1..n, Looks(patch, i) \cap lines # {}
        PROVE  Made(patch, patch.edits[i], lines, a.ls)
    <3>1. EditShape(patch.edits[i])
      BY <1>1 DEF PatchShape
    <3>2. Looks(patch, i) \cap a.ls = Looks(patch, i) \cap b.ls
      BY <1>6, <1>7, <1>11
    <3> QED BY <1>5, <2>1, <3>1, <3>2, MadeLooks DEF Looks
  <2>2. ASSUME Looks(patch, n + 1) \cap lines # {}
        PROVE  Made(patch, patch.edits[n + 1], lines, a.ls)
    <3>1. Made(patch, e, b.ls, a.ls)
      BY <1>11, <1>13, <2>2
    <3>2. LooksFor(patch, e) \cap lines = LooksFor(patch, e) \cap b.ls
      BY <1>8 DEF Spelt
    <3>3. Made(patch, e, lines, a.ls)
      BY <1>2, <3>1, <3>2, MadeLooks
    <3> QED BY <3>3 DEF e
  <2> QED BY <1>12, <2>1, <2>2
<1>17. a.gone = {Named(patch.edits[i]) : i \in {i \in 1..(n + 1) : Looks(patch, i) \cap lines = {}}}
  <2>1. a.gone = b.gone \cup (IF Looks(patch, n + 1) \cap lines = {} THEN {Named(patch.edits[n + 1])} ELSE {})
    BY <1>11, <1>13 DEF e
  <2> QED BY <1>4, <1>12, <2>1
<1>18. a.stale <=> \E i \in 1..(n + 1) : Looks(patch, i) \cap lines # {} /\ Named(patch.edits[i]) \in Declared
  <2>1. a.stale <=> b.stale \/ (Looks(patch, n + 1) \cap lines # {} /\ Named(patch.edits[n + 1]) \in Declared)
    BY <1>11, <1>13 DEF e
  <2> QED BY <1>5, <1>12, <2>1
<1> QED BY <1>10, <1>14, <1>15, <1>17, <1>18 DEF EditsDid, a

(* What the whole list does. *)
LEMMA RunEditsDid ==
  ASSUME PatchShape(patch), NoneTwice(patch)
  PROVE  EditsDid(Len(patch.edits))
<1> DEFINE L == Len(patch.edits)
           B == {m \in 0..L : ~EditsDid(m)}
<1>1. L \in Nat
  BY DEF PatchShape, IsList
<1>2. EditsDid(0)
  <2>1. Edits[0] = AsFound
    BY <1>1, EditsFollow
  <2>2. Edits[0].ls = lines /\ Edits[0].gone = {} /\ Edits[0].stale = FALSE /\ Result(Edits[0])
    BY <2>1 DEF AsFound, Result
  <2>3. \A i \in 1..0 : FALSE
    OBVIOUS
  <2>4. Edits[0].gone = {Named(patch.edits[i]) : i \in {i \in 1..0 : Looks(patch, i) \cap lines = {}}}
    BY <2>2, <2>3
  <2> QED BY <2>2, <2>3, <2>4 DEF EditsDid
<1>3. ASSUME B # {} PROVE FALSE
  <2>1. PICK m \in B : \A j \in B : m <= j
    <3>1. B \in SUBSET Nat
      BY <1>1
    <3> HIDE DEF B
    <3> QED BY <1>3, <3>1, LeastIs
  <2>2. m \in 0..L /\ ~EditsDid(m)
    OBVIOUS
  <2>3. m # 0
    BY <1>2, <2>2
  <2> DEFINE n == m - 1
  <2>4. n \in Nat /\ n + 1 = m /\ n + 1 <= L /\ n \in 0..L /\ n < m
    BY <1>1, <2>2, <2>3
  <2>5. n \notin B
    BY <1>1, <2>1, <2>2, <2>4
  <2>6. EditsDid(n)
    BY <2>4, <2>5
  <2> HIDE DEF n
  <2>7. EditsDid(n + 1)
    BY <2>4, <2>6, EditsDoOne
  <2> QED BY <2>2, <2>4, <2>7
<1> QED BY <1>1, <1>3

-----------------------------------------------------------------------------
(* A tree that goes to the compiler is whole.  The patches of this run that   *)
(* come before the next one are done, if the exit code is still 0; the lines  *)
(* the others look for are as they were copied.                             *)
BeforePatches == {"debug", "layouts", "trust", "defines"}
Ours == PatchesFor(Patches, req.target)
DoneIn(p, ls, declared) == \A i \in DOMAIN p.edits :
  IF Looks(p, i) \cap copied[2] = {}
    THEN {p.file, Named(p.edits[i])} \cap declared # {}
    ELSE Named(p.edits[i]) \notin declared /\ Made(p, p.edits[i], copied[2], ls)
PatchDone(a) == DoneIn(Patches[a], lines, Declared)

WithFiles == \A l \in lines : l[1] \in files
Untouched == phase \in BeforePatches => at = 1 /\ lines = copied[2]
LinesAsCopied(p, ls) == \A i \in DOMAIN p.edits : Looks(p, i) \cap ls = Looks(p, i) \cap copied[2]
InOrder ==
  phase = "patches" =>
    /\ at \in Nat \ {0}
    /\ \A a \in Ours : /\ at <= a => LinesAsCopied(Patches[a], lines)
                       /\ a < at /\ code = 0 => PatchDone(a)
AllDone == phase \in {"registers", "record", "done"} /\ code = 0 => \A a \in Ours : PatchDone(a)
RegistersMoved == phase \in {"record", "done"} /\ code = 0 => rebased

LinesInv == WithFiles /\ Untouched /\ InOrder /\ AllDone /\ RegistersMoved

(* What the tables say of the patches a run makes. *)
LEMMA PatchesAre ==
  ASSUME EditInv
  PROVE  /\ IsList(Patches) /\ \A a \in DOMAIN Patches : PatchShape(Patches[a])
         /\ \A a, b \in Ours : \A i \in DOMAIN Patches[a].edits, j \in DOMAIN Patches[b].edits :
              a # b \/ i # j => Apart(Patches[a], i, Patches[b], j)
         /\ \A a \in Ours : NoneTwice(Patches[a])
<1>1. /\ req.release \in DOMAIN Releases /\ req.target \in TARGETS /\ debugOn \in {"on", "off", "null"}
  BY RequestsAssumption DEF EditInv, EditTypes
<1>2. IsList(Patches) /\ \A a \in DOMAIN Patches : PatchShape(Patches[a])
  BY <1>1, TablesAssumption DEF Patches, PatchShape, EditShape
<1>3. \A a, b \in Ours : \A i \in DOMAIN Patches[a].edits, j \in DOMAIN Patches[b].edits :
        a # b \/ i # j => Apart(Patches[a], i, Patches[b], j)
  BY <1>1, EditsApartAssumption DEF Patches, Ours
<1>4. \A a \in Ours : NoneTwice(Patches[a])
  BY <1>3 DEF NoneTwice
<1> QED BY <1>2, <1>3, <1>4

(* The lines of one patch are not the lines of another. *)
LEMMA OthersUntouched ==
  ASSUME EditInv, at \in Ours, NEW a \in Ours, a # at,
         NEW i \in DOMAIN Patches[a].edits
  PROVE  Looks(Patches[a], i) \cap RunEdits.ls = Looks(Patches[a], i) \cap lines
<1>1. /\ PatchShape(patch) /\ NoneTwice(patch)
      /\ \A j \in DOMAIN patch.edits : Apart(Patches[a], i, patch, j)
  BY PatchesAre DEF Ours, PatchesFor, patch
<1>2. EditsDid(Len(patch.edits))
  BY <1>1, RunEditsDid
<1>3. DOMAIN patch.edits = 1..Len(patch.edits)
  BY <1>1 DEF PatchShape, IsList
<1>4. ASSUME NEW l \in Looks(Patches[a], i) PROVE l \in RunEdits.ls <=> l \in lines
  <2>1. \A j \in 1..Len(patch.edits) : l \notin Looks(patch, j)
    BY <1>1, <1>3 DEF Apart, Looks
  <2> QED BY <1>2, <2>1 DEF EditsDid, RunEdits
<1> QED BY <1>4

(* A patch that is done stays done while others are made. *)
LEMMA DoneStays ==
  ASSUME NEW p, NEW ls, NEW after, PatchShape(p), DoneIn(p, ls, Declared),
         \A i \in DOMAIN p.edits : Looks(p, i) \cap after = Looks(p, i) \cap ls
  PROVE  DoneIn(p, after, Declared)
<1> SUFFICES ASSUME NEW i \in DOMAIN p.edits, Looks(p, i) \cap copied[2] # {}
             PROVE  Made(p, p.edits[i], copied[2], after)
  BY DEF DoneIn
<1>1. EditShape(p.edits[i]) /\ Made(p, p.edits[i], copied[2], ls)
  BY DEF PatchShape, DoneIn
<1>2. LooksFor(p, p.edits[i]) \cap after = LooksFor(p, p.edits[i]) \cap ls
  BY DEF Looks
<1> HIDE DEF copied
<1> QED BY <1>1, <1>2, MadeLooks

LEMMA CopiedStays ==
  ASSUME NEW p, LinesAsCopied(p, lines), UNCHANGED req,
         \A i \in DOMAIN p.edits : Looks(p, i) \cap lines' = Looks(p, i) \cap lines
  PROVE  LinesAsCopied(p, lines')
  BY DEF LinesAsCopied

LEMMA LinesInit == EditInit => LinesInv
<1> SUFFICES ASSUME EditInit PROVE LinesInv
  OBVIOUS
<1>1. /\ req \in Requests /\ phase = "debug" /\ at = 1
      /\ files = copied[1] /\ lines = copied[2]
  BY DEF EditInit
<1>2. req.release \in DOMAIN Releases /\ req.drift \in Drifts(release)
  BY <1>1, RequestsAssumption, DriftsAssumption DEF release
<1>4. \A l \in lines : l[1] \in files
  BY <1>1, <1>2, TreesAssumption DEF copied, release
<1> QED BY <1>1, <1>4 DEF LinesInv, WithFiles, Untouched, BeforePatches, InOrder, AllDone, RegistersMoved

LEMMA CopiedOnce == ASSUME UNCHANGED req PROVE copied' = copied
  BY DEF copied, release

(* Before the patches, the gates change no line. *)
LEMMA GatesLines ==
  ASSUME LinesInv, phase \in BeforePatches, phase' \in BeforePatches \cup {"stopped"},
         UNCHANGED <<req, lines, files, at>>
  PROVE  LinesInv'
  BY CopiedOnce DEF LinesInv, WithFiles, Untouched, BeforePatches, InOrder, AllDone, RegistersMoved

LEMMA DefinesLines ==
  ASSUME EditInv, LinesInv, phase = "defines", phase' = "patches", UNCHANGED <<req, lines, files, at, debugOn>>
  PROVE  LinesInv'
<1>1. at = 1 /\ lines = copied[2]
  BY DEF LinesInv, Untouched, BeforePatches
<1>2. IsList(Patches) /\ Ours \subseteq DOMAIN Patches /\ Patches' = Patches /\ Ours' = Ours
  BY PatchesAre DEF Ours, PatchesFor, Patches
<1>3. \A a \in Ours : LinesAsCopied(Patches[a], lines) /\ ~(a < at)
  BY <1>1, <1>2 DEF IsList, LinesAsCopied
<1>4. InOrder'
  BY <1>1, <1>2, <1>3 DEF InOrder, LinesAsCopied, copied, release
<1> QED BY <1>4 DEF LinesInv, WithFiles, Untouched, BeforePatches, AllDone, RegistersMoved

(* What one patch's turn leaves, once its own edits and the others' are known.*)
LEMMA PatchLines ==
  ASSUME EditInv, LinesInv, phase = "patches", phase' = "patches", at' = at + 1, code' = 0 => code = 0,
         UNCHANGED <<req, files, debugOn>>, WithFiles',
         at \in Ours /\ code' = 0 => DoneIn(patch, lines', Declared),
         \A a \in Ours : a # at => \A i \in DOMAIN Patches[a].edits :
           Looks(Patches[a], i) \cap lines' = Looks(Patches[a], i) \cap lines
  PROVE  LinesInv'
<1>1. at \in Nat \ {0} /\ at' \in Nat \ {0}
  BY DEF LinesInv, InOrder
<1>2. /\ Patches' = Patches /\ Ours' = Ours /\ Declared' = Declared
      /\ Ours \subseteq Nat /\ \A a \in Ours : PatchShape(Patches[a])
  BY PatchesAre DEF Ours, PatchesFor, Patches, Declared, release, IsList
<1>3. ASSUME NEW a \in Ours, at' <= a PROVE LinesAsCopied(Patches[a], lines')
  <2>1. a # at /\ at <= a
    BY <1>1, <1>2, <1>3
  <2>2. LinesAsCopied(Patches[a], lines)
    BY <2>1 DEF LinesInv, InOrder
  <2> QED BY <2>1, <2>2, CopiedStays
<1>4. ASSUME NEW a \in Ours, a < at', code' = 0 PROVE DoneIn(Patches[a], lines', Declared)
  <2>1. CASE a = at
    BY <1>4, <2>1 DEF patch
  <2>2. CASE a # at
    <3>1. a < at
      BY <1>1, <1>2, <1>4, <2>2
    <3>2. DoneIn(Patches[a], lines, Declared)
      BY <1>4, <3>1 DEF LinesInv, InOrder, PatchDone
    <3> QED BY <1>2, <2>2, <3>2, DoneStays
  <2> QED BY <2>1, <2>2
<1>5. InOrder'
  <2>1. \A a \in Ours : PatchDone(a)' <=> DoneIn(Patches[a], lines', Declared)
    BY <1>2, CopiedOnce DEF PatchDone, DoneIn
  <2>2. \A a \in Ours : LinesAsCopied(Patches[a], lines)' <=> LinesAsCopied(Patches[a], lines')
    BY <1>2, CopiedOnce DEF LinesAsCopied
  <2> QED BY <1>1, <1>2, <1>3, <1>4, <2>1, <2>2 DEF InOrder
<1> QED BY <1>5 DEF LinesInv, Untouched, BeforePatches, AllDone, RegistersMoved

LEMMA SkipPatchLines == ASSUME EditInv, LinesInv, SkipPatch PROVE LinesInv'
<1>1. /\ phase = "patches" /\ phase' = "patches" /\ at' = at + 1
      /\ UNCHANGED <<req, files, debugOn, lines, code>> /\ at \notin Ours
  BY DEF SkipPatch, More, Mine, Next1, found, patch, Ours, PatchesFor
<1>2. WithFiles'
  BY <1>1 DEF LinesInv, WithFiles
<1> QED BY <1>1, <1>2, PatchLines

(* A file that is not there has no line that could be left. *)
LEMMA FileAbsentLines == ASSUME EditInv, LinesInv, FileAbsent PROVE LinesInv'
<1>1. /\ phase = "patches" /\ phase' = "patches" /\ at' = at + 1 /\ patch.file \notin files
      /\ UNCHANGED <<req, files, debugOn, lines>> /\ (patch.file \in Declared \/ code' = 1)
      /\ (code' = code \/ code' = 1) /\ at \in Ours
  BY PatchesAre DEF FileAbsent, More, Mine, Next1, found, patch, Ours, PatchesFor, LinesInv, InOrder, IsList
<1>2. WithFiles'
  BY <1>1 DEF LinesInv, WithFiles
<1>3. ASSUME code' = 0 PROVE DoneIn(patch, lines', Declared)
  <2>1. patch.file \in Declared
    BY <1>1, <1>3
  <2>2. ASSUME NEW i \in DOMAIN patch.edits PROVE Looks(patch, i) \cap lines = {}
    <3>1. \A l \in Looks(patch, i) : l[1] = patch.file
      BY DEF Looks, LooksFor
    <3> QED BY <1>1, <3>1 DEF LinesInv, WithFiles
  <2>3. LinesAsCopied(patch, lines)
    BY <1>1 DEF LinesInv, InOrder, patch, Ours, PatchesFor
  <2>4. ASSUME NEW i \in DOMAIN patch.edits PROVE Looks(patch, i) \cap copied[2] = {}
    BY <2>2, <2>3 DEF LinesAsCopied
  <2> QED BY <2>1, <2>4 DEF DoneIn
<1> QED BY <1>1, <1>2, <1>3, PatchLines

(* A patch made leaves its edits done, if nothing it looked for was missing.  *)
LEMMA ApplyPatchLines == ASSUME EditInv, LinesInv, ApplyPatch PROVE LinesInv'
<1>1. /\ phase = "patches" /\ phase' = "patches" /\ at' = at + 1 /\ at \in Ours /\ patch.file \in files
      /\ UNCHANGED <<req, files, debugOn>> /\ lines' = RunEdits.ls /\ ~RunEdits.stale
      /\ code' = IF RunEdits.gone \subseteq Declared THEN code ELSE 1
  BY PatchesAre DEF ApplyPatch, More, Mine, Next1, found, patch, Ours, PatchesFor, LinesInv, InOrder, IsList
<1>2. PatchShape(patch) /\ NoneTwice(patch) /\ LinesAsCopied(patch, lines)
  <2>1. at \in Nat
    BY <1>1 DEF LinesInv, InOrder
  <2>2. PatchShape(Patches[at]) /\ NoneTwice(Patches[at])
    BY <1>1, PatchesAre DEF Ours, PatchesFor
  <2>3. LinesAsCopied(Patches[at], lines)
    BY <1>1, <2>1 DEF LinesInv, InOrder
  <2> QED BY <2>2, <2>3 DEF patch
<1>3. EditsDid(Len(patch.edits)) /\ DOMAIN patch.edits = 1..Len(patch.edits)
  BY <1>2, RunEditsDid DEF PatchShape, IsList
<1>4. /\ \A l : (\A i \in DOMAIN patch.edits : l \notin Looks(patch, i)) => (l \in RunEdits.ls <=> l \in lines)
      /\ \A i \in DOMAIN patch.edits :
           Looks(patch, i) \cap lines # {} => Made(patch, patch.edits[i], lines, RunEdits.ls)
      /\ RunEdits.gone = {Named(patch.edits[i]) : i \in {i \in DOMAIN patch.edits : Looks(patch, i) \cap lines = {}}}
      /\ RunEdits.stale <=> \E i \in DOMAIN patch.edits :
                              Looks(patch, i) \cap lines # {} /\ Named(patch.edits[i]) \in Declared
  BY <1>3 DEF EditsDid, RunEdits
<1>5. WithFiles'
  <2>1. ASSUME NEW l \in RunEdits.ls PROVE l[1] \in files
    <3>1. CASE l \in lines
      BY <3>1 DEF LinesInv, WithFiles
    <3>2. CASE l \notin lines
      <4>1. PICK i \in DOMAIN patch.edits : l \in Looks(patch, i)
        BY <1>4, <3>2
      <4>2. l[1] = patch.file
        BY <4>1 DEF Looks, LooksFor
      <4> QED BY <1>1, <4>2
    <3> QED BY <3>1, <3>2
  <2> QED BY <1>1, <2>1 DEF WithFiles
<1>6. ASSUME code' = 0 PROVE DoneIn(patch, lines', Declared)
  <2>1. RunEdits.gone \subseteq Declared
    BY <1>1, <1>6
  <2>2. ASSUME NEW i \in DOMAIN patch.edits, Looks(patch, i) \cap copied[2] = {}
        PROVE  {patch.file, Named(patch.edits[i])} \cap Declared # {}
    <3>1. Looks(patch, i) \cap lines = {}
      BY <1>2, <2>2 DEF LinesAsCopied
    <3> QED BY <1>4, <2>1, <3>1
  <2>3. ASSUME NEW i \in DOMAIN patch.edits, Looks(patch, i) \cap copied[2] # {}
        PROVE  Named(patch.edits[i]) \notin Declared /\ Made(patch, patch.edits[i], copied[2], lines')
    <3>1. Looks(patch, i) \cap lines = Looks(patch, i) \cap copied[2]
      BY <1>2 DEF LinesAsCopied
    <3>2. Named(patch.edits[i]) \notin Declared /\ Made(patch, patch.edits[i], lines, lines')
      BY <1>1, <1>4, <2>3, <3>1
    <3>3. EditShape(patch.edits[i])
      BY <1>2 DEF PatchShape
    <3> QED BY <3>1, <3>2, <3>3, MadeLooks DEF Looks
  <2> QED BY <2>2, <2>3 DEF DoneIn
<1>7. \A a \in Ours : a # at => \A i \in DOMAIN Patches[a].edits :
        Looks(Patches[a], i) \cap lines' = Looks(Patches[a], i) \cap lines
  BY <1>1, <1>2, OthersUntouched
<1>8. code' = 0 => code = 0
  BY <1>1
<1> QED BY <1>1, <1>5, <1>6, <1>7, <1>8, PatchLines

(* The patches are all made when the declared lines are checked. *)
LEMMA CheckDeclaredLines == ASSUME EditInv, LinesInv, CheckDeclared PROVE LinesInv'
<1>1. /\ phase = "patches" /\ at > Len(Patches) /\ UNCHANGED <<req, lines, files, debugOn, at>>
      /\ (phase' = "registers" /\ code' = code) \/ (phase' = "stopped" /\ code' = 1)
  BY DEF CheckDeclared, text, found, Stop
<1>2. /\ IsList(Patches) /\ Ours \subseteq DOMAIN Patches /\ Patches' = Patches /\ Ours' = Ours
      /\ Declared' = Declared /\ at \in Nat
  BY <1>1, PatchesAre DEF Ours, PatchesFor, Patches, Declared, release, LinesInv, InOrder
<1>3. ASSUME code = 0, NEW a \in Ours PROVE DoneIn(Patches[a], lines, Declared)
  <2>1. a < at
    BY <1>1, <1>2 DEF IsList
  <2> QED BY <1>1, <1>3, <2>1 DEF LinesInv, InOrder, PatchDone
<1>4. AllDone'
  BY <1>1, <1>2, <1>3, CopiedOnce DEF AllDone, PatchDone, DoneIn
<1> QED BY <1>1, <1>4 DEF LinesInv, WithFiles, Untouched, BeforePatches, InOrder, RegistersMoved

LEMMA LaterLines ==
  ASSUME LinesInv, UNCHANGED <<req, lines, files, debugOn>>, code' = 0 => code = 0,
         \/ phase = "registers" /\ phase' = "record" /\ (code' = 0 => rebased')
         \/ phase = "record" /\ phase' = "done" /\ rebased' = rebased
         \/ phase' = "stopped"
         \/ UNCHANGED <<phase, at, rebased>>
  PROVE  LinesInv'
<1>1. Patches' = Patches /\ Ours' = Ours /\ Declared' = Declared
  BY DEF Ours, PatchesFor, Patches, Declared, release
<1>2. \A a : PatchDone(a)' <=> PatchDone(a)
  BY <1>1, CopiedOnce DEF PatchDone, DoneIn
<1>3. InOrder' /\ AllDone' /\ RegistersMoved'
  BY <1>1, <1>2, CopiedOnce DEF LinesAsCopied, LinesInv, InOrder, AllDone, RegistersMoved
<1> QED BY <1>3, CopiedOnce DEF LinesInv, WithFiles, Untouched, BeforePatches

LEMMA LinesStep == EditInv /\ LinesInv /\ [EditNext]_editVars => LinesInv'
<1> SUFFICES ASSUME EditInv, LinesInv, [EditNext]_editVars PROVE LinesInv'
  OBVIOUS
<1>0. code \in {0, 1}
  BY DEF EditInv, EditTypes
<1>1. CASE GateDebug
  <2>1. /\ phase = "debug" /\ phase' = "layouts" /\ UNCHANGED <<req, lines, files, at>>
    BY <1>1 DEF GateDebug
  <2> QED BY <2>1, GatesLines DEF BeforePatches
<1>2. CASE GateKeylayouts
  <2>1. /\ phase = "layouts" /\ phase' = "trust" /\ UNCHANGED <<req, lines, files, at>>
    BY <1>2 DEF GateKeylayouts
  <2> QED BY <2>1, GatesLines DEF BeforePatches
<1>3. CASE GateTrustAllOrigins
  <2>1. /\ phase = "trust" /\ phase' \in {"defines", "stopped"} /\ UNCHANGED <<req, lines, files, at>>
    BY <1>3 DEF GateTrustAllOrigins, Stop
  <2> QED BY <2>1, GatesLines DEF BeforePatches
<1>4. CASE GateDefines
  <2>1. /\ phase = "defines" /\ phase' \in {"patches", "stopped"} /\ UNCHANGED <<req, lines, files, at, debugOn>>
    BY <1>4 DEF GateDefines, Stop, found
  <2>2. CASE phase' = "patches"
    BY <2>1, <2>2, DefinesLines
  <2>3. CASE phase' = "stopped"
    BY <2>1, <2>3, GatesLines DEF BeforePatches
  <2> QED BY <2>1, <2>2, <2>3
<1>5. CASE StaleClaim
  <2>1. phase' = "stopped" /\ code' = 1 /\ UNCHANGED <<req, lines, files, debugOn>>
    BY <1>5 DEF StaleClaim, Stop, text, found
  <2> QED BY <2>1, LaterLines
<1>6. CASE RewriteRegisterBlocks
  <2>1. /\ phase = "registers" /\ phase' = "record" /\ UNCHANGED <<req, lines, files, debugOn>>
        /\ (rebased' /\ code' = code) \/ code' = 1
    BY <1>6 DEF RewriteRegisterBlocks, found
  <2> QED BY <2>1, LaterLines
<1>7. CASE WriteBuildJson
  <2>1. /\ phase = "record" /\ phase' = "done" /\ UNCHANGED <<req, lines, files, debugOn, code, rebased>>
    BY <1>7 DEF WriteBuildJson, text, found
  <2> QED BY <2>1, LaterLines
<1>8. CASE UNCHANGED editVars
  <2>1. UNCHANGED <<req, lines, files, debugOn, code, phase, at, rebased>>
    BY <1>8 DEF editVars, text, found
  <2> QED BY <2>1, LaterLines
<1> QED BY <1>1, <1>2, <1>3, <1>4, <1>5, <1>6, <1>7, <1>8,
           SkipPatchLines, FileAbsentLines, ApplyPatchLines, CheckDeclaredLines DEF EditNext

(* A tree that goes to the compiler is whole, whichever line or file of the   *)
(* sources has drifted (stage.js:1643): every edit for the target whose line  *)
(* was copied is made, in the first spelling that was there, and is not one   *)
(* declared absent; every other one's line or file is declared absent.        *)
THEOREM NothingHalfAppliedHolds == EditSpec => []NothingHalfApplied
<1>1. EditInv /\ LinesInv => NothingHalfApplied
  <2> SUFFICES ASSUME EditInv, LinesInv, phase = "done", code = 0
               PROVE  NothingHalfApplied
    BY DEF NothingHalfApplied, Passed
  <2>1. rebased /\ \A a \in Ours : DoneIn(Patches[a], lines, Declared)
    BY DEF LinesInv, RegistersMoved, AllDone, PatchDone
  <2>2. ASSUME NEW p \in Members(Patches), req.target \in PatchTargets(p), NEW e \in Members(p.edits)
        PROVE  IF LooksFor(p, e) \cap copied[2] = {}
                 THEN {p.file, Named(e)} \cap Declared # {}
                 ELSE Named(e) \notin Declared /\ Made(p, e, copied[2], lines)
    <3>1. PICK a \in DOMAIN Patches : p = Patches[a]
      BY DEF Members
    <3>2. PICK i \in DOMAIN p.edits : e = p.edits[i]
      BY DEF Members
    <3>3. DoneIn(p, lines, Declared)
      BY <2>1, <2>2, <3>1 DEF Ours, PatchesFor
    <3> QED BY <3>2, <3>3 DEF DoneIn, Looks
  <2> QED BY <2>1, <2>2 DEF NothingHalfApplied
<1> QED BY <1>1, EditInitInv, EditStepInv, LinesInit, LinesStep, PTL DEF EditSpec

-----------------------------------------------------------------------------
(* A release whose sources are as they were measured stages.  What a patch    *)
(* looks for before its turn is there or not as in the measured tree, and     *)
(* every patch before the next has been looked at.                           *)
Excused ==
  \/ req.drift # NoDrift
  \/ header.debug = "gone" \/ header.std = "gone"
  \/ req.duo = "on" /\ header.hwid = "gone"
  \/ req.enforce /\ debugOn # "off" /\ ~req.trust
LooksAtNext(a) == LooksAt(Patches[a], release, debugOn, req.target)

Readable == IF phase = "debug" THEN code = 0 ELSE debugOn = "null" => header.debug = "gone"
TrustAsCopied == phase \in {"debug", "layouts", "trust"} => trust = req.trust
MeasuredFiles == req.drift = NoDrift => files = TreeFiles(release)
LookedAt ==
  phase = "patches" /\ req.drift = NoDrift /\ debugOn # "null" =>
    \A a \in DOMAIN Patches : a < at => LooksAtNext(a) \subseteq seen
Refused == (phase = "stopped" \/ code = 1) => Excused \/ (phase \in {"record", "done"} /\ ~rebased)

StagesInv == Readable /\ TrustAsCopied /\ MeasuredFiles /\ LookedAt /\ Refused

(* What is copied without a drift is the measured tree. *)
LEMMA CopiedAsMeasured ==
  req.drift = NoDrift => copied[1] = TreeFiles(release) /\ copied[2] = TreeLines(release)
<1>1. Drifted(release, NoDrift) = <<TreeFiles(release), TreeLines(release)>>
  BY DEF Drifted, NoDrift
<1> QED BY <1>1 DEF copied

LEMMA StagesInit == EditInit => StagesInv
<1> SUFFICES ASSUME EditInit PROVE StagesInv
  OBVIOUS
<1>1. /\ req \in Requests /\ phase = "debug" /\ code = 0 /\ trust = req.trust /\ debugOn = "null"
      /\ files = copied[1]
  BY DEF EditInit
<1>2. req.drift = NoDrift => files = TreeFiles(release)
  BY <1>1, CopiedAsMeasured
<1> QED BY <1>1, <1>2 DEF StagesInv, Readable, TrustAsCopied, MeasuredFiles, LookedAt, Refused, BeforePatches

(* What the tables say of a release whose tree is the measured one. *)
LEMMA AgreeHere ==
  ASSUME EditInv, debugOn # "null"
  PROVE  /\ \A a \in Ours :
              /\ Patches[a].file \in TreeFiles(release) \cup Declared
              /\ Patches[a].file \in TreeFiles(release) => \A i \in DOMAIN Patches[a].edits :
                   Named(Patches[a].edits[i]) \in Declared
                     <=> Looks(Patches[a], i) \cap TreeLines(release) = {}
         /\ \A d \in Declared : \E a \in DOMAIN Patches : d \in LooksAtNext(a)
<1>1. /\ req.release \in DOMAIN Releases /\ req.target \in TARGETS /\ debugOn \in {"on", "off"}
  BY RequestsAssumption DEF EditInv, EditTypes
<1>2. /\ \A a \in PatchesFor(Patches, req.target) :
           /\ Patches[a].file \in TreeFiles(release) \cup DeclaredOf(release, debugOn)
           /\ Patches[a].file \in TreeFiles(release) => \A i \in DOMAIN Patches[a].edits :
                Named(Patches[a].edits[i]) \in DeclaredOf(release, debugOn)
                  <=> LooksFor(Patches[a], Patches[a].edits[i]) \cap TreeLines(release) = {}
      /\ \A d \in DeclaredOf(release, debugOn) :
           \E a \in DOMAIN Patches : d \in LooksAt(Patches[a], release, debugOn, req.target)
  BY <1>1, ScriptsAgreeAssumption DEF Patches, release
<1> QED BY <1>2 DEF Ours, Declared, Looks, LooksAtNext

(* The gates refuse only what they are excused for. *)
LEMMA GateDebugStages == ASSUME EditInv, StagesInv, GateDebug PROVE StagesInv'
<1>1. /\ phase = "debug" /\ phase' = "layouts" /\ UNCHANGED <<req, trust, lines, files>>
      /\ header.debug = "gone" => code' = 1 /\ header' = header
      /\ header.debug # "gone" => /\ code' = code /\ debugOn' = req.want
                                  /\ header'.std = header.std /\ header'.hwid = header.hwid
  BY DEF GateDebug, EditInv, EditTypes
<1>2. req.want # "null" /\ release' = release
  BY <1>1, RequestsAssumption DEF EditInv, EditTypes, release
<1>3. code = 0
  BY <1>1 DEF StagesInv, Readable
<1>4. Readable' /\ TrustAsCopied' /\ MeasuredFiles' /\ LookedAt'
  BY <1>1, <1>2 DEF StagesInv, Readable, TrustAsCopied, MeasuredFiles, LookedAt, BeforePatches
<1>5. ASSUME code' = 1 PROVE Excused'
  <2>1. CASE header.debug = "gone"
    BY <1>1, <2>1 DEF Excused
  <2>2. CASE header.debug # "gone"
    BY <1>1, <1>3, <1>5, <2>2 DEF Excused
  <2> QED BY <2>1, <2>2
<1> QED BY <1>1, <1>4, <1>5 DEF StagesInv, Refused

LEMMA GatesStage ==
  ASSUME EditInv, StagesInv, UNCHANGED <<req, lines, files, debugOn>>, header'.debug = header.debug,
         phase' = "patches" => at' = 1,
         header.std = "gone" => header'.std = "gone",
         req.duo = "on" /\ header.hwid = "gone" => header'.hwid = "gone",
         \/ phase = "layouts" /\ phase' = "trust" /\ trust' = trust
         \/ phase = "trust" /\ phase' = "defines"
         \/ phase = "defines" /\ phase' = "patches"
         \/ phase \in BeforePatches \ {"debug"} /\ phase' = "stopped",
         (phase' = "stopped" \/ code' = 1) => code = 1 \/ Excused'
  PROVE  StagesInv'
<1>1. release' = release /\ Patches' = Patches /\ Ours' = Ours
  BY DEF release, Patches, Ours
<1>2. Readable' /\ TrustAsCopied' /\ MeasuredFiles'
  BY <1>1 DEF StagesInv, Readable, TrustAsCopied, MeasuredFiles, BeforePatches
<1>4. LookedAt'
  <2>1. \A a \in DOMAIN Patches : a \in Nat /\ ~(a < 1)
    BY PatchesAre DEF IsList
  <2> QED BY <1>1, <2>1 DEF LookedAt, BeforePatches
<1>5. code = 1 => Excused
  BY DEF StagesInv, Refused, BeforePatches
<1>6. Excused => Excused'
  BY DEF Excused
<1>7. Refused'
  BY <1>5, <1>6 DEF Refused
<1> QED BY <1>2, <1>4, <1>7 DEF StagesInv

LEMMA EarlyStages ==
  ASSUME EditInv, LinesInv, StagesInv, GateKeylayouts \/ GateTrustAllOrigins \/ GateDefines
  PROVE  StagesInv'
<1>0. header \in [debug : Switch, verbose : BOOLEAN, layouts : Switch, std : {header.std}, hwid : Switch]
  BY DEF EditInv, EditTypes
<1>1. CASE GateKeylayouts
  <2>1. /\ phase = "layouts" /\ phase' = "trust" /\ UNCHANGED <<req, lines, files, debugOn, trust, code>>
        /\ header'.debug = header.debug /\ header'.std = header.std /\ header'.hwid = header.hwid
    BY <1>0, <1>1 DEF GateKeylayouts, found
  <2> QED BY <2>1, GatesStage
<1>2. CASE GateTrustAllOrigins
  <2>1. /\ phase = "trust" /\ phase' \in {"defines", "stopped"}
        /\ UNCHANGED <<req, lines, files, debugOn, header>> /\ trust = req.trust
    BY <1>2 DEF GateTrustAllOrigins, Stop, StagesInv, TrustAsCopied
  <2>2. (phase' = "stopped" \/ code' = 1) => code = 1 \/ (req.enforce /\ debugOn # "off" /\ ~trust)
    BY <1>2 DEF GateTrustAllOrigins, Stop
  <2>3. (phase' = "stopped" \/ code' = 1) => code = 1 \/ Excused'
    BY <2>1, <2>2 DEF Excused
  <2> QED BY <2>1, <2>3, GatesStage DEF BeforePatches
<1>3. CASE GateDefines
  <2>1. /\ phase = "defines" /\ phase' \in {"patches", "stopped"}
        /\ UNCHANGED <<req, lines, files, debugOn, at>> /\ at = 1
    BY <1>3 DEF GateDefines, Stop, found, LinesInv, Untouched, BeforePatches
  <2>2. /\ header'.debug = header.debug
        /\ header.std = "gone" => header'.std = "gone"
        /\ header.hwid = "gone" => header'.hwid = "gone"
    BY <1>0, <1>3 DEF GateDefines, GateDefine
  <2>3. (phase' = "stopped" \/ code' = 1) =>
          code = 1 \/ header.std = "gone" \/ (req.duo = "on" /\ header.hwid = "gone")
    BY <1>3 DEF GateDefines, Stop
  <2>4. (phase' = "stopped" \/ code' = 1) => code = 1 \/ Excused'
    BY <2>1, <2>2, <2>3 DEF Excused
  <2> QED BY <2>1, <2>2, <2>4, GatesStage DEF BeforePatches
<1> QED BY <1>1, <1>2, <1>3

(* One patch's turn, once what it looked at is known. *)
LEMMA PatchStages ==
  ASSUME EditInv, LinesInv, StagesInv, phase = "patches", phase' = "patches", at' = at + 1,
         UNCHANGED <<req, files, header, debugOn, trust>>, seen \subseteq seen', at \in DOMAIN Patches,
         ~Excused => code' = code,
         req.drift = NoDrift /\ debugOn # "null" => LooksAtNext(at) \subseteq seen'
  PROVE  StagesInv'
<1>1. at \in Nat \ {0} /\ at' \in Nat \ {0}
  BY DEF LinesInv, InOrder
<1>2. /\ Patches' = Patches /\ Ours' = Ours /\ release' = release
      /\ \A a : LooksAtNext(a)' = LooksAtNext(a)
      /\ Ours \subseteq DOMAIN Patches /\ DOMAIN Patches \subseteq Nat
  BY PatchesAre DEF Ours, PatchesFor, Patches, release, IsList, LooksAtNext
<1>3. Readable' /\ TrustAsCopied' /\ MeasuredFiles'
  BY <1>2 DEF StagesInv, Readable, TrustAsCopied, MeasuredFiles
<1>4. ASSUME req.drift = NoDrift, debugOn # "null", NEW a \in DOMAIN Patches, a < at'
      PROVE  LooksAtNext(a) \subseteq seen'
  <2>1. a = at \/ a < at
    BY <1>1, <1>2, <1>4
  <2> QED BY <1>4, <2>1 DEF StagesInv, LookedAt
<1>5. LookedAt'
  BY <1>1, <1>2, <1>4 DEF LookedAt
<1>6. Excused' <=> Excused
  BY DEF Excused
<1>7. Refused'
  BY <1>6 DEF StagesInv, Refused
<1> QED BY <1>3, <1>5, <1>7 DEF StagesInv

LEMMA UnexcusedIs ==
  ASSUME StagesInv, phase = "patches", ~Excused
  PROVE  req.drift = NoDrift /\ debugOn # "null"
  BY DEF StagesInv, Readable, Excused

LEMMA SkipPatchStages == ASSUME EditInv, LinesInv, StagesInv, SkipPatch PROVE StagesInv'
<1>1. /\ phase = "patches" /\ phase' = "patches" /\ at' = at + 1 /\ at <= Len(Patches)
      /\ UNCHANGED <<req, files, header, debugOn, trust, lines, code>>
      /\ seen' = seen \cup {patch.file} \cup {Named(e) : e \in Members(patch.edits)}
      /\ req.target \notin PatchTargets(patch)
  BY DEF SkipPatch, More, Mine, Next1, found
<1>2. at \in DOMAIN Patches
  BY <1>1, PatchesAre DEF LinesInv, InOrder, IsList
<1>3. LooksAtNext(at) \subseteq seen'
  BY <1>1 DEF LooksAtNext, LooksAt, patch
<1> QED BY <1>1, <1>2, <1>3, PatchStages

LEMMA FileAbsentStages == ASSUME EditInv, LinesInv, StagesInv, FileAbsent PROVE StagesInv'
<1>1. /\ phase = "patches" /\ phase' = "patches" /\ at' = at + 1 /\ at <= Len(Patches)
      /\ UNCHANGED <<req, files, header, debugOn, trust, lines>> /\ patch.file \notin files
      /\ req.target \in PatchTargets(patch)
      /\ \/ patch.file \in Declared /\ seen' = seen \cup {patch.file} /\ code' = code
         \/ patch.file \notin Declared /\ seen' = seen
  BY DEF FileAbsent, More, Mine, Next1, found
<1>2. at \in DOMAIN Patches /\ at \in Ours
  BY <1>1, PatchesAre DEF LinesInv, InOrder, IsList, Ours, PatchesFor, patch
<1>3. ASSUME req.drift = NoDrift, debugOn # "null"
      PROVE  patch.file \notin TreeFiles(release) /\ patch.file \in Declared
  <2>1. patch.file \notin TreeFiles(release)
    BY <1>1, <1>3 DEF StagesInv, MeasuredFiles
  <2> QED BY <1>2, <1>3, <2>1, AgreeHere DEF patch
<1>4. req.drift = NoDrift /\ debugOn # "null" => LooksAtNext(at) \subseteq seen'
  BY <1>1, <1>3 DEF LooksAtNext, LooksAt, patch
<1>5. ~Excused => code' = code
  BY <1>1, <1>3, UnexcusedIs
<1> QED BY <1>1, <1>2, <1>4, <1>5, PatchStages

(* In a measured tree a line is there just when it is not declared absent. *)
LEMMA FoundAsDeclared ==
  ASSUME EditInv, LinesInv, StagesInv, phase = "patches", at \in Ours, patch.file \in files,
         req.drift = NoDrift, debugOn # "null"
  PROVE  /\ ~RunEdits.stale
         /\ RunEdits.gone = {Named(e) : e \in Members(patch.edits)} \cap Declared
<1>1. at \in Nat /\ PatchShape(patch) /\ NoneTwice(patch) /\ LinesAsCopied(patch, lines)
  <2>1. at \in Nat
    BY DEF LinesInv, InOrder
  <2>2. PatchShape(Patches[at]) /\ NoneTwice(Patches[at]) /\ LinesAsCopied(Patches[at], lines)
    BY <2>1, PatchesAre DEF Ours, PatchesFor, LinesInv, InOrder
  <2> QED BY <2>1, <2>2 DEF patch
<1>2. EditsDid(Len(patch.edits)) /\ DOMAIN patch.edits = 1..Len(patch.edits)
  BY <1>1, RunEditsDid DEF PatchShape, IsList
<1>3. ASSUME NEW i \in DOMAIN patch.edits
      PROVE  Named(patch.edits[i]) \in Declared <=> Looks(patch, i) \cap lines = {}
  <2>1. patch.file \in TreeFiles(release)
    BY DEF StagesInv, MeasuredFiles
  <2>2. Named(patch.edits[i]) \in Declared <=> Looks(patch, i) \cap TreeLines(release) = {}
    BY <2>1, AgreeHere DEF patch
  <2>3. Looks(patch, i) \cap lines = Looks(patch, i) \cap TreeLines(release)
    BY <1>1, CopiedAsMeasured DEF LinesAsCopied
  <2> QED BY <2>2, <2>3
<1>4. /\ RunEdits.gone = {Named(patch.edits[i]) : i \in {i \in DOMAIN patch.edits : Looks(patch, i) \cap lines = {}}}
      /\ RunEdits.stale <=> \E i \in DOMAIN patch.edits :
                              Looks(patch, i) \cap lines # {} /\ Named(patch.edits[i]) \in Declared
  BY <1>2 DEF EditsDid, RunEdits
<1>5. ~RunEdits.stale
  BY <1>3, <1>4
<1>6. RunEdits.gone = {Named(e) : e \in Members(patch.edits)} \cap Declared
  BY <1>3, <1>4 DEF Members
<1> QED BY <1>5, <1>6

LEMMA ApplyPatchStages == ASSUME EditInv, LinesInv, StagesInv, ApplyPatch PROVE StagesInv'
<1>1. /\ phase = "patches" /\ phase' = "patches" /\ at' = at + 1 /\ at <= Len(Patches)
      /\ UNCHANGED <<req, files, header, debugOn, trust>> /\ patch.file \in files
      /\ req.target \in PatchTargets(patch)
      /\ lines' = RunEdits.ls /\ seen' = seen \cup (RunEdits.gone \cap Declared)
      /\ code' = IF RunEdits.gone \subseteq Declared THEN code ELSE 1
  BY DEF ApplyPatch, More, Mine, Next1, found
<1>2. at \in Nat /\ at \in DOMAIN Patches /\ at \in Ours
  BY <1>1, PatchesAre DEF LinesInv, InOrder, IsList, Ours, PatchesFor, patch
<1>3. req.drift = NoDrift /\ debugOn # "null" =>
        RunEdits.gone = {Named(e) : e \in Members(patch.edits)} \cap Declared
  BY <1>1, <1>2, FoundAsDeclared
<1>4. ASSUME req.drift = NoDrift, debugOn # "null" PROVE LooksAtNext(at) \subseteq seen'
  <2>1. patch.file \in TreeFiles(release)
    BY <1>1, <1>4 DEF StagesInv, MeasuredFiles
  <2>2. LooksAtNext(at) = {Named(e) : e \in Members(patch.edits)} \cap Declared
    BY <1>1, <2>1 DEF LooksAtNext, LooksAt, patch, Declared
  <2> QED BY <1>1, <1>3, <1>4, <2>2
<1>5. ~Excused => code' = code
  BY <1>1, <1>3, UnexcusedIs
<1> QED BY <1>1, <1>2, <1>4, <1>5, PatchStages

(* No claim of the scripts is stale. *)
LEMMA StaleClaimStages == ASSUME EditInv, LinesInv, StagesInv, StaleClaim PROVE Excused
<1>1. /\ phase = "patches" /\ at <= Len(Patches) /\ patch.file \in files
      /\ req.target \in PatchTargets(patch) /\ RunEdits.stale
  BY DEF StaleClaim, More, Mine
<1>2. at \in Ours
  BY <1>1, PatchesAre DEF LinesInv, InOrder, IsList, Ours, PatchesFor, patch
<1> QED BY <1>1, <1>2, FoundAsDeclared, UnexcusedIs

LEMMA CheckDeclaredStages ==
  ASSUME EditInv, LinesInv, StagesInv, CheckDeclared, ~(Declared \subseteq seen) PROVE Excused
<1>1. phase = "patches" /\ at > Len(Patches) /\ at \in Nat /\ IsList(Patches)
  BY PatchesAre DEF CheckDeclared, LinesInv, InOrder
<1>2. ASSUME req.drift = NoDrift, debugOn # "null" PROVE Declared \subseteq seen
  <2>1. ASSUME NEW d \in Declared PROVE d \in seen
    <3>1. PICK a \in DOMAIN Patches : d \in LooksAtNext(a)
      BY <1>2, AgreeHere
    <3>2. a < at
      BY <1>1 DEF IsList
    <3> QED BY <1>1, <1>2, <3>1, <3>2 DEF StagesInv, LookedAt
  <2> QED BY <2>1
<1> QED BY <1>1, <1>2, UnexcusedIs

LEMMA LaterStages ==
  ASSUME StagesInv, UNCHANGED <<req, header, trust, files, debugOn>>,
         phase \in {"patches", "registers", "record"},
         \/ phase' = "stopped" /\ Excused
         \/ phase = "patches" /\ phase' = "registers" /\ code' = code
         \/ phase = "registers" /\ phase' = "record" /\ (code' = code \/ ~rebased')
         \/ phase = "record" /\ phase' = "done" /\ code' = code /\ rebased' = rebased
  PROVE  StagesInv'
<1>1. release' = release /\ (Excused' <=> Excused)
  BY DEF release, Excused
<1>2. Readable' /\ TrustAsCopied' /\ MeasuredFiles' /\ LookedAt'
  BY <1>1 DEF StagesInv, Readable, TrustAsCopied, MeasuredFiles, LookedAt, BeforePatches
<1>3. Refused'
  BY <1>1 DEF StagesInv, Refused
<1> QED BY <1>2, <1>3 DEF StagesInv

LEMMA StagesStep == EditInv /\ LinesInv /\ StagesInv /\ [EditNext]_editVars => StagesInv'
<1> SUFFICES ASSUME EditInv, LinesInv, StagesInv, [EditNext]_editVars PROVE StagesInv'
  OBVIOUS
<1>1. CASE StaleClaim
  <2>1. phase = "patches" /\ phase' = "stopped" /\ UNCHANGED <<req, header, trust, files, debugOn>>
    BY <1>1 DEF StaleClaim, More, Stop, text, found
  <2> QED BY <1>1, <2>1, StaleClaimStages, LaterStages
<1>2. CASE CheckDeclared
  <2>1. /\ phase = "patches" /\ UNCHANGED <<req, header, trust, files, debugOn>>
        /\ (phase' = "registers" /\ code' = code) \/ (phase' = "stopped" /\ ~(Declared \subseteq seen))
    BY <1>2 DEF CheckDeclared, Stop, text, found
  <2> QED BY <1>2, <2>1, CheckDeclaredStages, LaterStages
<1>3. CASE RewriteRegisterBlocks
  <2>1. /\ phase = "registers" /\ phase' = "record" /\ UNCHANGED <<req, header, trust, files, debugOn>>
        /\ code' = code \/ ~rebased'
    BY <1>3 DEF RewriteRegisterBlocks, found
  <2> QED BY <2>1, LaterStages
<1>4. CASE WriteBuildJson
  <2>1. /\ phase = "record" /\ phase' = "done"
        /\ UNCHANGED <<req, header, trust, files, debugOn, code, rebased>>
    BY <1>4 DEF WriteBuildJson, text, found
  <2> QED BY <2>1, LaterStages
<1>5. CASE UNCHANGED editVars
  <2>1. UNCHANGED <<req, header, trust, lines, files, debugOn, code, phase, at, seen, rebased>>
    BY <1>5 DEF editVars, text, found
  <2>2. /\ release' = release /\ Patches' = Patches /\ Ours' = Ours /\ (Excused' <=> Excused)
        /\ \A a : LooksAtNext(a)' = LooksAtNext(a)
    BY <2>1 DEF release, Patches, Ours, Excused, LooksAtNext
  <2>3. Readable' /\ TrustAsCopied' /\ MeasuredFiles' /\ LookedAt'
    BY <2>1, <2>2 DEF StagesInv, Readable, TrustAsCopied, MeasuredFiles, LookedAt
  <2>4. Refused'
    BY <2>1, <2>2 DEF StagesInv, Refused
  <2> QED BY <2>3, <2>4 DEF StagesInv
<1> QED BY <1>1, <1>2, <1>3, <1>4, <1>5, GateDebugStages, EarlyStages,
           SkipPatchStages, FileAbsentStages, ApplyPatchStages DEF EditNext

(* A release whose sources are what they were measured to be stages, for     *)
(* every target, gate and header: whatever the run refuses, it refuses for    *)
(* what was asked of a header that cannot give it (stage.js:1692).            *)
THEOREM ReleasesStageHolds == EditSpec => []ReleasesStage
<1>1. StagesInv => ReleasesStage
  BY DEF StagesInv, Refused, Excused, ReleasesStage
<1> QED BY <1>1, EditInitInv, EditStepInv, LinesInit, LinesStep, StagesInit, StagesStep, PTL DEF EditSpec

=============================================================================

---------------------------- MODULE DaemonProofs -----------------------------
(***************************************************************************)
(* The daemon's two stories, for any number of faults, connections and      *)
(* messages.  Lifecycle: what of the storage is open at each point of the   *)
(* start and of the firmware's shutdown, that a reset keeps nothing it is   *)
(* about to erase, and that the copy in memory is as good as the file.      *)
(* IpcLink: the order of what is on the connections to the GUI, and held    *)
(* back for the next.                                                       *)
(***************************************************************************)
EXTENDS Lifecycle, IpcLink, TLAPS

(* What is open, where the start and the shutdown are. *)
OpenAt ==
  /\ proc = "up" <=> fw # "no"
  /\ proc # "up" => js = "free"
  /\ host # "stopped" /\ fw \in {"running", "save"} => mapped /\ fd
  /\ host = "stopped" => ~fd /\ proc \in {"up", "down"}
  /\ js = "unmap" => host = "stopped"
  /\ fw = "unmap" => ~fd
  /\ fw \in {"sink", "parked"} => ~mapped /\ ~fd
  /\ proc \in {"eeprom", "fillEeprom"} => mapped
  /\ proc = "fillFlash" => file["flash"] = "zeros"
  /\ proc = "fillEeprom" => file["eeprom"] = "zeros"

(* A file that is kept is new, and its copy in memory is not behind it; a    *)
(* reset has dropped the claim before it erases.                             *)
KeptInv ==
  /\ \A s \in Stores : kept[s] => file[s] = "new"
  /\ kept["eeprom"] => (fw \in {"running", "save"} => ram = "new") /\ js \notin {"erase", "eeprom"}

(* After a whole reset nothing old is left, in a file or in memory; between  *)
(* its two halves the flash is erased.                                       *)
WipedInv ==
  /\ wiped => ram # "old" /\ \A s \in Stores : file[s] # "old"
  /\ js = "eeprom" /\ whole => file["flash"] # "old"

IInv == TypeOK /\ OpenAt /\ KeptInv /\ WipedInv

USE DEF Stores, Contents, owner

(* A count of faults stays within its bound. *)
LEMMA FaultsBounded ==
  /\ 0 \in 0..MaxFaults
  /\ faults \in 0..MaxFaults /\ Fault => faults' \in 0..MaxFaults
  BY FaultsAssumption DEF Fault

(* It holds of a process that has not been started. *)
LEMMA InitInv == Init => IInv
<1> SUFFICES ASSUME Init PROVE IInv
  OBVIOUS
<1>1. TypeOK
  BY FaultsBounded DEF Init, TypeOK
<1>2. OpenAt /\ KeptInv /\ WipedInv
  BY DEF Init, OpenAt, KeptInv, WipedInv
<1> QED BY <1>1, <1>2 DEF IInv

(* The process may end at any point: the files are left as they are. *)
LEMMA ExitInv == ASSUME IInv, Ends, UNCHANGED <<owner, file, history>>, faults' \in 0..MaxFaults
                 PROVE  IInv'
  BY DEF IInv, TypeOK, OpenAt, KeptInv, WipedInv, Ends, history

(* The supervisor, and crashes. *)
LEMMA SupervisorInv ==
  ASSUME IInv, Spawn \/ Pm2Stop \/ Pm2Kill \/ Pm2Start \/ Crash \/ RunByHand \/ ProgramExits PROVE IInv'
<1>1. CASE Spawn
  BY <1>1 DEF Spawn, IInv, TypeOK, OpenAt, KeptInv, WipedInv, storage, history
<1>2. CASE Pm2Stop
  <2>1. wanted' \in BOOLEAN /\ UNCHANGED <<host, process, storage, history, faults>>
    BY <1>2 DEF Pm2Stop
  <2> QED
    BY <2>1 DEF IInv, TypeOK, OpenAt, KeptInv, WipedInv, process, storage, history
<1>3. CASE Pm2Start
  BY <1>3 DEF Pm2Start, IInv, TypeOK, OpenAt, KeptInv, WipedInv, process, storage, history
<1>4. CASE Pm2Kill
  BY <1>4, ExitInv DEF Pm2Kill, IInv, TypeOK
<1>5. CASE Crash
  BY <1>5, ExitInv, FaultsBounded DEF Crash, IInv, TypeOK
<1>6. CASE RunByHand
  BY <1>6 DEF RunByHand, IInv, TypeOK, OpenAt, KeptInv, WipedInv, storage, history
<1>7. CASE ProgramExits
  BY <1>7, ExitInv DEF ProgramExits, IInv, TypeOK
<1> QED BY <1>1, <1>2, <1>3, <1>4, <1>5, <1>6, <1>7

(* The process's start, whole or failing. *)
LEMMA StartInv == ASSUME IInv, StartStep \/ FillFails PROVE IInv'
<1>1. CASE OpenFlash
  BY ZenonT(40), <1>1 DEF OpenFlash, Opened, IInv, TypeOK, OpenAt, KeptInv, WipedInv, history
<1>2. CASE FillFlash
  BY <1>2 DEF FillFlash, IInv, TypeOK, OpenAt, KeptInv, WipedInv, history
<1>3. CASE OpenEeprom
  BY ZenonT(40), <1>3 DEF OpenEeprom, Opened, FirmwareStarts, IInv, TypeOK, OpenAt, KeptInv, WipedInv
<1>4. CASE FillEeprom
  BY <1>4 DEF FillEeprom, FirmwareStarts, IInv, TypeOK, OpenAt, KeptInv, WipedInv
<1>5. CASE FillFails
  BY <1>5, ExitInv, FaultsBounded DEF FillFails, IInv, TypeOK
<1> QED BY <1>1, <1>2, <1>3, <1>4, <1>5 DEF StartStep

(* The firmware, storing or parking. *)
LEMMA FirmwareInv ==
  ASSUME IInv, StoreFlash \/ StoreEeprom \/ CpuRestart \/ FlashFaults \/ ParkStep PROVE IInv'
<1>1. CASE StoreFlash
  BY <1>1 DEF StoreFlash, IInv, TypeOK, OpenAt, KeptInv, WipedInv, process
<1>2. CASE StoreEeprom
  BY <1>2 DEF StoreEeprom, WriteThrough, IInv, TypeOK, OpenAt, KeptInv, WipedInv, process
<1>3. CASE CpuRestart
  BY <1>3 DEF CpuRestart, IInv, TypeOK, OpenAt, KeptInv, WipedInv, storage
<1>4. CASE SaveEeprom
  <2>1. /\ fw = "save" /\ fw' = "unmap" /\ fd' = FALSE
        /\ UNCHANGED <<wanted, host, proc, js, exiting, callback, mapped, ram>>
        /\ UNCHANGED <<asked, kept, whole, wiped, faults>>
        /\ file' = IF fd THEN [file EXCEPT !["eeprom"] = ram] ELSE file
    BY <1>4 DEF SaveEeprom, Parks, IInv, TypeOK, history
  <2>2. /\ file' \in [Stores -> Contents] /\ file'["flash"] = file["flash"]
        /\ file'["eeprom"] = ram \/ file'["eeprom"] = file["eeprom"]
    BY <2>1 DEF IInv, TypeOK
  <2>3. TypeOK'
    <3>1. /\ wanted' \in BOOLEAN /\ exiting' \in BOOLEAN /\ callback' \in BOOLEAN
          /\ mapped' \in BOOLEAN /\ fd' \in BOOLEAN
          /\ asked' \in BOOLEAN /\ whole' \in BOOLEAN /\ wiped' \in BOOLEAN
      BY <2>1 DEF IInv, TypeOK
    <3>2. file' \in [Stores -> Contents] /\ kept' \in [Stores -> BOOLEAN] /\ faults' \in 0..MaxFaults
      BY <2>1, <2>2 DEF IInv, TypeOK
    <3>3. /\ host' \in {"daemon", "program", "stopped"}
          /\ proc' \in {"down", "flash", "fillFlash", "eeprom", "fillEeprom", "up"}
          /\ js' \in {"free", "erase", "eeprom", "unmap"}
          /\ fw' \in {"no", "running", "save", "unmap", "sink", "parked"} /\ ram' \in Contents
      BY <2>1 DEF IInv, TypeOK
    <3> QED BY <3>1, <3>2, <3>3 DEF TypeOK
  <2>4. OpenAt'
    BY <2>1 DEF IInv, OpenAt
  <2>5. KeptInv' /\ WipedInv'
    BY <2>1, <2>2 DEF IInv, KeptInv, WipedInv
  <2> QED BY <2>3, <2>4, <2>5 DEF IInv
<1>5. CASE Unmap
  <2>1. /\ fw = "unmap" /\ fw' = "sink" /\ mapped' = FALSE
        /\ UNCHANGED <<wanted, host, proc, js, exiting, callback, fd, ram, file>>
        /\ UNCHANGED <<asked, kept, whole, wiped, faults>>
    BY <1>5 DEF Unmap, Parks, history
  <2>2. TypeOK'
    <3>1. /\ wanted' \in BOOLEAN /\ exiting' \in BOOLEAN /\ callback' \in BOOLEAN
          /\ mapped' \in BOOLEAN /\ fd' \in BOOLEAN
          /\ asked' \in BOOLEAN /\ whole' \in BOOLEAN /\ wiped' \in BOOLEAN
      BY <2>1 DEF IInv, TypeOK
    <3>2. file' \in [Stores -> Contents] /\ kept' \in [Stores -> BOOLEAN] /\ faults' \in 0..MaxFaults
      BY <2>1 DEF IInv, TypeOK
    <3>3. /\ host' \in {"daemon", "program", "stopped"}
          /\ proc' \in {"down", "flash", "fillFlash", "eeprom", "fillEeprom", "up"}
          /\ js' \in {"free", "erase", "eeprom", "unmap"}
          /\ fw' \in {"no", "running", "save", "unmap", "sink", "parked"} /\ ram' \in Contents
      BY <2>1 DEF IInv, TypeOK
    <3> QED BY <3>1, <3>2, <3>3 DEF TypeOK
  <2>3. OpenAt'
    BY <2>1 DEF IInv, OpenAt
  <2>4. KeptInv' /\ WipedInv'
    BY <2>1 DEF IInv, KeptInv, WipedInv
  <2> QED BY <2>2, <2>3, <2>4 DEF IInv
<1>6. CASE RestartSink
  BY <1>6 DEF RestartSink, Parks, IInv, TypeOK, OpenAt, KeptInv, WipedInv, storage, history
<1>7. CASE FlashFaults
  BY <1>7, ExitInv DEF FlashFaults, IInv, TypeOK
<1> QED BY <1>1, <1>2, <1>3, <1>4, <1>5, <1>6, <1>7 DEF ParkStep

(* The JavaScript thread: a reset, a restart, a stop, the exit. *)
LEMMA JsInv == ASSUME IInv, JsStep \/ RestartCommand \/ ResetBegins \/ StopSave PROVE IInv'
<1>1. CASE OnRestart
  BY ZenonT(40), <1>1 DEF OnRestart, Free, ShutDown, IInv, TypeOK, OpenAt, KeptInv, WipedInv, history
<1>2. CASE OnSignal
  BY <1>2 DEF OnSignal, Free, ShutDown, IInv, TypeOK, OpenAt, KeptInv, WipedInv, history
<1>3. CASE RestartCommand
  BY <1>3 DEF RestartCommand, Free, ShutDown, IInv, TypeOK, OpenAt, KeptInv, WipedInv
<1>4. CASE ResetBegins
  BY <1>4 DEF ResetBegins, Free, Aged, IInv, TypeOK, OpenAt, KeptInv, WipedInv
<1>5. CASE ResetFlash
  BY <1>5 DEF ResetFlash, IInv, TypeOK, OpenAt, KeptInv, WipedInv
<1>6. CASE ResetFaults
  BY <1>6, ExitInv DEF ResetFaults, IInv, TypeOK
<1>7. CASE ResetEeprom
  BY <1>7 DEF ResetEeprom, BlankBoth, ShutDown, IInv, TypeOK, OpenAt, KeptInv, WipedInv
<1>8. CASE Killed
  BY <1>8, ExitInv DEF Killed, Free, IInv, TypeOK
<1>9. CASE StopSave
  <2>1. /\ proc = "up" /\ js = "free" /\ host = "program" /\ host' = "stopped" /\ js' = "unmap" /\ fd' = FALSE
        /\ UNCHANGED <<wanted, proc, exiting, callback, fw, mapped, ram, history, faults>>
        /\ file' = IF fd THEN [file EXCEPT !["eeprom"] = ram] ELSE file
    BY <1>9 DEF StopSave, Free, IInv, TypeOK
  <2>4. /\ UNCHANGED <<wanted, proc, exiting, callback, fw, mapped, ram, asked, kept, whole, wiped, faults>>
        /\ TypeOK /\ host' = "stopped" /\ js' = "unmap" /\ fd' = FALSE
    BY <2>1 DEF IInv, history
  <2>5. ASSUME file' \in [Stores -> Contents] PROVE TypeOK'
    <3>1. /\ wanted' \in BOOLEAN /\ exiting' \in BOOLEAN /\ callback' \in BOOLEAN
          /\ mapped' \in BOOLEAN /\ fd' \in BOOLEAN
          /\ asked' \in BOOLEAN /\ whole' \in BOOLEAN /\ wiped' \in BOOLEAN
      BY <2>4, Zenon DEF TypeOK
    <3>2. /\ host' \in {"daemon", "program", "stopped"} /\ js' \in {"free", "erase", "eeprom", "unmap"}
          /\ proc' \in {"down", "flash", "fillFlash", "eeprom", "fillEeprom", "up"}
          /\ fw' \in {"no", "running", "save", "unmap", "sink", "parked"}
      BY <2>4 DEF TypeOK
    <3>3. ram' \in Contents /\ kept' \in [Stores -> BOOLEAN] /\ faults' \in 0..MaxFaults
      BY <2>4, Zenon DEF TypeOK
    <3> QED BY <2>5, <3>1, <3>2, <3>3, Zenon DEF TypeOK
  <2>2. CASE ~fd
    <3>1. TypeOK'
      <4>1. file' \in [Stores -> Contents]
        BY <2>1, <2>2, <2>4 DEF TypeOK
      <4> QED BY <2>5, <4>1
    <3>2. OpenAt'
      BY <2>1, <2>2 DEF IInv, OpenAt
    <3>3. KeptInv' /\ WipedInv'
      BY <2>1, <2>2 DEF IInv, KeptInv, WipedInv, history
    <3> QED BY <3>1, <3>2, <3>3 DEF IInv
  <2>3. CASE fd
    <3>1. file' \in [Stores -> Contents] /\ file'["eeprom"] = ram /\ file'["flash"] = file["flash"]
      BY <2>1, <2>3 DEF IInv, TypeOK
    <3>2. TypeOK'
      BY <2>5, <3>1
    <3>3. fw \in {"no", "running", "save"}
      BY <2>3 DEF IInv, TypeOK, OpenAt
    <3>4. OpenAt' /\ KeptInv' /\ WipedInv'
      BY <2>1, <2>3, <3>1, <3>3 DEF IInv, TypeOK, OpenAt, KeptInv, WipedInv, history
    <3> QED BY <3>2, <3>4 DEF IInv
  <2> QED BY <2>2, <2>3
<1>10. CASE StopUnmap
  <2>1. /\ js = "unmap" /\ js' = "free" /\ mapped' = FALSE
        /\ UNCHANGED <<wanted, host, proc, exiting, callback, fw, fd, ram, file>>
        /\ UNCHANGED <<asked, kept, whole, wiped, faults>>
    BY <1>10 DEF StopUnmap, history
  <2>2. TypeOK'
    <3>1. /\ wanted' \in BOOLEAN /\ exiting' \in BOOLEAN /\ callback' \in BOOLEAN
          /\ mapped' \in BOOLEAN /\ fd' \in BOOLEAN
          /\ asked' \in BOOLEAN /\ whole' \in BOOLEAN /\ wiped' \in BOOLEAN
      BY <2>1 DEF IInv, TypeOK
    <3>2. file' \in [Stores -> Contents] /\ kept' \in [Stores -> BOOLEAN] /\ faults' \in 0..MaxFaults
      BY <2>1 DEF IInv, TypeOK
    <3>3. /\ host' \in {"daemon", "program", "stopped"}
          /\ proc' \in {"down", "flash", "fillFlash", "eeprom", "fillEeprom", "up"}
          /\ js' \in {"free", "erase", "eeprom", "unmap"}
          /\ fw' \in {"no", "running", "save", "unmap", "sink", "parked"} /\ ram' \in Contents
      BY <2>1 DEF IInv, TypeOK
    <3> QED BY <3>1, <3>2, <3>3 DEF TypeOK
  <2>3. OpenAt'
    BY <2>1 DEF IInv, OpenAt
  <2>4. KeptInv' /\ WipedInv'
    BY <2>1 DEF IInv, KeptInv, WipedInv
  <2> QED BY <2>2, <2>3, <2>4 DEF IInv
<1> QED BY <1>1, <1>2, <1>3, <1>4, <1>5, <1>6, <1>7, <1>8, <1>9, <1>10 DEF JsStep

(* Every step preserves the invariant. *)
LEMMA StepInv == IInv /\ [Next]_vars => IInv'
<1> SUFFICES ASSUME IInv, [Next]_vars PROVE IInv'
  OBVIOUS
<1>1. CASE UNCHANGED vars
  BY <1>1 DEF vars, owner, process, storage, history, IInv, TypeOK, OpenAt, KeptInv, WipedInv
<1> QED BY <1>1, SupervisorInv, StartInv, FirmwareInv, JsInv DEF Next

(* The invariant always holds. *)
LEMMA Inductive == Spec => []IInv
  BY InitInv, StepInv, PTL DEF Spec

(* Every variable of the process, its storage and its history has its type.  *)
THEOREM LifecycleTypes == Spec => []TypeOK
<1>1. IInv => TypeOK  BY DEF IInv
<1> QED BY <1>1, Inductive, PTL

(* What the firmware stored is in the files, however the process ends, until *)
(* a factory reset, and the next firmware is given it (daemon.js:224-226).   *)
THEOREM LifecycleKeeps == Spec => []StoredIsKept
<1>1. IInv => StoredIsKept  BY DEF IInv, KeptInv, StoredIsKept
<1> QED BY <1>1, Inductive, PTL

(* A factory reset that erased both files is not undone by the firmware      *)
(* beside it, nor by the save of its shutdown (ok_hal.cpp:426-463).          *)
THEOREM LifecycleWipes == Spec => []WipedStaysWiped
<1>1. IInv => WipedStaysWiped  BY DEF IInv, WipedInv, WipedStaysWiped
<1> QED BY <1>1, Inductive, PTL

-----------------------------------------------------------------------------
(* The socket between the daemon and its GUI (IpcLink): the states of a      *)
(* connection's two ends, and the types.                                     *)
PeerEnds == {"free", "dialing", "refused", "open", "closed"}
HostEnds == {"free", "queued", "open", "closing", "closed"}

IpcTypes ==
  /\ alive \in BOOLEAN /\ connected \in BOOLEAN /\ writable \in BOOLEAN /\ hostUp \in BOOLEAN
  /\ sock \in Conns \cup {None} /\ device \in Conns \cup {None}
  /\ timers \in {0, 1}
  /\ pending \in Seq(Nat) /\ backlog \in Seq(Conns)
  /\ peerEnd \in [Conns -> PeerEnds] /\ hostEnd \in [Conns -> HostEnds]
  /\ wire \in [Conns -> Seq(Nat)]
  /\ said \in Nat /\ heard \in 0..said

(* The daemon has one socket, or one timer that is going to open one; it     *)
(* holds nothing back while the socket takes what it says.                   *)
OneSocket ==
  /\ sock # None => alive /\ timers = 0 /\ peerEnd[sock] \in {"dialing", "refused", "open"}
  /\ writable => pending = <<>> /\ sock # None /\ connected

(* The ends: the host reads its device's connection only, what it does not   *)
(* read holds nothing, and both ends are forgotten together.                 *)
BothEnds ==
  /\ device # None => hostEnd[device] = "open"
  /\ \A c \in Conns : hostEnd[c] = "open" => c = device
  /\ \A c \in Conns : peerEnd[c] = "free" <=> hostEnd[c] = "free"
  /\ \A c \in Conns : hostEnd[c] \notin {"queued", "open"} => wire[c] = <<>>

(* The backlog is what is queued, each once, the daemon's socket last.       *)
Backlog ==
  /\ \A i \in 1..Len(backlog) : hostEnd[backlog[i]] = "queued"
  /\ \A c \in Conns : hostEnd[c] = "queued" => \E i \in 1..Len(backlog) : backlog[i] = c
  /\ \A i, j \in 1..Len(backlog) : i < j => backlog[i] # backlog[j]

SockIsLast ==
  /\ sock # None /\ hostEnd[sock] = "queued" => backlog[Len(backlog)] = sock
  /\ sock # None /\ hostEnd[sock] = "open" => backlog = <<>>

(* What is on a connection, or held back, is in order and has not been heard;*)
(* what is on one was said before what is on those the host reads after it,  *)
(* and before what is held back.                                             *)
Rising(s) == \A i, j \in 1..Len(s) : i < j => s[i] < s[j]
Within(s, a, b) == \A i \in 1..Len(s) : a < s[i] /\ s[i] <= b
Below(s, u) == \A i \in 1..Len(s) : \A j \in 1..Len(u) : s[i] < u[j]

HeldBack == Rising(pending) /\ Within(pending, heard, said)
OnWires ==
  \A c \in Conns : Rising(wire[c]) /\ Within(wire[c], heard, said) /\ Below(wire[c], pending)
Across ==
  /\ \A i, j \in 1..Len(backlog) : i < j => Below(wire[backlog[i]], wire[backlog[j]])
  /\ device # None => \A i \in 1..Len(backlog) : Below(wire[device], wire[backlog[i]])

IpcInv ==
  /\ IpcTypes /\ OneSocket /\ BothEnds /\ Backlog /\ SockIsLast
  /\ HeldBack /\ OnWires /\ Across

(* What the three orders say of the sequences the steps build.               *)
LEMMA OrderOfNone ==
  /\ Rising(<<>>)
  /\ \A a, b : Within(<<>>, a, b)
  /\ \A s : Below(<<>>, s) /\ Below(s, <<>>)
  BY DEF Rising, Within, Below

(* A new message goes after everything said before it. *)
LEMMA OrderOfOne ==
  ASSUME NEW s \in Seq(Nat), NEW a \in Nat, NEW b \in Nat, Within(s, a, b), a <= b
  PROVE  Rising(<<b + 1>>) /\ Within(<<b + 1>>, a, b + 1) /\ Below(s, <<b + 1>>)
  BY DEF Rising, Within, Below

(* What is not newer than b is not newer than what is said after b. *)
LEMMA WithinWiden ==
  ASSUME NEW s \in Seq(Nat), NEW a \in Nat, NEW b \in Nat, NEW n \in Nat,
         Within(s, a, b), b <= n
  PROVE  Within(s, a, n)
  BY DEF Within

(* An entry of a concatenation is one of its parts'. *)
LEMMA ConcatAt ==
  ASSUME NEW s \in Seq(Nat), NEW u \in Seq(Nat), NEW i \in 1..Len(s \o u)
  PROVE  \/ i \in 1..Len(s) /\ (s \o u)[i] = s[i]
         \/ i > Len(s) /\ i - Len(s) \in 1..Len(u) /\ (s \o u)[i] = u[i - Len(s)]
  OBVIOUS

(* What was said first, then what was said after it, is in order. *)
LEMMA OrderOfConcat ==
  ASSUME NEW s \in Seq(Nat), NEW u \in Seq(Nat), NEW a \in Nat, NEW b \in Nat,
         Rising(s), Rising(u), Below(s, u), Within(s, a, b), Within(u, a, b)
  PROVE  Rising(s \o u) /\ Within(s \o u, a, b)
<1>1. Within(s \o u, a, b)
  BY DEF Within
<1>2. Rising(s \o u)
  <2> SUFFICES ASSUME NEW i \in 1..Len(s \o u), NEW j \in 1..Len(s \o u), i < j
               PROVE  (s \o u)[i] < (s \o u)[j]
    BY DEF Rising
  <2>1. CASE j \in 1..Len(s)
    <3>1. i \in 1..Len(s) /\ (s \o u)[i] = s[i] /\ (s \o u)[j] = s[j]
      BY <2>1
    <3> QED BY <2>1, <3>1 DEF Rising
  <2>2. CASE j > Len(s) /\ i \in 1..Len(s)
    <3>1. j - Len(s) \in 1..Len(u) /\ (s \o u)[i] = s[i] /\ (s \o u)[j] = u[j - Len(s)]
      BY <2>2
    <3> QED BY <2>2, <3>1 DEF Below
  <2>3. CASE i > Len(s)
    <3>1. /\ i - Len(s) \in 1..Len(u) /\ j - Len(s) \in 1..Len(u) /\ i - Len(s) < j - Len(s)
          /\ (s \o u)[i] = u[i - Len(s)] /\ (s \o u)[j] = u[j - Len(s)]
      BY <2>3
    <3> QED BY <3>1 DEF Rising
  <2> QED BY <2>1, <2>2, <2>3
<1> QED BY <1>1, <1>2

(* Older than both parts is older than the whole; and the other way round. *)
LEMMA BelowConcat ==
  ASSUME NEW s \in Seq(Nat), NEW u \in Seq(Nat), NEW v \in Seq(Nat), Below(s, u), Below(s, v)
  PROVE  Below(s, u \o v)
<1> SUFFICES ASSUME NEW i \in 1..Len(s), NEW j \in 1..Len(u \o v) PROVE s[i] < (u \o v)[j]
  BY DEF Below
<1> QED BY ConcatAt DEF Below

LEMMA ConcatBelow ==
  ASSUME NEW s \in Seq(Nat), NEW u \in Seq(Nat), NEW v \in Seq(Nat), Below(s, v), Below(u, v)
  PROVE  Below(s \o u, v)
<1> SUFFICES ASSUME NEW i \in 1..Len(s \o u), NEW j \in 1..Len(v) PROVE (s \o u)[i] < v[j]
  BY DEF Below
<1> QED BY ConcatAt DEF Below

(* Reading the oldest message leaves only newer ones. *)
LEMMA OrderOfTail ==
  ASSUME NEW s \in Seq(Nat), NEW a \in Nat, NEW b \in Nat, s # <<>>, Rising(s), Within(s, a, b)
  PROVE  /\ Tail(s) \in Seq(Nat) /\ Head(s) \in Nat
         /\ a < Head(s) /\ Head(s) <= b
         /\ Rising(Tail(s)) /\ Within(Tail(s), Head(s), b)
<1>1. Tail(s) \in Seq(Nat) /\ Head(s) \in Nat /\ a < Head(s) /\ Head(s) <= b
  BY DEF Within
<1>2. Rising(Tail(s))
  BY DEF Rising
<1>3. Within(Tail(s), Head(s), b)
  BY DEF Rising, Within
<1> QED BY <1>1, <1>2, <1>3

(* ... and what was newer than all of them is newer than the one read. *)
LEMMA TailBelow ==
  ASSUME NEW s \in Seq(Nat), NEW u \in Seq(Nat), NEW b \in Nat, s # <<>>, Below(s, u)
  PROVE  /\ Below(Tail(s), u)
         /\ \A a \in Nat : Within(u, a, b) => Within(u, Head(s), b)
<1>1. Below(Tail(s), u)
  BY DEF Below
<1>2. \A a \in Nat : Within(u, a, b) => Within(u, Head(s), b)
  <2>1. 1 \in 1..Len(s) /\ Head(s) = s[1] /\ Head(s) \in Nat
    OBVIOUS
  <2> QED BY <2>1 DEF Below, Within
<1> QED BY <1>1, <1>2

(* It holds when the daemon starts to dial. *)
LEMMA IpcInitInv == IpcInit => IpcInv
<1> SUFFICES ASSUME IpcInit PROVE IpcInv
  OBVIOUS
<1>1. IpcTypes
  <2>1. <<>> \in Seq(Nat) /\ <<>> \in Seq(Conns) /\ 0 \in 0..0
    OBVIOUS
  <2>2. wire \in [Conns -> Seq(Nat)]
    BY <2>1 DEF IpcInit
  <2>3. peerEnd \in [Conns -> PeerEnds] /\ hostEnd \in [Conns -> HostEnds]
    BY DEF IpcInit, PeerEnds, HostEnds
  <2>4. heard \in 0..said /\ said \in Nat /\ timers \in {0, 1}
    BY DEF IpcInit
  <2> QED BY <2>1, <2>2, <2>3, <2>4 DEF IpcInit, IpcTypes
<1>2. OneSocket /\ BothEnds /\ Backlog /\ SockIsLast
  BY DEF IpcInit, OneSocket, BothEnds, Backlog, SockIsLast
<1>3. HeldBack /\ OnWires /\ Across
  BY OrderOfNone DEF IpcInit, HeldBack, OnWires, Across
<1> QED BY <1>1, <1>2, <1>3 DEF IpcInv

(* Losing what is on a connection, or held back, keeps the order. *)
LEMMA OrderOfLess ==
  ASSUME HeldBack, OnWires, said' = said, heard' = heard,
         pending' = pending \/ pending' = <<>>,
         \A c \in Conns : wire'[c] = wire[c] \/ wire'[c] = <<>>
  PROVE  HeldBack' /\ OnWires'
<1>1. HeldBack'
  BY OrderOfNone DEF HeldBack
<1>2. OnWires'
  BY OrderOfNone DEF OnWires
<1> QED BY <1>1, <1>2

(* ... among the connections too. *)
LEMMA AcrossLess ==
  ASSUME IpcTypes, Across, backlog' = backlog, device' = device \/ device' = None,
         \A c \in Conns : wire'[c] = wire[c] \/ wire'[c] = <<>>
  PROVE  Across'
<1>1. \A i \in 1..Len(backlog) : backlog[i] \in Conns
  BY DEF IpcTypes
<1>2. \A i, j \in 1..Len(backlog) : i < j => Below(wire'[backlog[i]], wire'[backlog[j]])
  BY <1>1, OrderOfNone DEF Across
<1>3. device # None => \A i \in 1..Len(backlog) : Below(wire'[device], wire'[backlog[i]])
  BY <1>1, OrderOfNone DEF Across, IpcTypes
<1> QED BY <1>2, <1>3 DEF Across

(* What forgetting the connections that are over leaves. *)
NetKeeps(p, h) ==
  /\ peerEnd' \in [Conns -> PeerEnds]
  /\ hostEnd' \in [Conns -> HostEnds]
  /\ wire' \in [Conns -> Seq(Nat)]
  /\ \A c \in Conns : peerEnd'[c] = "free" <=> hostEnd'[c] = "free"
  /\ \A c \in Conns : hostEnd'[c] = "queued" <=> h[c] = "queued"
  /\ \A c \in Conns : hostEnd'[c] = "open" <=> h[c] = "open"
  /\ \A c \in Conns : hostEnd'[c] \notin {"queued", "open"} => wire'[c] = <<>>
  /\ \A c \in Conns : wire'[c] = wire[c] \/ wire'[c] = <<>>
  /\ \A c \in Conns : p[c] \in {"dialing", "refused", "open"} => peerEnd'[c] = p[c]

(* It keeps what is read, and loses the rest of both ends together. *)
LEMMA NetForgets ==
  ASSUME IpcTypes, NEW p \in [Conns -> PeerEnds], NEW h \in [Conns -> HostEnds],
         NetBecomes(p, h, wire), \A c \in Conns : p[c] = "free" <=> h[c] = "free"
  PROVE  NetKeeps(p, h)
<1>1. peerEnd' \in [Conns -> PeerEnds]
  BY DEF NetBecomes, PeerEnds
<1>2. hostEnd' \in [Conns -> HostEnds]
  BY DEF NetBecomes, HostEnds
<1>3. wire' \in [Conns -> Seq(Nat)]
  <2>1. <<>> \in Seq(Nat)
    OBVIOUS
  <2>2. \A c \in Conns : wire[c] \in Seq(Nat)
    BY DEF IpcTypes
  <2> QED BY <2>1, <2>2 DEF NetBecomes
<1>4. \A c \in Conns : peerEnd'[c] = "free" <=> hostEnd'[c] = "free"
  BY DEF NetBecomes
<1>5. \A c \in Conns : hostEnd'[c] = "queued" <=> h[c] = "queued"
  BY DEF NetBecomes
<1>6. \A c \in Conns : hostEnd'[c] = "open" <=> h[c] = "open"
  BY DEF NetBecomes
<1>7. \A c \in Conns : hostEnd'[c] \notin {"queued", "open"} => wire'[c] = <<>>
  BY DEF NetBecomes
<1>8. \A c \in Conns : wire'[c] = wire[c] \/ wire'[c] = <<>>
  BY DEF NetBecomes
<1>9. \A c \in Conns : p[c] \in {"dialing", "refused", "open"} => peerEnd'[c] = p[c]
  BY DEF NetBecomes
<1> QED BY <1>1, <1>2, <1>3, <1>4, <1>5, <1>6, <1>7, <1>8, <1>9 DEF NetKeeps

(* The daemon dials: the new connection is empty, and the last one. *)
LEMMA OpenInv == ASSUME IpcInv, NEW c \in Conns, Open(c) PROVE IpcInv'
<1> USE DEF IpcInv
<1>1. UNCHANGED <<alive, connected, writable, pending, hostUp, device, wire, said, heard>>
  BY DEF Open
<1>2. sock = None /\ sock' = c /\ c # None /\ timers' = 0 /\ alive
  BY NoneAssumption DEF Open, OneSocket, IpcTypes
<1>3. hostEnd[c] = "free" /\ wire[c] = <<>>
  BY DEF Open, BothEnds
<1>4. \/ hostUp /\ hostEnd' = [hostEnd EXCEPT ![c] = "queued"]
         /\ peerEnd' = [peerEnd EXCEPT ![c] = "dialing"] /\ backlog' = Append(backlog, c)
      \/ ~hostUp /\ hostEnd' = [hostEnd EXCEPT ![c] = "closed"]
         /\ peerEnd' = [peerEnd EXCEPT ![c] = "refused"] /\ backlog' = backlog
  BY DEF Open
<1>5. backlog \in Seq(Conns) /\ \A i \in 1..Len(backlog) : backlog[i] \in Conns /\ backlog[i] # c
  BY <1>3 DEF IpcTypes, Backlog
<1>6. IpcTypes'
  <2>1. peerEnd' \in [Conns -> PeerEnds] /\ hostEnd' \in [Conns -> HostEnds]
    BY <1>4 DEF IpcTypes, PeerEnds, HostEnds
  <2>2. backlog' \in Seq(Conns)
    <3>1. backlog \in Seq(Conns) /\ Append(backlog, c) \in Seq(Conns)
      BY <1>5
    <3> QED BY <1>4, <3>1
  <2> QED BY <1>1, <1>2, <2>1, <2>2 DEF IpcTypes
<1>7. OneSocket'
  BY <1>1, <1>2, <1>4 DEF OneSocket, IpcTypes
<1>8. BothEnds'
  <2>1. \A d \in Conns : hostEnd'[d] = "open" <=> hostEnd[d] = "open"
    BY <1>3, <1>4 DEF IpcTypes
  <2>2. device # None => device \in Conns
    BY DEF IpcTypes
  <2>3. \A d \in Conns : peerEnd'[d] = "free" <=> hostEnd'[d] = "free"
    BY <1>4 DEF IpcTypes, BothEnds
  <2>4. \A d \in Conns : hostEnd'[d] \notin {"queued", "open"} => wire'[d] = <<>>
    <3>1. \A d \in Conns : hostEnd'[d] \notin {"queued", "open"} => hostEnd[d] \notin {"queued", "open"}
      BY <1>3, <1>4 DEF IpcTypes
    <3> QED BY <1>1, <3>1 DEF BothEnds
  <2> QED BY <1>1, <2>1, <2>2, <2>3, <2>4 DEF BothEnds
<1>9. CASE hostUp
  <2>1. /\ Len(backlog') = Len(backlog) + 1 /\ Len(backlog) \in Nat
        /\ backlog'[Len(backlog')] = c
        /\ \A i \in 1..Len(backlog) : backlog'[i] = backlog[i]
    <3>1. backlog' = Append(backlog, c) /\ backlog \in Seq(Conns)
      BY <1>4, <1>5, <1>9
    <3> QED BY <3>1
  <2>2. hostEnd' = [hostEnd EXCEPT ![c] = "queued"]
    BY <1>4, <1>9
  <2>3. \A i \in 1..Len(backlog') : i \in 1..Len(backlog) \/ i = Len(backlog')
    BY <2>1
  <2>4. \A i \in 1..Len(backlog') : hostEnd'[backlog'[i]] = "queued"
    <3>1. ASSUME NEW i \in 1..Len(backlog) PROVE hostEnd'[backlog[i]] = "queued"
      <4>1. backlog[i] \in Conns /\ backlog[i] # c /\ hostEnd[backlog[i]] = "queued"
        BY <1>5 DEF Backlog
      <4> QED BY <2>2, <4>1 DEF IpcTypes
    <3>2. hostEnd'[c] = "queued"
      BY <2>2 DEF IpcTypes
    <3> QED BY <2>1, <2>3, <3>1, <3>2
  <2>5. \A d \in Conns : hostEnd'[d] = "queued" => \E i \in 1..Len(backlog') : backlog'[i] = d
    <3> SUFFICES ASSUME NEW d \in Conns, hostEnd'[d] = "queued"
                 PROVE  \E i \in 1..Len(backlog') : backlog'[i] = d
      OBVIOUS
    <3>1. CASE d = c
      <4>1. Len(backlog') \in 1..Len(backlog')
        BY <2>1
      <4> QED BY <2>1, <3>1, <4>1
    <3>2. CASE d # c
      <4>1. hostEnd[d] = "queued"
        BY <2>2, <3>2 DEF IpcTypes
      <4>2. PICK i \in 1..Len(backlog) : backlog[i] = d
        BY <4>1 DEF Backlog
      <4>3. i \in 1..Len(backlog')
        BY <2>1
      <4> QED BY <2>1, <4>2, <4>3
    <3> QED BY <3>1, <3>2
  <2>6. \A i, j \in 1..Len(backlog') : i < j => backlog'[i] # backlog'[j]
    <3> SUFFICES ASSUME NEW i \in 1..Len(backlog'), NEW j \in 1..Len(backlog'), i < j
                 PROVE  backlog'[i] # backlog'[j]
      OBVIOUS
    <3>1. i \in 1..Len(backlog)
      BY <2>1
    <3> QED BY <1>5, <2>1, <2>3, <3>1 DEF Backlog
  <2>7. SockIsLast'
    BY <1>2, <2>1, <2>2 DEF SockIsLast, IpcTypes
  <2>8. Across'
    <3>1. ASSUME NEW i \in 1..Len(backlog'), NEW j \in 1..Len(backlog'), i < j
          PROVE  Below(wire[backlog'[i]], wire[backlog'[j]])
      <4>1. i \in 1..Len(backlog)
        BY <2>1, <3>1
      <4>2. CASE j = Len(backlog')
        BY <1>3, <2>1, <4>2, OrderOfNone
      <4>3. CASE j \in 1..Len(backlog)
        BY <2>1, <3>1, <4>1, <4>3 DEF Across
      <4> QED BY <2>3, <4>2, <4>3
    <3>2. ASSUME device # None, NEW i \in 1..Len(backlog') PROVE Below(wire[device], wire[backlog'[i]])
      BY <1>3, <2>1, <2>3, <3>2, OrderOfNone DEF Across
    <3> QED BY <1>1, <3>1, <3>2 DEF Across
  <2> QED BY <1>1, <1>6, <1>7, <1>8, <2>4, <2>5, <2>6, <2>7, <2>8 DEF Backlog, HeldBack, OnWires
<1>10. CASE ~hostUp
  <2>1. backlog' = backlog /\ hostEnd' = [hostEnd EXCEPT ![c] = "closed"]
    BY <1>4, <1>10
  <2>2. \A d \in Conns : hostEnd'[d] = "queued" <=> hostEnd[d] = "queued"
    BY <1>3, <2>1 DEF IpcTypes
  <2>3. Backlog'
    BY <1>5, <2>1, <2>2 DEF Backlog
  <2>4. SockIsLast'
    BY <1>2, <2>1 DEF SockIsLast, IpcTypes
  <2> QED BY <1>1, <1>6, <1>7, <1>8, <2>1, <2>3, <2>4 DEF HeldBack, OnWires, Across
<1> QED BY <1>9, <1>10

(* What the daemon says goes on the connection the host reads last. *)
LEMMA SaidInOrder ==
  ASSUME IpcInv, sock # None, ~FarEndGone(sock), heard' = heard, pending' = <<>>,
         UNCHANGED <<sock, device, backlog, hostEnd>>,
         NEW g \in Seq(Nat), Rising(g), said <= said', said' \in Nat, Within(g, heard, said'),
         \A d \in Conns : Below(wire[d], g),
         wire' = [wire EXCEPT ![sock] = @ \o g]
  PROVE  /\ wire' \in [Conns -> Seq(Nat)]
         /\ \A d \in Conns : hostEnd[d] \notin {"queued", "open"} => wire'[d] = <<>>
         /\ HeldBack' /\ OnWires' /\ Across'
<1> USE DEF IpcInv
<1>1. sock \in Conns /\ wire \in [Conns -> Seq(Nat)] /\ heard \in Nat /\ said \in Nat
  BY DEF IpcTypes
<1>2. hostEnd[sock] = "queued" \/ hostEnd[sock] = "open"
  <2>1. hostEnd[sock] # "free"
    BY <1>1 DEF OneSocket, BothEnds
  <2>2. hostEnd[sock] \in HostEnds
    BY <1>1 DEF IpcTypes
  <2> QED BY <2>1, <2>2 DEF HostEnds, FarEndGone
<1>3. wire'[sock] = wire[sock] \o g /\ \A d \in Conns : d # sock => wire'[d] = wire[d]
  BY <1>1
<1>4. wire[sock] \in Seq(Nat) /\ wire[sock] \o g \in Seq(Nat)
  BY <1>1
<1>5. wire' \in [Conns -> Seq(Nat)]
  BY <1>1, <1>4
<1>6. \A d \in Conns : hostEnd[d] \notin {"queued", "open"} => wire'[d] = <<>>
  BY <1>2, <1>3 DEF BothEnds
<1>7. HeldBack'
  BY OrderOfNone DEF HeldBack
<1>8. OnWires'
  <2>1. ASSUME NEW d \in Conns PROVE Rising(wire'[d]) /\ Within(wire'[d], heard, said')
    <3>1. wire[d] \in Seq(Nat) /\ Rising(wire[d]) /\ Within(wire[d], heard, said)
      BY <1>1 DEF OnWires
    <3>2. Within(wire[d], heard, said')
      BY <1>1, <3>1, WithinWiden
    <3>3. CASE d # sock
      BY <1>3, <3>1, <3>2, <3>3
    <3>4. CASE d = sock
      <4>1. Below(wire[d], g)
        OBVIOUS
      <4>2. Rising(wire[d] \o g) /\ Within(wire[d] \o g, heard, said')
        BY <1>1, <3>1, <3>2, <4>1, OrderOfConcat
      <4> QED BY <1>3, <3>4, <4>2
    <3> QED BY <3>3, <3>4
  <2> QED BY <2>1, OrderOfNone DEF OnWires
<1>9. Across'
  <2>1. \A i \in 1..Len(backlog) : backlog[i] \in Conns /\ wire[backlog[i]] \in Seq(Nat)
    BY <1>1 DEF IpcTypes
  <2>2. ASSUME NEW i \in 1..Len(backlog), NEW s \in Seq(Nat), Below(s, wire[backlog[i]]), Below(s, g)
        PROVE  Below(s, wire'[backlog[i]])
    <3>1. CASE backlog[i] = sock
      BY <1>3, <1>4, <2>2, <3>1, BelowConcat
    <3>2. CASE backlog[i] # sock
      BY <1>3, <2>1, <2>2, <3>2
    <3> QED BY <3>1, <3>2
  <2>3. ASSUME NEW i \in 1..Len(backlog), NEW j \in 1..Len(backlog), i < j
        PROVE  Below(wire'[backlog[i]], wire'[backlog[j]])
    <3>1. backlog[i] # sock
      <4>1. hostEnd[backlog[i]] = "queued" /\ Len(backlog) \in 1..Len(backlog) /\ i < Len(backlog)
        BY <2>3 DEF Backlog
      <4>2. backlog[i] # backlog[Len(backlog)]
        BY <4>1 DEF Backlog
      <4> QED BY <4>1, <4>2 DEF SockIsLast
    <3>2. wire'[backlog[i]] = wire[backlog[i]] /\ wire[backlog[i]] \in Seq(Nat)
      BY <1>3, <2>1, <3>1
    <3>3. Below(wire[backlog[i]], wire[backlog[j]]) /\ Below(wire[backlog[i]], g)
      BY <2>1, <2>3 DEF Across
    <3> QED BY <2>2, <3>2, <3>3
  <2>4. ASSUME device # None, NEW i \in 1..Len(backlog)
        PROVE  Below(wire'[device], wire'[backlog[i]])
    <3>1. device \in Conns /\ hostEnd[device] = "open"
      BY <2>4 DEF IpcTypes, BothEnds
    <3>2. device # sock
      <4>1. backlog # <<>>
        BY <2>4
      <4> QED BY <3>1, <4>1 DEF SockIsLast
    <3>3. wire'[device] = wire[device] /\ wire[device] \in Seq(Nat)
      BY <1>1, <1>3, <3>1, <3>2
    <3>4. Below(wire[device], wire[backlog[i]]) /\ Below(wire[device], g)
      BY <2>4, <3>1 DEF Across
    <3> QED BY <2>2, <3>3, <3>4
  <2> QED BY <2>3, <2>4 DEF Across
<1> QED BY <1>5, <1>6, <1>7, <1>8, <1>9

(* The greeting: what was held back, then `ready`. *)
LEMMA ConnectInv == ASSUME IpcInv, NEW c \in Conns, Connect(c) PROVE IpcInv'
<1> USE DEF IpcInv
<1>1. /\ alive /\ sock = c /\ sock # None /\ peerEnd[c] = "dialing"
      /\ connected' = TRUE /\ writable' = TRUE /\ pending' = <<>>
      /\ UNCHANGED <<alive, sock, timers, hostUp, device, backlog, hostEnd, heard>>
      /\ peerEnd' = [peerEnd EXCEPT ![c] = "open"]
  BY NoneAssumption DEF Connect, gui
<1>2. /\ pending \in Seq(Nat) /\ wire \in [Conns -> Seq(Nat)]
      /\ heard \in Nat /\ said \in Nat /\ heard <= said
  BY DEF IpcTypes
<1>3. /\ said' \in Nat /\ said <= said'
      /\ Greeting \in Seq(Nat) /\ Rising(Greeting) /\ Within(Greeting, heard, said')
      /\ \A d \in Conns : Below(wire[d], Greeting)
  <2>1. Rising(pending) /\ Within(pending, heard, said) /\ \A d \in Conns : Below(wire[d], pending)
    BY DEF HeldBack, OnWires
  <2>2. CASE said < MaxSaid
    <3> DEFINE r == <<said + 1>>
    <3>1. Greeting = pending \o r /\ said' = said + 1 /\ r \in Seq(Nat)
      BY <1>2, <2>2 DEF Greeting, Ready, Connect
    <3>2. Rising(r) /\ Within(r, heard, said + 1) /\ Below(pending, r)
      BY <1>2, <2>1, OrderOfOne
    <3>3. \A d \in Conns : Below(wire[d], r)
      <4>1. ASSUME NEW d \in Conns PROVE Below(wire[d], r)
        <5>1. wire[d] \in Seq(Nat) /\ Within(wire[d], heard, said)
          BY <1>2 DEF OnWires
        <5> QED BY <1>2, <5>1, OrderOfOne
      <4> QED BY <4>1
    <3>4. Within(pending, heard, said + 1)
      BY <1>2, <2>1, WithinWiden
    <3> HIDE DEF r
    <3>5. Rising(pending \o r) /\ Within(pending \o r, heard, said + 1) /\ pending \o r \in Seq(Nat)
      BY <1>2, <2>1, <3>1, <3>2, <3>4, OrderOfConcat
    <3>6. \A d \in Conns : Below(wire[d], pending \o r)
      <4>1. ASSUME NEW d \in Conns PROVE Below(wire[d], pending \o r)
        <5>1. wire[d] \in Seq(Nat) /\ Below(wire[d], pending) /\ Below(wire[d], r)
          BY <1>2, <2>1, <3>3
        <5> QED BY <1>2, <3>1, <5>1, BelowConcat
      <4> QED BY <4>1
    <3> QED BY <1>2, <3>1, <3>5, <3>6
  <2>3. CASE ~(said < MaxSaid)
    <3>1. Greeting = pending /\ said' = said
      BY <1>2, <2>3 DEF Greeting, Ready, Connect
    <3> QED BY <1>2, <2>1, <3>1
  <2> QED BY <2>2, <2>3
<1>4. /\ wire' \in [Conns -> Seq(Nat)]
      /\ \A d \in Conns : hostEnd[d] \notin {"queued", "open"} => wire'[d] = <<>>
      /\ HeldBack' /\ OnWires' /\ Across'
  <2>1. CASE FarEndGone(c)
    <3>1. wire' = wire
      BY <2>1 DEF Connect
    <3>2. HeldBack' /\ Across'
      BY <1>1, <3>1, OrderOfNone DEF HeldBack, Across
    <3>3. OnWires'
      <4>1. ASSUME NEW d \in Conns PROVE Rising(wire[d]) /\ Within(wire[d], heard, said')
        <5>1. wire[d] \in Seq(Nat) /\ Rising(wire[d]) /\ Within(wire[d], heard, said)
          BY <1>2 DEF OnWires
        <5> QED BY <1>2, <1>3, <5>1, WithinWiden
      <4> QED BY <1>1, <3>1, <4>1, OrderOfNone DEF OnWires
    <3> QED BY <1>2, <3>1, <3>2, <3>3 DEF BothEnds
  <2>2. CASE ~FarEndGone(c)
    <3>1. wire' = [wire EXCEPT ![sock] = @ \o Greeting]
      BY <1>1, <2>2 DEF Connect
    <3> QED BY <1>1, <1>3, <2>2, <3>1, SaidInOrder
  <2> QED BY <2>1, <2>2
<1>5. IpcTypes'
  <2>1. peerEnd' \in [Conns -> PeerEnds]
    BY <1>1 DEF IpcTypes, PeerEnds
  <2>2. pending' \in Seq(Nat) /\ heard' \in 0..said'
    BY <1>1, <1>2, <1>3
  <2> QED BY <1>1, <1>3, <1>4, <2>1, <2>2 DEF IpcTypes
<1>6. OneSocket'
  BY <1>1 DEF OneSocket, IpcTypes
<1>7. BothEnds'
  <2>1. hostEnd[c] # "free"
    BY <1>1 DEF BothEnds
  <2>2. \A d \in Conns : peerEnd'[d] = "free" <=> hostEnd'[d] = "free"
    BY <1>1, <2>1 DEF IpcTypes, BothEnds
  <2> QED BY <1>1, <1>4, <2>2 DEF BothEnds
<1>8. Backlog' /\ SockIsLast'
  BY <1>1 DEF Backlog, SockIsLast
<1> QED BY <1>4, <1>5, <1>6, <1>7, <1>8

(* A message goes on the connection, or is held back, or lost. *)
LEMMA SayInv == ASSUME IpcInv, Say PROVE IpcInv'
<1> USE DEF IpcInv
<1> DEFINE r == <<said + 1>>
<1>1. /\ said' = said + 1
      /\ UNCHANGED <<alive, sock, connected, writable, timers, hostUp, device, backlog,
                     peerEnd, hostEnd, heard>>
  BY DEF Say, gui
<1>2. /\ pending \in Seq(Nat) /\ wire \in [Conns -> Seq(Nat)]
      /\ heard \in Nat /\ said \in Nat /\ heard <= said
  BY DEF IpcTypes
<1>3. r \in Seq(Nat) /\ \A s \in Seq(Nat) : Append(s, said + 1) = s \o r /\ s \o r \in Seq(Nat)
  <2>1. said + 1 \in Nat
    BY <1>2
  <2>2. r \in Seq(Nat)
    BY <2>1
  <2>3. ASSUME NEW s \in Seq(Nat) PROVE Append(s, said + 1) = s \o r /\ s \o r \in Seq(Nat)
    <3>1. Append(s, said + 1) = s \o r
      BY <2>1, <2>2
    <3>2. s \o r \in Seq(Nat)
      BY <2>2
    <3> QED BY <3>1, <3>2
  <2> QED BY <2>2, <2>3
<1>4. Rising(r) /\ Within(r, heard, said') /\ \A d \in Conns : Below(wire[d], r)
  <2>1. ASSUME NEW d \in Conns PROVE Below(wire[d], r)
    <3>1. wire[d] \in Seq(Nat) /\ Within(wire[d], heard, said)
      BY <1>2 DEF OnWires
    <3> QED BY <1>2, <3>1, OrderOfOne
  <2>2. Rising(r) /\ Within(r, heard, said + 1)
    BY <1>2, OrderOfOne DEF HeldBack
  <2> QED BY <1>1, <2>1, <2>2
<1>5. Below(pending, r)
  BY <1>2, OrderOfOne DEF HeldBack
<1> HIDE DEF r
<1>6. ASSUME NEW s \in Seq(Nat), Within(s, heard, said) PROVE Within(s, heard, said')
  <2>1. said' \in Nat /\ said <= said'
    BY <1>1, <1>2
  <2> QED BY <1>2, <1>6, <2>1, WithinWiden
<1>7. /\ wire' \in [Conns -> Seq(Nat)] /\ pending' \in Seq(Nat)
      /\ writable => pending' = <<>>
      /\ \A d \in Conns : hostEnd[d] \notin {"queued", "open"} => wire'[d] = <<>>
      /\ HeldBack' /\ OnWires' /\ Across'
  <2> DEFINE Held == wire' = wire /\ (pending' = pending \/ (~writable /\ pending' = Append(pending, said + 1)))
  <2>1. CASE Held
    <3>1. Across'
      BY <1>1, <2>1 DEF Across
    <3>2. Rising(pending') /\ Within(pending', heard, said') /\ pending' \in Seq(Nat)
      <4>1. Within(pending, heard, said')
        BY <1>2, <1>6 DEF HeldBack
      <4>2. said' \in Nat
        BY <1>1, <1>2
      <4>3. Rising(pending \o r) /\ Within(pending \o r, heard, said') /\ pending \o r \in Seq(Nat)
        BY <1>2, <1>3, <1>4, <1>5, <4>1, <4>2, OrderOfConcat DEF HeldBack
      <4>4. Append(pending, said + 1) = pending \o r
        BY <1>2, <1>3
      <4> QED BY <1>2, <2>1, <4>1, <4>3, <4>4 DEF HeldBack
    <3>3. ASSUME NEW d \in Conns
          PROVE  Rising(wire[d]) /\ Within(wire[d], heard, said') /\ Below(wire[d], pending')
      <4>1. wire[d] \in Seq(Nat) /\ Rising(wire[d]) /\ Within(wire[d], heard, said) /\ Below(wire[d], pending)
        BY <1>2 DEF OnWires
      <4>2. Below(wire[d], pending \o r)
        BY <1>2, <1>3, <1>4, <4>1, BelowConcat
      <4>3. Append(pending, said + 1) = pending \o r
        BY <1>2, <1>3
      <4> QED BY <1>6, <2>1, <4>1, <4>2, <4>3
    <3>4. writable => pending' = <<>>
      BY <2>1 DEF OneSocket
    <3> QED BY <1>1, <1>2, <2>1, <3>1, <3>2, <3>3, <3>4 DEF HeldBack, OnWires, BothEnds
  <2> DEFINE Sent == /\ sock # None /\ writable /\ ~FarEndGone(sock) /\ UNCHANGED pending
                     /\ wire' = [wire EXCEPT ![sock] = Append(@, said + 1)]
  <2>2. CASE Sent
    <3>1. sock \in Conns /\ pending = <<>>
      BY <2>2 DEF IpcTypes, OneSocket
    <3>2. wire' = [wire EXCEPT ![sock] = @ \o r]
      BY <1>2, <1>3, <2>2, <3>1
    <3>3. said <= said' /\ said' \in Nat
      BY <1>1, <1>2
    <3>4. /\ wire' \in [Conns -> Seq(Nat)]
          /\ \A d \in Conns : hostEnd[d] \notin {"queued", "open"} => wire'[d] = <<>>
          /\ HeldBack' /\ OnWires' /\ Across'
      BY <1>1, <1>3, <1>4, <2>2, <3>1, <3>2, <3>3, SaidInOrder
    <3> QED BY <1>2, <2>2, <3>1, <3>4
  <2>3. writable => sock # None /\ connected
    BY DEF OneSocket
  <2>4. Held \/ Sent
    <3>1. CASE sock # None /\ connected /\ writable
      <4>1. /\ wire' = IF FarEndGone(sock) THEN wire ELSE [wire EXCEPT ![sock] = Append(@, said + 1)]
            /\ pending' = pending
        BY <3>1 DEF Say
      <4> QED BY <3>1, <4>1
    <3>2. CASE ~(sock # None /\ connected /\ writable)
      <4>1. wire' = wire /\ (pending' = pending \/ pending' = Append(pending, said + 1))
        BY <3>2 DEF Say, Hold
      <4>2. ~writable
        BY <2>3, <3>2
      <4> QED BY <4>1, <4>2
    <3> QED BY <3>1, <3>2
  <2> HIDE DEF Held, Sent
  <2> QED BY <2>1, <2>2, <2>4
<1>8. IpcTypes'
  <2>1. said' \in Nat /\ heard' \in 0..said'
    BY <1>1, <1>2
  <2> QED BY <1>1, <1>7, <2>1 DEF IpcTypes
<1>9. OneSocket' /\ BothEnds' /\ Backlog' /\ SockIsLast'
  BY <1>1, <1>7 DEF OneSocket, BothEnds, Backlog, SockIsLast
<1> QED BY <1>7, <1>8, <1>9

(* The backlog stays as it is while what is queued does. *)
LEMMA BacklogKept ==
  ASSUME IpcInv, backlog' = backlog, \A c \in Conns : hostEnd'[c] = "queued" <=> hostEnd[c] = "queued"
  PROVE  Backlog'
<1>1. \A i \in 1..Len(backlog) : backlog[i] \in Conns
  BY DEF IpcInv, IpcTypes
<1> QED BY <1>1 DEF IpcInv, Backlog

(* The daemon's end closes, after the far end's. *)
LEMMA PeerClosedInv == ASSUME IpcInv, NEW c \in Conns, PeerClosed(c) PROVE IpcInv'
<1> USE DEF IpcInv
<1> DEFINE p == [peerEnd EXCEPT ![c] = "closed"]
<1>1. /\ sock = c /\ c # None /\ alive /\ ~writable /\ writable' = writable /\ connected' = FALSE
      /\ sock' = None /\ timers' = 1
      /\ UNCHANGED <<alive, pending, hostUp, device, backlog, said, heard>>
      /\ NetBecomes(p, hostEnd, wire)
  BY NoneAssumption DEF PeerClosed, gui, OneSocket, IpcTypes
<1>2. p \in [Conns -> PeerEnds] /\ hostEnd \in [Conns -> HostEnds]
  BY DEF IpcTypes, PeerEnds
<1>3. \A d \in Conns : p[d] = "free" <=> hostEnd[d] = "free"
  BY <1>1 DEF PeerClosed, FarEndGone, BothEnds, IpcTypes
<1> HIDE DEF p
<1>4. NetKeeps(p, hostEnd)
  BY <1>1, <1>2, <1>3, NetForgets
<1>5. IpcTypes'
  BY <1>1, <1>4 DEF NetKeeps, IpcTypes
<1>6. OneSocket'
  BY <1>1 DEF OneSocket
<1>7. BothEnds'
  BY <1>1, <1>4 DEF NetKeeps, BothEnds, IpcTypes
<1>8. Backlog' /\ SockIsLast'
  BY <1>1, <1>4, BacklogKept DEF NetKeeps, SockIsLast
<1>9. HeldBack' /\ OnWires' /\ Across'
  BY <1>1, <1>4, OrderOfLess, AcrossLess DEF NetKeeps
<1> QED BY <1>5, <1>6, <1>7, <1>8, <1>9

(* The daemon dies: its end closes, and what it held back is lost. *)
LEMMA DieInv == ASSUME IpcInv, Die PROVE IpcInv'
<1> USE DEF IpcInv
<1> DEFINE p == [c \in Conns |-> IF c = sock THEN "closed" ELSE peerEnd[c]]
<1>1. /\ alive' = FALSE /\ sock' = None /\ connected' = FALSE /\ writable' = FALSE
      /\ pending' = <<>> /\ timers' = 0
      /\ UNCHANGED <<hostUp, device, backlog, said, heard>>
      /\ NetBecomes(p, hostEnd, wire)
  BY DEF Die, gui
<1>2. p \in [Conns -> PeerEnds] /\ hostEnd \in [Conns -> HostEnds]
  BY DEF IpcTypes, PeerEnds
<1>3. \A d \in Conns : p[d] = "free" <=> hostEnd[d] = "free"
  BY NoneAssumption DEF OneSocket, BothEnds, IpcTypes
<1> HIDE DEF p
<1>4. NetKeeps(p, hostEnd)
  BY <1>1, <1>2, <1>3, NetForgets
<1>5. IpcTypes'
  <2>1. pending' \in Seq(Nat)
    BY <1>1
  <2> QED BY <1>1, <1>4, <2>1 DEF NetKeeps, IpcTypes
<1>6. OneSocket'
  BY <1>1 DEF OneSocket
<1>7. BothEnds'
  BY <1>1, <1>4 DEF NetKeeps, BothEnds, IpcTypes
<1>8. Backlog' /\ SockIsLast'
  BY <1>1, <1>4, BacklogKept DEF NetKeeps, SockIsLast
<1>9. HeldBack' /\ OnWires' /\ Across'
  BY <1>1, <1>4, OrderOfLess, AcrossLess DEF NetKeeps
<1> QED BY <1>5, <1>6, <1>7, <1>8, <1>9

(* The host's end closes: its device's, with nothing left to read, or one    *)
(* that was superseded.                                                      *)
LEMMA HostClosedInv == ASSUME IpcInv, NEW c \in Conns, HostClosed(c) PROVE IpcInv'
<1> USE DEF IpcInv
<1> DEFINE h == [hostEnd EXCEPT ![c] = "closed"]
<1>1. /\ UNCHANGED <<alive, sock, connected, writable, pending, timers, hostUp, backlog, said, heard>>
      /\ device' = Drop(c)
      /\ NetBecomes(peerEnd, h, wire)
      /\ hostEnd[c] = "closing" \/ (hostEnd[c] = "open" /\ peerEnd[c] = "closed")
  BY DEF HostClosed, peer
<1>2. peerEnd \in [Conns -> PeerEnds] /\ h \in [Conns -> HostEnds]
  BY DEF IpcTypes, HostEnds
<1>3. \A d \in Conns : peerEnd[d] = "free" <=> h[d] = "free"
  BY <1>1 DEF BothEnds, IpcTypes
<1>4. /\ \A d \in Conns : h[d] = "queued" <=> hostEnd[d] = "queued"
      /\ \A d \in Conns : h[d] = "open" <=> hostEnd[d] = "open" /\ d # c
  BY <1>1 DEF IpcTypes
<1> HIDE DEF h
<1>5. NetKeeps(peerEnd, h)
  BY <1>1, <1>2, <1>3, NetForgets
<1>6. device' = None \/ (device' = device /\ device # c)
  BY <1>1, NoneAssumption DEF Drop
<1>7. IpcTypes'
  BY <1>1, <1>5, <1>6 DEF NetKeeps, IpcTypes
<1>8. OneSocket'
  BY <1>1, <1>5 DEF NetKeeps, OneSocket, IpcTypes
<1>9. BothEnds'
  <2>1. device' # None => hostEnd'[device'] = "open"
    BY <1>4, <1>5, <1>6 DEF NetKeeps, BothEnds, IpcTypes
  <2>2. \A d \in Conns : hostEnd'[d] = "open" => d = device'
    BY <1>1, <1>4, <1>5 DEF NetKeeps, BothEnds, Drop
  <2> QED BY <1>5, <2>1, <2>2 DEF NetKeeps, BothEnds
<1>10. Backlog'
  BY <1>1, <1>4, <1>5, BacklogKept DEF NetKeeps
<1>11. SockIsLast'
  BY <1>1, <1>4, <1>5 DEF NetKeeps, SockIsLast, IpcTypes
<1>12. HeldBack' /\ OnWires' /\ Across'
  BY <1>1, <1>5, <1>6, OrderOfLess, AcrossLess DEF NetKeeps
<1> QED BY <1>7, <1>8, <1>9, <1>10, <1>11, <1>12

(* The GUI ends, and every connection's far end with it. *)
LEMMA HostQuitInv == ASSUME IpcInv, HostQuit PROVE IpcInv'
<1> USE DEF IpcInv
<1> DEFINE h == [c \in Conns |-> IF hostEnd[c] = "free" THEN "free" ELSE "closed"]
<1>1. /\ UNCHANGED <<alive, sock, connected, writable, pending, timers, said, heard>>
      /\ hostUp' = FALSE /\ device' = None /\ backlog' = <<>>
      /\ NetBecomes(peerEnd, h, wire)
  BY DEF HostQuit, peer
<1>2. peerEnd \in [Conns -> PeerEnds] /\ h \in [Conns -> HostEnds]
  BY DEF IpcTypes, HostEnds
<1>3. \A d \in Conns : peerEnd[d] = "free" <=> h[d] = "free"
  BY DEF BothEnds, IpcTypes
<1>4. \A d \in Conns : h[d] # "queued" /\ h[d] # "open"
  OBVIOUS
<1> HIDE DEF h
<1>5. NetKeeps(peerEnd, h)
  BY <1>1, <1>2, <1>3, NetForgets
<1>6. \A d \in Conns : hostEnd'[d] # "queued" /\ hostEnd'[d] # "open"
  BY <1>4, <1>5 DEF NetKeeps
<1>7. IpcTypes'
  <2>1. backlog' \in Seq(Conns)
    BY <1>1
  <2> QED BY <1>1, <1>5, <2>1 DEF NetKeeps, IpcTypes
<1>8. OneSocket'
  BY <1>1, <1>5 DEF NetKeeps, OneSocket, IpcTypes
<1>9. BothEnds'
  BY <1>1, <1>5, <1>6 DEF NetKeeps, BothEnds
<1>10. Backlog'
  BY <1>1, <1>6 DEF Backlog
<1>11. SockIsLast'
  BY <1>1, <1>6 DEF SockIsLast, IpcTypes
<1>12. HeldBack' /\ OnWires'
  BY <1>1, <1>5, OrderOfLess DEF NetKeeps
<1>13. Across'
  BY <1>1 DEF Across
<1> QED BY <1>7, <1>8, <1>9, <1>10, <1>11, <1>12, <1>13

(* The first of the backlog supersedes the device, whose connection is read  *)
(* no further.                                                               *)
LEMMA AcceptInv == ASSUME IpcInv, NEW c \in Conns, Accept(c) PROVE IpcInv'
<1> USE DEF IpcInv
<1>1. /\ UNCHANGED <<alive, sock, connected, writable, pending, timers, hostUp, said, heard>>
      /\ backlog # <<>> /\ c = Head(backlog) /\ backlog' = Tail(backlog) /\ device' = c
      /\ NetBecomes(peerEnd, Supersede(c), wire)
  BY DEF Accept, peer
<1>2. backlog \in Seq(Conns) /\ backlog' \in Seq(Conns) /\ Len(backlog) \in Nat
  BY <1>1 DEF IpcTypes
<1>3. /\ 1 \in 1..Len(backlog) /\ c = backlog[1] /\ c # None
      /\ Len(backlog') = Len(backlog) - 1
      /\ \A i \in 1..Len(backlog') : i + 1 \in 1..Len(backlog) /\ backlog'[i] = backlog[i + 1]
  BY <1>1, <1>2, NoneAssumption
<1>4. hostEnd[c] = "queued" /\ \A i \in 1..Len(backlog') : backlog'[i] # c /\ backlog'[i] \in Conns
  <2>1. hostEnd[c] = "queued"
    BY <1>3 DEF Backlog
  <2>2. ASSUME NEW i \in 1..Len(backlog') PROVE backlog'[i] # c /\ backlog'[i] \in Conns
    <3>1. i + 1 \in 1..Len(backlog) /\ backlog'[i] = backlog[i + 1] /\ 1 < i + 1
      BY <1>2, <1>3
    <3> QED BY <1>2, <1>3, <3>1 DEF Backlog
  <2> QED BY <2>1, <2>2
<1>5. peerEnd \in [Conns -> PeerEnds] /\ Supersede(c) \in [Conns -> HostEnds]
  BY DEF IpcTypes, HostEnds, Supersede
<1>6. device # None => device \in Conns /\ hostEnd[device] = "open"
  BY DEF IpcTypes, BothEnds
<1>7. \A d \in Conns : peerEnd[d] = "free" <=> Supersede(c)[d] = "free"
  BY <1>4, <1>6, NoneAssumption DEF BothEnds, Supersede
<1>8. NetKeeps(peerEnd, Supersede(c))
  BY <1>1, <1>5, <1>7, NetForgets
<1>9. \A d \in Conns : hostEnd'[d] = "open" <=> d = c
  BY <1>8 DEF NetKeeps, Supersede, BothEnds
<1>10. \A d \in Conns : hostEnd'[d] = "queued" <=> hostEnd[d] = "queued" /\ d # c
  BY <1>6, <1>8, NoneAssumption DEF NetKeeps, Supersede
<1>11. IpcTypes'
  BY <1>1, <1>2, <1>8 DEF NetKeeps, IpcTypes
<1>12. OneSocket'
  BY <1>1, <1>8 DEF NetKeeps, OneSocket, IpcTypes
<1>13. BothEnds'
  BY <1>1, <1>8, <1>9 DEF NetKeeps, BothEnds
<1>14. Backlog'
  <2>1. \A i \in 1..Len(backlog') : hostEnd'[backlog'[i]] = "queued"
    BY <1>3, <1>4, <1>10 DEF Backlog
  <2>2. ASSUME NEW d \in Conns, hostEnd'[d] = "queued" PROVE \E i \in 1..Len(backlog') : backlog'[i] = d
    <3>1. hostEnd[d] = "queued" /\ d # c
      BY <1>10, <2>2
    <3>2. PICK i \in 1..Len(backlog) : backlog[i] = d
      BY <3>1 DEF Backlog
    <3>3. i # 1
      BY <1>3, <3>1, <3>2
    <3>4. i - 1 \in 1..Len(backlog') /\ (i - 1) + 1 = i
      BY <1>2, <1>3, <3>3
    <3>5. backlog'[i - 1] = d
      BY <1>3, <3>2, <3>4
    <3> QED BY <3>4, <3>5
  <2>3. ASSUME NEW i \in 1..Len(backlog'), NEW j \in 1..Len(backlog'), i < j
        PROVE  backlog'[i] # backlog'[j]
    <3>1. i + 1 \in 1..Len(backlog) /\ j + 1 \in 1..Len(backlog) /\ i + 1 < j + 1
      BY <1>3, <2>3
    <3> QED BY <1>3, <3>1 DEF Backlog
  <2> QED BY <2>1, <2>2, <2>3 DEF Backlog
<1>15. SockIsLast'
  <2>1. ASSUME sock # None, hostEnd'[sock] = "queued" PROVE backlog'[Len(backlog')] = sock
    <3>1. sock \in Conns /\ hostEnd[sock] = "queued" /\ sock # c
      BY <1>10, <2>1 DEF IpcTypes
    <3>2. backlog[Len(backlog)] = sock
      BY <3>1, <2>1 DEF SockIsLast
    <3>3. Len(backlog) # 1
      BY <1>3, <3>1, <3>2
    <3>4. Len(backlog') \in 1..Len(backlog') /\ Len(backlog') + 1 = Len(backlog)
      BY <1>2, <1>3, <3>3
    <3> QED BY <1>3, <3>2, <3>4
  <2>2. ASSUME sock # None, hostEnd'[sock] = "open" PROVE backlog' = <<>>
    <3>1. sock = c
      BY <1>9, <2>2 DEF IpcTypes
    <3>2. backlog[Len(backlog)] = c
      BY <1>4, <2>2, <3>1 DEF SockIsLast
    <3>3. ~(1 < Len(backlog))
      <4>1. Len(backlog) \in 1..Len(backlog)
        BY <1>2, <1>3
      <4> QED BY <1>3, <3>2, <4>1 DEF Backlog
    <3>4. Len(backlog') = 0
      BY <1>2, <1>3, <3>3
    <3> QED BY <1>2, <3>4
  <2> QED BY <1>1, <2>1, <2>2 DEF SockIsLast
<1>16. HeldBack' /\ OnWires'
  BY <1>1, <1>8, OrderOfLess DEF NetKeeps
<1>17. Across'
  <2>1. \A d \in Conns : wire'[d] = wire[d] \/ wire'[d] = <<>>
    BY <1>8 DEF NetKeeps
  <2>2. ASSUME NEW i \in 1..Len(backlog), NEW j \in 1..Len(backlog), i < j
        PROVE  Below(wire'[backlog[i]], wire'[backlog[j]])
    <3>1. backlog[i] \in Conns /\ backlog[j] \in Conns
      BY <1>2
    <3>2. Below(wire[backlog[i]], wire[backlog[j]])
      BY <2>2 DEF Across
    <3> QED BY <2>1, <3>1, <3>2, OrderOfNone
  <2>3. ASSUME NEW i \in 1..Len(backlog'), NEW j \in 1..Len(backlog'), i < j
        PROVE  Below(wire'[backlog'[i]], wire'[backlog'[j]])
    <3>1. i + 1 \in 1..Len(backlog) /\ j + 1 \in 1..Len(backlog) /\ i + 1 < j + 1
      BY <1>3, <2>3
    <3> QED BY <1>3, <2>2, <3>1
  <2>4. ASSUME NEW i \in 1..Len(backlog') PROVE Below(wire'[c], wire'[backlog'[i]])
    <3>1. i + 1 \in 1..Len(backlog) /\ 1 < i + 1
      BY <1>3
    <3> QED BY <1>3, <2>2, <3>1
  <2> QED BY <1>1, <2>3, <2>4 DEF Across
<1> QED BY <1>11, <1>12, <1>13, <1>14, <1>15, <1>16, <1>17

(* The host reads the next message of its device's connection: it is newer   *)
(* than what it heard, and older than everything still on the way.           *)
LEMMA FrameInv ==
  ASSUME IpcInv, NEW c \in Conns, Frame(c) PROVE IpcInv' /\ heard < heard'
<1> USE DEF IpcInv
<1>1. /\ UNCHANGED <<alive, sock, connected, writable, pending, timers, hostUp, device, backlog,
                     peerEnd, hostEnd, said>>
      /\ hostEnd[c] = "open" /\ wire[c] # <<>>
      /\ heard' = Head(wire[c])
      /\ wire' = [wire EXCEPT ![c] = Tail(wire[c])]
  BY DEF Frame, peer, gui
<1>2. /\ pending \in Seq(Nat) /\ wire \in [Conns -> Seq(Nat)] /\ wire[c] \in Seq(Nat)
      /\ heard \in Nat /\ said \in Nat
  BY DEF IpcTypes
<1>3. /\ Tail(wire[c]) \in Seq(Nat) /\ heard' \in Nat /\ heard < heard' /\ heard' <= said
      /\ Rising(Tail(wire[c])) /\ Within(Tail(wire[c]), heard', said)
  BY <1>1, <1>2, OrderOfTail DEF OnWires
<1>4. wire' \in [Conns -> Seq(Nat)] /\ wire'[c] = Tail(wire[c]) /\ \A d \in Conns : d # c => wire'[d] = wire[d]
  BY <1>1, <1>2, <1>3
<1>5. ASSUME NEW u \in Seq(Nat), Below(wire[c], u), Within(u, heard, said)
      PROVE  Below(Tail(wire[c]), u) /\ Within(u, heard', said)
  BY <1>1, <1>2, <1>5, TailBelow
<1>6. device = c
  BY <1>1 DEF BothEnds
<1>7. IpcTypes'
  BY <1>1, <1>2, <1>3, <1>4 DEF IpcTypes
<1>8. OneSocket' /\ Backlog' /\ SockIsLast'
  BY <1>1 DEF OneSocket, Backlog, SockIsLast
<1>9. BothEnds'
  BY <1>1, <1>4 DEF BothEnds
<1>10. HeldBack'
  BY <1>1, <1>2, <1>5 DEF HeldBack, OnWires
<1>11. OnWires'
  <2>1. ASSUME NEW d \in Conns
        PROVE  Rising(wire'[d]) /\ Within(wire'[d], heard', said) /\ Below(wire'[d], pending)
    <3>1. wire[d] \in Seq(Nat) /\ Rising(wire[d]) /\ Within(wire[d], heard, said) /\ Below(wire[d], pending)
      BY <1>2 DEF OnWires
    <3>2. CASE d = c
      BY <1>2, <1>3, <1>4, <1>5, <3>1, <3>2 DEF HeldBack
    <3>3. CASE hostEnd[d] = "queued"
      <4>1. PICK i \in 1..Len(backlog) : backlog[i] = d
        BY <3>3 DEF Backlog
      <4>2. Below(wire[c], wire[d]) /\ d # c
        BY <1>1, <1>6, <3>3, <4>1, NoneAssumption DEF Across
      <4> QED BY <1>4, <1>5, <3>1, <4>2
    <3>4. CASE d # c /\ hostEnd[d] # "queued"
      <4>1. wire[d] = <<>>
        BY <1>6, <3>4 DEF BothEnds
      <4> QED BY <1>4, <3>4, <4>1, OrderOfNone
    <3> QED BY <3>2, <3>3, <3>4
  <2> QED BY <1>1, <2>1 DEF OnWires
<1>12. Across'
  <2>1. \A i \in 1..Len(backlog) : backlog[i] \in Conns /\ backlog[i] # c
    BY <1>1 DEF IpcTypes, Backlog
  <2>2. ASSUME NEW i \in 1..Len(backlog) PROVE Below(wire'[device], wire'[backlog[i]])
    <3>1. Below(wire[c], wire[backlog[i]]) /\ wire[backlog[i]] \in Seq(Nat) /\ Within(wire[backlog[i]], heard, said)
      BY <1>2, <1>6, <2>1, NoneAssumption DEF Across, OnWires
    <3>2. Below(Tail(wire[c]), wire[backlog[i]])
      BY <1>5, <3>1
    <3> QED BY <1>4, <1>6, <2>1, <3>2
  <2>3. \A i, j \in 1..Len(backlog) : i < j => Below(wire'[backlog[i]], wire'[backlog[j]])
    BY <1>4, <2>1 DEF Across
  <2> QED BY <1>1, <2>2, <2>3 DEF Across
<1> QED BY <1>3, <1>7, <1>8, <1>9, <1>10, <1>11, <1>12

(* What changes no message and no end. *)
LEMMA QuietInv ==
  ASSUME IpcInv, Respawn \/ HostStart \/ \E c \in Conns : PeerEnded(c) PROVE IpcInv' /\ heard' = heard
<1> USE DEF IpcInv
<1>1. /\ UNCHANGED <<sock, connected, pending, device, backlog, peerEnd, hostEnd, wire, said, heard>>
      /\ writable' = writable \/ writable' = FALSE
      /\ (alive' = alive /\ timers' = timers) \/ (sock = None /\ alive' = TRUE /\ timers' = 1)
      /\ hostUp' \in BOOLEAN
  <2>1. CASE Respawn
    BY <2>1 DEF Respawn, gui, net, OneSocket, IpcTypes
  <2>2. CASE HostStart
    BY <2>2 DEF HostStart, peer, net
  <2>3. ASSUME NEW c \in Conns, PeerEnded(c) PROVE hostUp' \in BOOLEAN /\ writable' = FALSE
                  /\ UNCHANGED <<alive, timers, sock, connected, pending, device, backlog, peerEnd, hostEnd, wire, said, heard>>
    BY <2>3 DEF PeerEnded, gui, net, IpcTypes
  <2> QED BY <2>1, <2>2, <2>3
<1>2. IpcTypes'
  BY <1>1 DEF IpcTypes
<1>3. OneSocket'
  BY <1>1 DEF OneSocket, IpcTypes
<1>4. BothEnds' /\ Backlog' /\ SockIsLast' /\ HeldBack' /\ OnWires' /\ Across'
  BY <1>1 DEF BothEnds, Backlog, SockIsLast, HeldBack, OnWires, Across
<1> QED BY <1>1, <1>2, <1>3, <1>4

(* Every step keeps the invariant, and hears nothing older. *)
LEMMA IpcStepInv == ASSUME IpcInv, [IpcNext]_ipcVars PROVE IpcInv' /\ (heard' # heard => heard' > heard)
<1>1. ASSUME NEW c \in Conns, Open(c) \/ Connect(c) \/ PeerClosed(c) \/ Accept(c) \/ HostClosed(c)
      PROVE  IpcInv' /\ heard' = heard
  <2>1. heard' = heard
    BY <1>1 DEF Open, Connect, PeerClosed, Accept, HostClosed
  <2> QED BY <1>1, <2>1, OpenInv, ConnectInv, PeerClosedInv, AcceptInv, HostClosedInv
<1>2. ASSUME Say \/ Die \/ HostQuit PROVE IpcInv' /\ heard' = heard
  <2>1. heard' = heard
    BY <1>2 DEF Say, Die, HostQuit
  <2> QED BY <1>2, <2>1, SayInv, DieInv, HostQuitInv
<1>3. ASSUME NEW c \in Conns, Frame(c) PROVE IpcInv' /\ heard' > heard
  <2>1. IpcInv' /\ heard < heard'
    BY <1>3, FrameInv
  <2>2. heard \in Nat /\ heard' \in Nat
    BY <2>1 DEF IpcInv, IpcTypes
  <2> QED BY <2>1, <2>2
<1>4. CASE UNCHANGED ipcVars
  <2>1. UNCHANGED <<alive, sock, connected, writable, pending, timers, hostUp, device, backlog,
                    peerEnd, hostEnd, wire, said, heard>>
    BY <1>4 DEF ipcVars, peer, gui, net
  <2>2. (IpcTypes /\ OneSocket /\ BothEnds)'
    BY <2>1 DEF IpcInv, IpcTypes, OneSocket, BothEnds
  <2>3. (Backlog /\ SockIsLast /\ HeldBack /\ OnWires /\ Across)'
    BY <2>1 DEF IpcInv, Backlog, SockIsLast, HeldBack, OnWires, Across
  <2> QED BY <2>1, <2>2, <2>3 DEF IpcInv
<1> QED BY <1>1, <1>2, <1>3, <1>4, QuietInv DEF IpcNext, PeerStep, HostStep

(* The GUI never hears an older message after a newer one: not across a      *)
(* reconnect, a new daemon, or what was held back (ipc-peer.js:63-77).       *)
THEOREM HeardInOrderHolds == IpcSpec => HeardInOrder
<1>1. IpcInv /\ [IpcNext]_ipcVars => IpcInv'
  BY IpcStepInv
<1>2. IpcInv /\ [IpcNext]_ipcVars => [heard' # heard => heard' > heard]_ipcVars
  BY IpcStepInv
<1> QED BY IpcInitInv, <1>1, <1>2, PTL DEF IpcSpec, HeardInOrder
=============================================================================

------------------------------ MODULE Lifecycle ------------------------------
(***************************************************************************)
(* The emulator's process from one power-up of the key to the next: pm2     *)
(* keeps a daemon running (ecosystem.config.js, lib/power.js); the daemon   *)
(* opens the key's storage and starts the firmware on a thread of its own   *)
(* (index.js, addon.cpp, ok_hal.cpp); a CPU_RESTART parks that thread and   *)
(* is a callback on the JavaScript thread (okemu_restart.cpp), which ends   *)
(* the process by SIGKILL (daemon.js).  A program run by hand on the same   *)
(* storage, as the tests are, may stop() instead: the storage is closed and  *)
(* the firmware's thread, which cannot be ended, runs on.                    *)
(*                                                                          *)
(* The storage is two files.  flash.bin is mapped into the firmware's       *)
(* memory; eeprom.bin is a copy in memory, written through and saved again  *)
(* at a shutdown.  The two threads meet there: Hal::mu is held by a factory *)
(* reset and by a byte of EEPROM, not by a shutdown nor by the flash.       *)
(***************************************************************************)
EXTENDS Naturals

CONSTANT MaxFaults   (* bound: kills, crashes and full disks in one behaviour *)

ASSUME FaultsAssumption == MaxFaults \in Nat

VARIABLES
  wanted,     (* pm2 is to keep it online                                    *)
  host,       (* what the process is, or was last: the daemon, a program by  *)
              (* hand, or such a program that has called stop()              *)
  proc,       (* the process: down; where its start is; up                   *)
  js,         (* its JavaScript thread, in or out of a factory reset or stop *)
  exiting,    (* shutdown() has run, SIGKILL is to come                      *)
  callback,   (* the restart callback is queued for it                       *)
  fw,         (* the firmware thread                                         *)
  mapped,     (* g.flash: flash.bin is mapped                                *)
  fd,         (* g.eeprom_fd: eeprom.bin is open                             *)
  ram,        (* g.eeprom                                                    *)
  file,       (* what each file holds                                        *)
  asked,      (* history: a restart was asked for, no firmware started since *)
  kept,       (* history: stored by the firmware, and by no reset erased     *)
  whole,      (* history: the reset found the flash mapped                   *)
  wiped,      (* history: the last reset has erased both                     *)
  faults

owner == <<wanted, host>>
process == <<proc, js, exiting, callback, fw>>
storage == <<mapped, fd, ram, file>>
history == <<asked, kept, whole, wiped>>
vars == <<owner, process, storage, history, faults>>

Stores == {"flash", "eeprom"}

(* A file is sized, reading as zeros, before it is filled with 0xFF.  What   *)
(* the firmware stored is old once a factory reset has begun after it.       *)
Contents == {"none", "zeros", "blank", "old", "new"}

TypeOK ==
  /\ wanted \in BOOLEAN /\ host \in {"daemon", "program", "stopped"} /\ exiting \in BOOLEAN /\ callback \in BOOLEAN
  /\ proc \in {"down", "flash", "fillFlash", "eeprom", "fillEeprom", "up"}
  /\ js \in {"free", "erase", "eeprom", "unmap"}
  /\ fw \in {"no", "running", "save", "unmap", "sink", "parked"}
  /\ mapped \in BOOLEAN /\ fd \in BOOLEAN
  /\ ram \in Contents /\ file \in [Stores -> Contents]
  /\ asked \in BOOLEAN /\ whole \in BOOLEAN /\ wiped \in BOOLEAN
  /\ kept \in [Stores -> BOOLEAN] /\ faults \in 0..MaxFaults

(* pm2 start, on a storage directory that is empty. *)
Init ==
  /\ wanted = TRUE /\ host = "daemon" /\ proc = "down" /\ js = "free"
  /\ exiting = FALSE /\ callback = FALSE /\ fw = "no"
  /\ mapped = FALSE /\ fd = FALSE
  /\ ram = "none" /\ file = [s \in Stores |-> "none"]
  /\ asked = FALSE /\ whole = FALSE /\ wiped = FALSE
  /\ kept = [s \in Stores |-> FALSE] /\ faults = 0

Fault == faults < MaxFaults /\ faults' = faults + 1

(* The process ends, in whatever way: its threads and its memory with it. *)
Ends ==
  /\ proc' = "down" /\ js' = "free" /\ exiting' = FALSE /\ callback' = FALSE /\ fw' = "no"
  /\ mapped' = FALSE /\ fd' = FALSE /\ ram' = "none"

-----------------------------------------------------------------------------
(* The supervisor *)

Spawn ==
  /\ wanted /\ proc = "down"
  /\ proc' = "flash" /\ host' = "daemon"
  /\ UNCHANGED <<wanted, js, exiting, callback, fw, storage, history, faults>>

(* pm2 stop: SIGINT, and SIGKILL kill_timeout later; its handler is set last *)
(* in the daemon's start, a process without it ends by the first.            *)
Pm2Stop ==
  /\ wanted
  /\ wanted' = FALSE
  /\ UNCHANGED <<host, process, storage, history, faults>>

Pm2Kill ==
  /\ ~wanted /\ proc # "down" /\ host = "daemon"
  /\ Ends
  /\ UNCHANGED <<owner, file, history, faults>>

Pm2Start ==
  /\ ~wanted /\ proc = "down"
  /\ wanted' = TRUE
  /\ UNCHANGED <<host, process, storage, history, faults>>

(* With no daemon, a program run by hand may open the storage (test/smoke.js *)
(* and test/taken.js: start, some messages, stop, exit).                     *)
RunByHand ==
  /\ ~wanted /\ proc = "down"
  /\ proc' = "flash" /\ host' = "program"
  /\ UNCHANGED <<wanted, js, exiting, callback, fw, storage, history, faults>>

ProgramExits ==
  /\ proc # "down" /\ host # "daemon"
  /\ Ends
  /\ UNCHANGED <<owner, file, history, faults>>

(* The process is killed, or crashes, or the machine goes down after its     *)
(* files were written.                                                       *)
Crash ==
  /\ proc # "down" /\ Fault
  /\ Ends
  /\ UNCHANGED <<owner, file, history>>

-----------------------------------------------------------------------------
(* The start: okemu_hal_init, then the firmware's thread *)

(* open_backing: a file of the right size is taken as it is. *)
Opened(s, at, fill, next) ==
  /\ proc = at
  /\ IF file[s] = "none"
     THEN proc' = fill /\ file' = [file EXCEPT ![s] = "zeros"]
     ELSE proc' = next /\ UNCHANGED file

OpenFlash ==
  /\ Opened("flash", "flash", "fillFlash", "eeprom")
  /\ mapped' = (file["flash"] # "none")
  /\ UNCHANGED <<owner, js, exiting, callback, fw, fd, ram, history, faults>>

FillFlash ==
  /\ proc = "fillFlash"
  /\ proc' = "eeprom"
  /\ file' = [file EXCEPT !["flash"] = "blank"]
  /\ mapped' = TRUE
  /\ UNCHANGED <<owner, js, exiting, callback, fw, fd, ram, history, faults>>

FirmwareStarts(eeprom) ==
  /\ fd' = TRUE /\ ram' = eeprom
  /\ fw' = "running" /\ asked' = FALSE

OpenEeprom ==
  /\ Opened("eeprom", "eeprom", "fillEeprom", "up")
  /\ IF file["eeprom"] = "none" THEN UNCHANGED <<fd, ram, fw, asked>>
     ELSE FirmwareStarts(file["eeprom"])
  /\ UNCHANGED <<owner, js, exiting, callback, mapped, kept, whole, wiped, faults>>

FillEeprom ==
  /\ proc = "fillEeprom"
  /\ proc' = "up"
  /\ file' = [file EXCEPT !["eeprom"] = "blank"]
  /\ FirmwareStarts("blank")
  /\ UNCHANGED <<owner, js, exiting, callback, mapped, kept, whole, wiped, faults>>

(* A file cannot be filled: start() throws, the daemon exits, pm2 respawns. *)
FillFails ==
  /\ proc \in {"fillFlash", "fillEeprom"} /\ Fault
  /\ Ends
  /\ UNCHANGED <<owner, file, history>>

-----------------------------------------------------------------------------
(* The firmware's thread *)

(* flashEraseSector and flashProgramWord, in the mapping. *)
StoreFlash ==
  /\ fw = "running" /\ mapped
  /\ file' = [file EXCEPT !["flash"] = "new"]
  /\ kept' = [kept EXCEPT !["flash"] = TRUE]
  /\ UNCHANGED <<owner, process, mapped, fd, ram, asked, whole, wiped, faults>>

(* okemu_eeprom_write, under Hal::mu: a byte, in memory and in the file; once *)
(* the program has stopped, in memory only, and not kept.                    *)
WriteRam == ram' = "new" /\ UNCHANGED file
WriteThrough == ram' = "new" /\ file' = [file EXCEPT !["eeprom"] = IF fd THEN "new" ELSE @]

StoreEeprom ==
  /\ fw = "running" /\ js \notin {"erase", "eeprom"}
  /\ WriteThrough
  /\ kept' = [kept EXCEPT !["eeprom"] = @ \/ host # "stopped"]
  /\ UNCHANGED <<owner, process, mapped, fd, asked, whole, wiped, faults>>

(* The flash was unmapped beneath it, by stop(): it may run into that.        *)
FlashFaults ==
  /\ fw = "running" /\ ~mapped
  /\ Ends
  /\ UNCHANGED <<owner, file, history, faults>>

(* CPU_RESTART: the store faults and the thread leaves the firmware. *)
CpuRestart ==
  /\ fw = "running"
  /\ fw' = "save"
  /\ asked' = TRUE
  /\ UNCHANGED <<owner, proc, js, exiting, callback, storage, kept, whole, wiped, faults>>

(* okemu_hal_shutdown, and the restart sink. *)
Parks(from, to) == fw = from /\ fw' = to /\ UNCHANGED <<proc, js, exiting>>

SaveEeprom ==
  /\ Parks("save", "unmap")
  /\ fd' = FALSE
  /\ file' = [file EXCEPT !["eeprom"] = IF fd THEN ram ELSE @]
  /\ UNCHANGED <<owner, callback, mapped, ram, history, faults>>

Unmap ==
  /\ Parks("unmap", "sink")
  /\ mapped' = FALSE
  /\ UNCHANGED <<owner, callback, fd, ram, file, history, faults>>

RestartSink ==
  /\ Parks("sink", "parked")
  /\ callback' = TRUE
  /\ UNCHANGED <<owner, storage, history, faults>>

-----------------------------------------------------------------------------
(* The JavaScript thread *)

Free == proc = "up" /\ js = "free"

(* shutdown(): the addon is not stopped first. *)
ShutDown ==
  exiting' = TRUE /\ UNCHANGED <<mapped, fd>>

OnRestart ==
  /\ Free /\ callback /\ host = "daemon"
  /\ callback' = FALSE
  /\ ShutDown
  /\ UNCHANGED <<owner, proc, js, fw, ram, file, history, faults>>

(* pm2's SIGINT, by its handler. *)
OnSignal ==
  /\ Free /\ ~wanted /\ ~exiting /\ host = "daemon"
  /\ ShutDown
  /\ UNCHANGED <<owner, proc, js, callback, fw, ram, file, history, faults>>

(* restartDevice, and a rebuild that succeeds. *)
RestartCommand ==
  /\ Free /\ ~exiting /\ host = "daemon"
  /\ ShutDown
  /\ asked' = TRUE
  /\ UNCHANGED <<owner, proc, js, callback, fw, ram, file, kept, whole, wiped, faults>>

Aged(content) == IF content = "new" THEN "old" ELSE content

(* factoryReset: okemu_factory_reset under Hal::mu, then the restart. *)
ResetBegins ==
  /\ Free /\ ~exiting /\ host = "daemon"
  /\ js' = IF mapped THEN "erase" ELSE "eeprom"
  /\ whole' = mapped /\ wiped' = FALSE
  /\ ram' = Aged(ram) /\ file' = [s \in Stores |-> Aged(file[s])]
  /\ kept' = [s \in Stores |-> FALSE]
  /\ UNCHANGED <<owner, proc, exiting, callback, fw, mapped, fd, asked, faults>>

(* memset on the mapping: gone meanwhile, it is a segmentation fault. *)
ResetFlash ==
  /\ js = "erase" /\ mapped
  /\ js' = "eeprom"
  /\ file' = [file EXCEPT !["flash"] = "blank"]
  /\ kept' = [kept EXCEPT !["flash"] = FALSE]
  /\ UNCHANGED <<owner, proc, exiting, callback, fw, mapped, fd, ram, asked, whole, wiped, faults>>

ResetFaults ==
  /\ js = "erase" /\ ~mapped
  /\ Ends
  /\ UNCHANGED <<owner, file, history, faults>>

BlankFile == file' = [file EXCEPT !["eeprom"] = IF fd THEN "blank" ELSE @] /\ UNCHANGED ram
BlankBoth == file' = [file EXCEPT !["eeprom"] = IF fd THEN "blank" ELSE @] /\ ram' = "blank"

ResetEeprom ==
  /\ js = "eeprom"
  /\ js' = "free"
  /\ BlankBoth
  /\ wiped' = (whole /\ fd)
  /\ asked' = TRUE
  /\ ShutDown
  /\ UNCHANGED <<owner, proc, callback, fw, kept, whole, faults>>

(* A program's stop(): okemu_hal_shutdown beside the firmware's thread,      *)
(* wherever that is, without Hal::mu.                                        *)
StopSave ==
  /\ Free /\ host = "program"
  /\ host' = "stopped" /\ js' = "unmap"
  /\ fd' = FALSE
  /\ file' = [file EXCEPT !["eeprom"] = IF fd THEN ram ELSE @]
  /\ UNCHANGED <<wanted, proc, exiting, callback, fw, mapped, ram, history, faults>>

StopUnmap ==
  /\ js = "unmap"
  /\ js' = "free"
  /\ mapped' = FALSE
  /\ UNCHANGED <<owner, proc, exiting, callback, fw, fd, ram, file, history, faults>>

(* SIGKILL from setImmediate: not process.exit(), whose teardown waits for   *)
(* the addon's callbacks and the firmware's thread.                          *)
ExitGraceful == fw = "parked"
ExitAbrupt == TRUE

Killed ==
  /\ Free /\ exiting
  /\ ExitAbrupt
  /\ Ends
  /\ UNCHANGED <<owner, file, history, faults>>

-----------------------------------------------------------------------------
StartStep == OpenFlash \/ FillFlash \/ OpenEeprom \/ FillEeprom
ParkStep == SaveEeprom \/ Unmap \/ RestartSink
JsStep == OnRestart \/ OnSignal \/ ResetFlash \/ ResetFaults \/ ResetEeprom \/ StopUnmap \/ Killed

Next ==
  \/ Spawn \/ Pm2Stop \/ Pm2Kill \/ Pm2Start \/ Crash \/ RunByHand \/ ProgramExits
  \/ StartStep \/ FillFails
  \/ StoreFlash \/ StoreEeprom \/ CpuRestart \/ FlashFaults \/ ParkStep
  \/ JsStep \/ RestartCommand \/ ResetBegins \/ StopSave

Spec == Init /\ [][Next]_vars

(* Threads run, and pm2 respawns what is to be online (autorestart, without  *)
(* a cap).                                                                   *)
FairSpec ==
  /\ Spec
  /\ WF_vars(Spawn) /\ WF_vars(StartStep) /\ WF_vars(ParkStep) /\ WF_vars(JsStep)

-----------------------------------------------------------------------------
(* Properties *)

(* "It loses nothing: eeprom writes are pwrite()n as they happen, and the    *)
(* flash mapping is MAP_SHARED file-backed" (daemon.js:224-226): what the    *)
(* firmware stored is in the files, however the process ends, until a        *)
(* factory reset; and the next firmware is given it.  A program's stop()     *)
(* beside the running firmware takes nothing back of what came before it.     *)
StoredIsKept ==
  /\ \A s \in Stores : kept[s] => file[s] = "new"
  /\ fw = "running" /\ kept["eeprom"] => ram = "new"

(* What was stored before a factory reset that erased both files does not    *)
(* come back, although the firmware runs on beside the reset and its         *)
(* shutdown saves the EEPROM once more.                                      *)
WipedStaysWiped == wiped => \A s \in Stores : file[s] # "old"

(* "A reboot must always actually reboot" (daemon.js:190): a restart, the    *)
(* firmware's or a host's, ends in a new firmware, if pm2 is to have one.    *)
Reboots == asked ~> (~asked \/ ~wanted)
=============================================================================

------------------------------- MODULE WinPipe -------------------------------
(***************************************************************************)
(* The pipe of one interface of the Windows driver (windows-driver/src/     *)
(* bridge.c, driver.c): a thread per device serves \\.\pipe\okvhid-N to one *)
(* client at a time; HIDCLASS's output reports are written into it by other *)
(* threads; PnP stops it when the device is released, and gives up on a     *)
(* thread that does not end in time; and the next device for the interface  *)
(* wants the same name, of which there is one instance.                     *)
(*                                                                          *)
(* A step is what a thread does between two points where another may come   *)
(* in: a system call, an interlocked exchange, a section under PipeLock.    *)
(* The named pipe is Windows' (external): an instance a client connects to, *)
(* busy from then on until its server's handle is closed.                   *)
(***************************************************************************)
EXTENDS Naturals, Sequences

CONSTANTS
  Devs,         (* devices of the interface, one present at a time           *)
  Socks,        (* the client's sockets (OkvhidLink)                         *)
  None,         (* no device; no client                                      *)
  Gone,         (* the client of an instance has closed its end              *)
  First,        (* the device there is at first                              *)
  MaxOut,       (* frames the pipe holds for a client that does not read     *)
  Bounds        (* bound: what a behaviour uses - the devices, how often one *)
                (* is started, the sockets; much of one, little of another   *)

ASSUME NoneAssumption == None \notin Devs \cup Socks /\ Gone \notin Socks /\ Gone # None
ASSUME SizesAssumption == First \in Devs /\ MaxOut \in Nat \ {0}
ASSUME BoundsAssumption ==
  Bounds \subseteq [devs : SUBSET Devs, starts : Nat \ {0}, socks : SUBSET Socks]

VARIABLES
  present,        (* no, yes, or failed: WdfDeviceSetFailed, to be removed   *)
  stopping,       (* PipeStopping, and StopEvent set                         *)
  thread,         (* PipeThread is not NULL                                  *)
  abandoned,      (* PipeAbandoned                                           *)
  starts,         (* devices started so far                                  *)
  bounds,         (* which of Bounds this behaviour keeps to                 *)
  listen,         (* ListenPipe is not NULL: the handle is to be claimed     *)
  pipeConnected,  (* PipeConnected                                           *)
  writing,        (* a HID thread holds PipeLock, its write under way        *)
  pc,             (* where the pipe thread is                                *)
  stopPc,         (* where OkvhidPipeStop is                                 *)
  inst,           (* the device whose handle is the pipe's one instance      *)
  peer,           (* the instance's client                                   *)
  out,            (* frames written to that client, to be read               *)
  to              (* per client: frames written by it, to be read            *)

pnp == <<present, stopping, thread, abandoned, starts, stopPc, bounds>>
conn == <<listen, pipeConnected, writing>>
os == <<inst, peer, out, to>>
driver == <<pnp, conn, pc, os>>

Frames == {"hello", "output"}
Clients == Socks \cup {Gone}

PipeTypeOK ==
  /\ \A f \in {stopping, thread, abandoned, listen, pipeConnected, writing} :
       f \in [Devs -> BOOLEAN]
  /\ present \in [Devs -> {"no", "yes", "failed"}] /\ bounds \in Bounds /\ starts \in 1..bounds.starts
  /\ pc \in [Devs -> {"none", "create", "busy", "publish", "accept", "hello", "read",
                      "deliver", "unpublish", "claim", "close", "exit"}]
  /\ stopPc \in [Devs -> {"no", "wait", "claim", "close"}]
  /\ inst \in Devs \cup {None} /\ peer \in Clients \cup {None}
  /\ out \in Seq(Frames) /\ Len(out) <= MaxOut
  /\ to \in [Clients -> Seq({"input", "unplug"})]

Nowhere == [d \in Devs |-> FALSE]

(* One device has just been created, its pipe thread started. *)
PipeInit ==
  /\ bounds \in Bounds
  /\ present = [d \in Devs |-> IF d = First THEN "yes" ELSE "no"]
  /\ thread = [d \in Devs |-> d = First]
  /\ pc = [d \in Devs |-> IF d = First THEN "create" ELSE "none"]
  /\ starts = 1
  /\ stopping = Nowhere /\ abandoned = Nowhere /\ stopPc = [d \in Devs |-> "no"]
  /\ listen = Nowhere /\ pipeConnected = Nowhere /\ writing = Nowhere
  /\ inst = None /\ peer = None /\ out = <<>>
  /\ to = [c \in Clients |-> <<>>]

Goes(d, from, at) == pc[d] = from /\ pc' = [pc EXCEPT ![d] = at]
Set(f, d) == f' = [f EXCEPT ![d] = TRUE]
Clear(f, d) == f' = [f EXCEPT ![d] = FALSE]

LockFree(d) == ~writing[d]

(* d's handle is closed: the instance is gone and its client cut off. *)
CloseHandle(d) ==
  /\ inst' = None /\ peer' = None /\ out' = <<>>
  /\ to' = IF peer = None THEN to ELSE [to EXCEPT ![peer] = <<>>]
HandleOpen(d) == inst = d

-----------------------------------------------------------------------------
(* OkvhidPipeThread *)

(* The loop's test, at the end of what comes before it. *)
Round(d) == IF stopping[d] THEN "exit" ELSE "create"

(* CreateNamedPipe: one instance of the name. *)
Create(d) ==
  /\ Goes(d, "create", IF inst = None THEN "publish" ELSE "busy")
  /\ inst' = IF inst = None THEN d ELSE inst
  /\ UNCHANGED <<pnp, conn, peer, out, to>>

(* 500 ms, or the stop event. *)
Busy(d) ==
  /\ Goes(d, "busy", Round(d))
  /\ UNCHANGED <<pnp, conn, os>>

Publish(d) ==
  /\ Goes(d, "publish", "accept")
  /\ Set(listen, d)
  /\ UNCHANGED <<pnp, pipeConnected, writing, os>>

(* OkvhidPipeAccept: a client, or the stop event, or no handle any more. *)
Accepted(d) ==
  /\ HandleOpen(d) /\ peer # None
  /\ Goes(d, "accept", "hello")
  /\ UNCHANGED <<pnp, conn, os>>

NotAccepted(d) ==
  /\ stopping[d] \/ ~HandleOpen(d)
  /\ Goes(d, "accept", "claim")
  /\ UNCHANGED <<pnp, conn, os>>

(* A frame is written: a client that is gone, or a handle that is closed,    *)
(* takes none.                                                               *)
Reachable(d) == HandleOpen(d) /\ peer \in Socks
Wrote(f) == out' = Append(out, f)

(* The frame loop's test, at the end of what comes before it. *)
NextFrame(d) == IF stopping[d] THEN "unpublish" ELSE "read"

(* The handle is published (Pipe: from here to "unpublish") and greeted      *)
(* under one hold of PipeLock.                                               *)
Hello(d) ==
  /\ LockFree(d)
  /\ Goes(d, "hello", NextFrame(d))
  /\ Set(pipeConnected, d)
  /\ IF Reachable(d) THEN Wrote("hello") ELSE UNCHANGED out
  /\ UNCHANGED <<pnp, listen, writing, inst, peer, to>>

(* The frame loop: an input report is delivered (WinRing) - which may take   *)
(* as long as it likes - and an unplug fails the device.                     *)
Frame(d) == HandleOpen(d) /\ peer # None /\ to[peer] # <<>>
Reads(d, frame) ==
  /\ Frame(d) /\ Head(to[peer]) = frame
  /\ to' = [to EXCEPT ![peer] = Tail(@)]
  /\ UNCHANGED <<conn, inst, peer, out>>

ReadInput(d) ==
  /\ Goes(d, "read", "deliver")
  /\ Reads(d, "input")
  /\ UNCHANGED pnp

ReadUnplug(d) ==
  /\ Goes(d, "read", NextFrame(d))
  /\ Reads(d, "unplug")
  /\ present' = IF present[d] = "yes" THEN [present EXCEPT ![d] = "failed"] ELSE present
  /\ UNCHANGED <<stopping, thread, abandoned, starts, stopPc, bounds>>

Delivered(d) ==
  /\ Goes(d, "deliver", NextFrame(d))
  /\ UNCHANGED <<pnp, conn, os>>

(* The client is gone and all it wrote is read, or the stop event. *)
ReadEnds(d) ==
  /\ stopping[d] \/ (~Reachable(d) /\ ~Frame(d))
  /\ Goes(d, "read", "unpublish")
  /\ UNCHANGED <<pnp, conn, os>>

Unpublish(d) ==
  /\ LockFree(d)
  /\ Goes(d, "unpublish", "claim")
  /\ Clear(pipeConnected, d)
  /\ UNCHANGED <<pnp, listen, writing, os>>

(* OkvhidClaimListen: who takes the handle closes it. *)
TakePeeking(d) == UNCHANGED listen
Take(d) == Clear(listen, d)

Claim(d) ==
  /\ Goes(d, "claim", IF listen[d] THEN "close" ELSE Round(d))
  /\ Take(d)
  /\ UNCHANGED <<pnp, pipeConnected, writing, os>>

Close(d) ==
  /\ Goes(d, "close", Round(d))
  /\ IF HandleOpen(d) THEN CloseHandle(d) ELSE UNCHANGED os
  /\ UNCHANGED <<pnp, conn>>

-----------------------------------------------------------------------------
(* OkvhidDeliverOutput, on a HIDCLASS thread *)

WriteBegin(d) ==
  /\ LockFree(d) /\ pipeConnected[d]
  /\ Set(writing, d)
  /\ UNCHANGED <<pnp, listen, pipeConnected, pc, os>>

WriteDone(d) ==
  /\ writing[d] /\ Reachable(d) /\ Len(out) < MaxOut
  /\ Wrote("output")
  /\ Clear(writing, d)
  /\ UNCHANGED <<pnp, listen, pipeConnected, pc, inst, peer, to>>

(* It fails, or 250 ms pass with the pipe full. *)
WriteFails(d) ==
  /\ writing[d] /\ (Reachable(d) => Len(out) >= MaxOut)
  /\ Clear(writing, d) /\ Clear(pipeConnected, d)
  /\ UNCHANGED <<pnp, listen, pc, os>>

-----------------------------------------------------------------------------
(* PnP: OkvhidEvtDevicePrepareHardware and ReleaseHardware *)

(* A device is started: a new one, or one that was only stopped.  It gets a  *)
(* pipe thread unless one of its context was abandoned.                      *)
MayStart(d) == ~thread[d] /\ ~abandoned[d]

Prepare(d) ==
  /\ d \in bounds.devs
  /\ starts < bounds.starts /\ starts' = starts + 1
  /\ \A e \in Devs : present[e] = "no" /\ stopPc[e] = "no"
  /\ present' = [present EXCEPT ![d] = "yes"]
  /\ IF MayStart(d)
     THEN /\ Clear(stopping, d) /\ Set(thread, d)
          /\ pc' = [pc EXCEPT ![d] = "create"]
     ELSE UNCHANGED <<stopping, thread, pc>>
  /\ UNCHANGED <<abandoned, stopPc, bounds, conn, os>>

(* OkvhidPipeStop: signal, and wait. *)
Release(d) ==
  /\ present[d] # "no"
  /\ present' = [present EXCEPT ![d] = "no"]
  /\ IF thread[d]
     THEN Set(stopping, d) /\ stopPc' = [stopPc EXCEPT ![d] = "wait"]
     ELSE UNCHANGED <<stopping, stopPc>>
  /\ UNCHANGED <<thread, abandoned, starts, bounds, conn, pc, os>>

Stops(d, from, at) ==
  /\ stopPc[d] = from /\ stopPc' = [stopPc EXCEPT ![d] = at]
  /\ UNCHANGED <<present, stopping, starts, bounds, pc>>

StopJoins(d) ==
  /\ pc[d] = "exit"
  /\ Stops(d, "wait", "no")
  /\ Clear(thread, d)
  /\ UNCHANGED <<abandoned, conn, os>>

(* 3 s: the thread is abandoned and the name taken back from it. *)
StopForsakes(d) ==
  /\ pc[d] # "exit"
  /\ Stops(d, "wait", "no")
  /\ Clear(thread, d) /\ Set(abandoned, d)
  /\ UNCHANGED <<conn, os>>
StopGivesUp(d) ==
  /\ pc[d] # "exit"
  /\ Stops(d, "wait", IF listen[d] THEN "close" ELSE "no")
  /\ Take(d)
  /\ Clear(thread, d) /\ Set(abandoned, d)
  /\ UNCHANGED <<pipeConnected, writing, os>>

StopCloses(d) ==
  /\ Stops(d, "close", "no")
  /\ IF HandleOpen(d) THEN CloseHandle(d) ELSE UNCHANGED os
  /\ UNCHANGED <<thread, abandoned, conn>>

-----------------------------------------------------------------------------
(* The thread is taken to run on, but for the time a delivery takes; whoever *)
(* waits for PipeLock gets it, however busy the host keeps it.               *)
ThreadStep(d) ==
  \/ Create(d) \/ Busy(d) \/ Publish(d) \/ Accepted(d) \/ NotAccepted(d)
  \/ Hello(d) \/ ReadInput(d) \/ ReadUnplug(d) \/ ReadEnds(d)
  \/ Unpublish(d) \/ Claim(d) \/ Close(d)
WriterStep(d) == WriteDone(d) \/ WriteFails(d)
StopStep(d) == StopJoins(d) \/ StopGivesUp(d) \/ StopCloses(d)

DriverNext ==
  \E d \in Devs :
    \/ ThreadStep(d) \/ Delivered(d)
    \/ WriteBegin(d) \/ WriterStep(d)
    \/ Prepare(d) \/ Release(d) \/ StopStep(d)

DriverFairness ==
  \A d \in Devs : SF_driver(ThreadStep(d)) /\ WF_driver(WriterStep(d)) /\ WF_driver(StopStep(d))

-----------------------------------------------------------------------------
(* Properties *)

(* "The two sides never both close it" (bridge.c:417): while a device's      *)
(* handle is open exactly one party is going to close it - the thread before *)
(* it publishes it, ListenPipe for whoever claims it, the thread or the stop *)
(* once it has - and when it is closed, nobody is.                           *)
B(condition) == IF condition THEN 1 ELSE 0
Closers(d) ==
  B(pc[d] = "publish") + B(listen[d]) + B(pc[d] = "close") + B(stopPc[d] = "close")
OneCloser == \A d \in Devs : Closers(d) = B(inst = d)

(* "The name is what the NEXT device for this interface needs" (bridge.c:    *)
(* 619-622): a released device lets go of it, its thread wedged or not, so a *)
(* device that stays gets to serve it.                                       *)
NameComesFree == \A d \in Devs : (present[d] = "no" /\ inst = d) ~> (present[d] # "no" \/ inst # d)
=============================================================================

------------------------------ MODULE WinRing -------------------------------
(***************************************************************************)
(* The inbound half of the Windows driver (windows-driver/src/bridge.c and  *)
(* hid.c): the pipe thread rings every report the emulator sends, and       *)
(* HIDCLASS's read requests arrive on parallel threads, each of which takes *)
(* a report from the ring or parks its request on a manual queue.  Matching *)
(* parked requests with ringed reports is done by whichever thread comes    *)
(* last.  The spin lock's critical sections are the actions; parking and    *)
(* completing a request happen outside it.                                  *)
(*                                                                          *)
(* A report is its number.  Requests are alike, so the parked ones are a    *)
(* count; their buffers hold any report, as HIDCLASS sizes them from the    *)
(* descriptor the emulator's reports are cut to.                            *)
(***************************************************************************)
EXTENDS Naturals

CONSTANTS
  Readers,     (* driver threads that serve IOCTL_HID_READ_REPORT            *)
  Pipe,        (* the pipe thread                                            *)
  Depth,       (* OKVHID_RING_DEPTH                                          *)
  MaxReads,    (* read requests HIDCLASS keeps outstanding                   *)
  MaxReports   (* bound: reports pushed in one behaviour                     *)

ASSUME ThreadsAssumption == Pipe \notin Readers
ASSUME RingAssumption ==
  Depth \in Nat \ {0} /\ MaxReads \in Nat \ {0} /\ MaxReports \in Nat

Threads == Readers \cup {Pipe}
Slots == 0..(Depth - 1)

VARIABLES
  items,    (* the ring's slots                                              *)
  head,     (* next slot to write                                            *)
  count,    (* reports in the ring                                           *)
  parked,   (* requests on ReadReportQueue                                   *)
  free,     (* requests HIDCLASS has in hand                                 *)
  step,     (* where each thread is; own, parked: about to complete its own  *)
            (* request, or one from the queue                                *)
  hand,     (* the report a thread is about to complete a request with       *)
  pushed,   (* history: reports the emulator has sent                        *)
  dropped,  (* history: those an overflow overwrote (Dropped counts them)    *)
  read      (* history: those the host has read                              *)

ring == <<items, head, count>>
ringVars == <<ring, parked, free, step, hand, pushed, dropped, read>>

RingTypeOK ==
  /\ items \in [Slots -> 0..MaxReports]
  /\ head \in Slots
  /\ count \in 0..Depth
  /\ parked \in 0..MaxReads
  /\ free \in 0..MaxReads
  /\ step \in [Threads -> {"idle", "pop", "own", "park", "drain", "parked"}]
  /\ hand \in [Threads -> 0..MaxReports]
  /\ pushed \in 0..MaxReports
  /\ dropped \subseteq 1..MaxReports
  /\ read \subseteq 1..MaxReports

RingInit ==
  /\ items = [s \in Slots |-> 0]
  /\ head = 0
  /\ count = 0
  /\ parked = 0
  /\ free = MaxReads
  /\ step = [t \in Threads |-> "idle"]
  /\ hand = [t \in Threads |-> 0]
  /\ pushed = 0
  /\ dropped = {}
  /\ read = {}

(* i % OKVHID_RING_DEPTH for an index at most one lap ahead *)
Slot(i) == IF i < Depth THEN i ELSE i - Depth

(* The oldest entry sits count slots behind head. *)
Oldest == Slot(head + Depth - count)

-----------------------------------------------------------------------------
PushOver ==
  /\ step[Pipe] = "idle"
  /\ pushed < MaxReports
  /\ pushed' = pushed + 1
  /\ items' = [items EXCEPT ![head] = pushed + 1]
  /\ head' = Slot(head + 1)
  /\ count' = count + 1
  /\ UNCHANGED dropped
  /\ step' = [step EXCEPT ![Pipe] = "drain"]
  /\ UNCHANGED <<parked, free, hand, read>>
(* OkvhidDeliverInput, on the pipe thread: ring first, then drain.  A full   *)
(* ring overwrites its oldest report.                                        *)
Push ==
  /\ step[Pipe] = "idle"
  /\ pushed < MaxReports
  /\ pushed' = pushed + 1
  /\ items' = [items EXCEPT ![head] = pushed + 1]
  /\ head' = Slot(head + 1)
  /\ IF count = Depth
     THEN dropped' = dropped \cup {items[Oldest]} /\ UNCHANGED count
     ELSE count' = count + 1 /\ UNCHANGED dropped
  /\ step' = [step EXCEPT ![Pipe] = "drain"]
  /\ UNCHANGED <<parked, free, hand, read>>

(* OkvhidReadReport, on a reader: a new request comes down. *)
Issue(t) ==
  /\ step[t] = "idle"
  /\ free > 0
  /\ free' = free - 1
  /\ step' = [step EXCEPT ![t] = "pop"]
  /\ UNCHANGED <<ring, parked, hand, pushed, dropped, read>>

PopPeeks(t) ==
  /\ hand' = [hand EXCEPT ![t] = items[Oldest]]
  /\ UNCHANGED count
(* OkvhidRingPopLocked into thread t's hands. *)
Pop(t) ==
  /\ hand' = [hand EXCEPT ![t] = items[Oldest]]
  /\ count' = count - 1

TryPopInput(t) ==
  /\ step[t] = "pop"
  /\ IF count > 0
     THEN Pop(t) /\ step' = [step EXCEPT ![t] = "own"]
     ELSE step' = [step EXCEPT ![t] = "park"] /\ UNCHANGED <<count, hand>>
  /\ UNCHANGED <<items, head, parked, free, pushed, dropped, read>>

ParkAndLeave(t) ==
  /\ step[t] = "park"
  /\ parked' = parked + 1
  /\ step' = [step EXCEPT ![t] = "idle"]
  /\ UNCHANGED <<ring, free, hand, pushed, dropped, read>>
(* The ring was empty: the request joins the manual queue, and the reader    *)
(* drains for a report that landed meanwhile.                                *)
Park(t) ==
  /\ step[t] = "park"
  /\ parked' = parked + 1
  /\ step' = [step EXCEPT ![t] = "drain"]
  /\ UNCHANGED <<ring, free, hand, pushed, dropped, read>>

(* One round of OkvhidDrain's loop: with a report and a request, both are    *)
(* taken under the lock; without, the thread is done.                        *)
DrainOnce(t) ==
  /\ step[t] = "drain"
  /\ IF count > 0 /\ parked > 0
     THEN /\ parked' = parked - 1
          /\ Pop(t)
          /\ step' = [step EXCEPT ![t] = "parked"]
     ELSE /\ step' = [step EXCEPT ![t] = "idle"]
          /\ UNCHANGED <<count, parked, hand>>
  /\ UNCHANGED <<items, head, free, pushed, dropped, read>>

(* The request is completed with the lock dropped, and HIDCLASS may issue it *)
(* again: a reader completes its own and is done, the drain loop completes a *)
(* parked one and goes round.                                                *)
Complete(t) ==
  /\ step[t] \in {"own", "parked"}
  /\ read' = read \cup {hand[t]}
  /\ hand' = [hand EXCEPT ![t] = 0]
  /\ free' = free + 1
  /\ step' = [step EXCEPT ![t] = IF step[t] = "own" THEN "idle" ELSE "drain"]
  /\ UNCHANGED <<ring, parked, pushed, dropped>>

(* An application goes away: the framework cancels a parked request. *)
Cancel ==
  /\ parked > 0
  /\ parked' = parked - 1
  /\ free' = free + 1
  /\ UNCHANGED <<ring, step, hand, pushed, dropped, read>>

-----------------------------------------------------------------------------
Step(t) == DrainOnce(t) \/ Complete(t)
ReaderStep(t) == TryPopInput(t) \/ Park(t)

RingNext ==
  \/ Push
  \/ Cancel
  \/ \E t \in Readers : Issue(t) \/ ReaderStep(t)
  \/ \E t \in Threads : Step(t)

RingSpec == RingInit /\ [][RingNext]_ringVars

(* A thread in the driver runs, and HIDCLASS keeps a read outstanding while  *)
(* the device is open.                                                       *)
RingFairSpec ==
  /\ RingSpec
  /\ \A t \in Threads : WF_ringVars(Step(t))
  /\ \A t \in Readers : WF_ringVars(ReaderStep(t))
  /\ WF_ringVars(\E t \in Readers : Issue(t))

-----------------------------------------------------------------------------
(* Properties *)

(* Every report sent is in one place: still in the ring, in one thread's     *)
(* hands, read by the host, or overwritten.  None is read twice, none is     *)
(* lost between two threads, whichever completes first.                      *)
InHand == {hand[t] : t \in {u \in Threads : step[u] \in {"own", "parked"}}}

EveryReportOnce ==
  /\ read \cup InHand \cup dropped = 1..(pushed - count)
  /\ read \cap InHand = {} /\ read \cap dropped = {} /\ InHand \cap dropped = {}
  /\ \A t, u \in Threads : t # u /\ hand[t] # 0 => hand[t] # hand[u]

(* While the host reads, every report that no overflow overwrote arrives.    *)
ReportsArrive ==
  \A n \in 1..MaxReports : pushed >= n ~> n \in read \cup dropped
=============================================================================

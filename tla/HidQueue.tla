------------------------------ MODULE HidQueue ------------------------------
(***************************************************************************)
(* The host -> device half of the HAL: emulator/src/ok_hal.cpp keeps every  *)
(* inbound report of both HID interfaces in one deque, hid_in, under the    *)
(* HAL mutex.  Host threads push into it, the firmware thread pulls from    *)
(* it - FIDO reports first - and a host thread that wrote a vendor report   *)
(* may block until the firmware has taken that very report (a TICKET).      *)
(*                                                                          *)
(* One action is one critical section of the mutex.  A wait on a condition  *)
(* variable releases the mutex, so a blocked thread is a state of its own.  *)
(***************************************************************************)
EXTENDS Naturals, Sequences, SequencesExt

CONSTANTS
  Callers,     (* host threads: the JS thread, its workers, the JNI executor *)
  MaxVendor,   (* bound: vendor reports pushed in one behaviour              *)
  MaxFido,     (* bound: FIDO reports pushed in one behaviour                *)
  MaxSeremu    (* bound: SEREMU bytes pushed in one behaviour                *)

ASSUME BoundsAssumption ==
  /\ MaxVendor \in Nat
  /\ MaxFido \in Nat
  /\ MaxSeremu \in Nat

VARIABLES
  hid_in,         (* the deque: its entries, oldest first                    *)
  vendor_pushed,  (* vendor reports ever queued; also the newest ticket      *)
  vendor_taken,   (* vendor reports taken - or flushed                       *)
  seremu_in,      (* bytes for the firmware's debug console                  *)
  fw,             (* where the firmware thread is                            *)
  pc,             (* where each host thread is                               *)
  ticket,         (* what okemu_hid_deliver_ticket handed back; 0: none      *)
  waits,          (* will the thread call okemu_hid_wait_taken?              *)
  answer,         (* what okemu_hid_wait_taken returned                      *)
  pushed,         (* history: reports (or bytes) pushed on each interface    *)
  log,            (* history: the reports the firmware received, in order    *)
  wipeMark        (* history: `pushed` when the last wipe began              *)

vars == <<hid_in, vendor_pushed, vendor_taken, seremu_in, fw, pc, ticket,
          waits, answer, pushed, log, wipeMark>>

hostVars == <<pc, ticket, waits, answer>>

HidIfaces == {"fido", "vendor"}
Ifaces == HidIfaces \cup {"seremu"}

(* An inbound report; seq numbers the reports of one interface.  For a      *)
(* vendor report that number IS its ticket.                                 *)
InPkt == [iface : HidIfaces, seq : Nat]

Limit == [fido |-> MaxFido, vendor |-> MaxVendor, seremu |-> MaxSeremu]

TypeOK ==
  /\ hid_in \in Seq(InPkt)
  /\ vendor_pushed \in 0..MaxVendor
  /\ vendor_taken \in 0..vendor_pushed
  /\ seremu_in \in Seq(Nat)
  /\ fw \in {"loop", "asleep", "woken", "wiping"}
  /\ pc \in [Callers -> {"idle", "notify", "wait", "asleep", "done"}]
  /\ ticket \in [Callers -> 0..MaxVendor]
  /\ waits \in [Callers -> BOOLEAN]
  /\ answer \in [Callers -> BOOLEAN]
  /\ pushed \in [Ifaces -> Nat]
  /\ log \in Seq(InPkt)
  /\ wipeMark \in [Ifaces -> Nat]

Init ==
  /\ hid_in = <<>>
  /\ vendor_pushed = 0
  /\ vendor_taken = 0
  /\ seremu_in = <<>>
  /\ fw = "loop"
  /\ pc = [c \in Callers |-> "idle"]
  /\ ticket = [c \in Callers |-> 0]
  /\ waits = [c \in Callers |-> FALSE]
  /\ answer = [c \in Callers |-> FALSE]
  /\ pushed = [i \in Ifaces |-> 0]
  /\ log = <<>>
  /\ wipeMark = [i \in Ifaces |-> 0]

-----------------------------------------------------------------------------
(* Host threads *)

(* SEREMU input is bytes, not reports: no ticket, and nobody to notify.  A   *)
(* SEREMU write leaves the critical section with its call complete.          *)
DeliverSeremu(c) ==
  /\ pc[c] = "idle"
  /\ pushed["seremu"] < Limit["seremu"]
  /\ pushed' = [pushed EXCEPT !["seremu"] = @ + 1]
  /\ seremu_in' = Append(seremu_in, pushed["seremu"] + 1)
  /\ UNCHANGED <<hid_in, vendor_pushed, vendor_taken, fw, hostVars, log, wipeMark>>

(* The push, under the mutex; the notify comes after the mutex is released.  *)
(* w: the call is writeHidTaken / nativeWriteHid, which go on to wait, or    *)
(* sendHid, which does not.                                                  *)
Deliver(c, iface, w) ==
  /\ pc[c] = "idle"
  /\ pushed[iface] < Limit[iface]
  /\ pushed' = [pushed EXCEPT ![iface] = @ + 1]
  /\ hid_in' = Append(hid_in, [iface |-> iface, seq |-> pushed[iface] + 1])
  /\ vendor_pushed' = IF iface = "vendor" THEN vendor_pushed + 1 ELSE vendor_pushed
  /\ ticket' = [ticket EXCEPT ![c] = IF iface = "vendor" THEN vendor_pushed + 1 ELSE 0]
  /\ waits' = [waits EXCEPT ![c] = w]
  /\ pc' = [pc EXCEPT ![c] = "notify"]
  /\ UNCHANGED <<vendor_taken, seremu_in, fw, answer, log, wipeMark>>

(* hid_cv.notify_one(), after the mutex is released; a call that does not    *)
(* wait is over, and its locals with it.                                     *)
Notify(c) ==
  /\ pc[c] = "notify"
  /\ fw' = IF fw = "asleep" THEN "woken" ELSE fw
  /\ pc' = [pc EXCEPT ![c] = IF waits[c] THEN "wait" ELSE "idle"]
  /\ ticket' = [ticket EXCEPT ![c] = IF waits[c] THEN @ ELSE 0]
  /\ waits' = [waits EXCEPT ![c] = FALSE]
  /\ UNCHANGED <<hid_in, vendor_pushed, vendor_taken, seremu_in, answer, pushed,
                 log, wipeMark>>

(* The predicate okemu_hid_wait_taken waits for. *)
QueuedIsEnough(c) == ticket[c] <= vendor_pushed
TicketReached(c) == ticket[c] = 0 \/ vendor_taken >= ticket[c]

(* The waiter holds the mutex: on entry, and again after every notify. *)
WaitTaken(c) ==
  /\ pc[c] = "wait"
  /\ IF TicketReached(c)
     THEN /\ pc' = [pc EXCEPT ![c] = "done"]
          /\ answer' = [answer EXCEPT ![c] = TRUE]
     ELSE /\ pc' = [pc EXCEPT ![c] = "asleep"]
          /\ UNCHANGED answer
  /\ UNCHANGED <<hid_in, vendor_pushed, vendor_taken, seremu_in, fw, ticket,
                 waits, pushed, log, wipeMark>>

(* The deadline: wait_for evaluates the predicate once more, and that value  *)
(* is what the caller gets.                                                  *)
Deadline(c) ==
  /\ pc[c] = "asleep"
  /\ pc' = [pc EXCEPT ![c] = "done"]
  /\ answer' = [answer EXCEPT ![c] = TicketReached(c)]
  /\ UNCHANGED <<hid_in, vendor_pushed, vendor_taken, seremu_in, fw, ticket,
                 waits, pushed, log, wipeMark>>

(* The promise is resolved on the JS thread (JNI: the write returns). *)
Settle(c) ==
  /\ pc[c] = "done"
  /\ pc' = [pc EXCEPT ![c] = "idle"]
  /\ ticket' = [ticket EXCEPT ![c] = 0]
  /\ answer' = [answer EXCEPT ![c] = FALSE]
  /\ UNCHANGED <<hid_in, vendor_pushed, vendor_taken, seremu_in, fw, waits,
                 pushed, log, wipeMark>>

-----------------------------------------------------------------------------
(* The firmware thread *)

(* hid_taken_cv.notify_all(): every sleeping waiter re-checks its predicate. *)
WakeNobody == UNCHANGED pc
WakeWaiters == pc' = [c \in Callers |-> IF pc[c] = "asleep" THEN "wait" ELSE pc[c]]

(* The entry okemu_hid_recv picks: the oldest FIDO report, else the front.   *)
NextIsFront(i) == i = 1
NextIsBack(i) == i = Len(hid_in) /\ i # 0
IsNext(i) ==
  /\ i \in 1..Len(hid_in)
  /\ \/ /\ hid_in[i].iface = "fido"
        /\ \A j \in 1..(i - 1) : hid_in[j].iface # "fido"
     \/ /\ i = 1
        /\ \A j \in 1..Len(hid_in) : hid_in[j].iface # "fido"

(* The packet leaves the deque; a vendor report counts as taken at once, and *)
(* before the firmware has processed it.                                     *)
Take ==
  \E i \in 1..Len(hid_in) :
    /\ IsNext(i)
    /\ hid_in' = RemoveAt(hid_in, i)
    /\ log' = Append(log, hid_in[i])
    /\ IF hid_in[i].iface = "vendor"
       THEN /\ vendor_taken' = vendor_taken + 1
            /\ WakeWaiters
       ELSE UNCHANGED <<vendor_taken, pc>>

(* okemu_hid_recv: a poll, or a wait that was notified; either way the       *)
(* predicate is evaluated under the mutex.                                   *)
Recv ==
  /\ fw \in {"loop", "woken"}
  /\ Take
  /\ fw' = "loop"
  /\ UNCHANGED <<vendor_pushed, seremu_in, ticket, waits, answer, pushed, wipeMark>>

(* Nothing queued and a timeout to wait out: the thread sleeps on hid_cv. A  *)
(* notify for a report someone else removed puts it back to sleep.           *)
RecvSleep ==
  /\ fw \in {"loop", "woken"}
  /\ hid_in = <<>>
  /\ fw' = "asleep"
  /\ UNCHANGED <<hid_in, vendor_pushed, vendor_taken, seremu_in, hostVars,
                 pushed, log, wipeMark>>

(* The timeout: a report that is there by now is still returned. *)
RecvTimeout ==
  /\ fw \in {"asleep", "woken"}
  /\ fw' = "loop"
  /\ IF hid_in = <<>>
     THEN UNCHANGED <<hid_in, vendor_taken, log, pc>>
     ELSE Take
  /\ UNCHANGED <<vendor_pushed, seremu_in, ticket, waits, answer, pushed, wipeMark>>

(* Serial.read(). *)
SeremuGetc ==
  /\ fw = "loop"
  /\ seremu_in # <<>>
  /\ seremu_in' = Tail(seremu_in)
  /\ UNCHANGED <<hid_in, vendor_pushed, vendor_taken, fw, hostVars, pushed,
                 log, wipeMark>>

(* wipe_usb_buffer() on the unlock path: two critical sections, and a host   *)
(* thread may push between them.                                             *)
FlushInQuiet ==
  /\ hid_in' = <<>>
  /\ vendor_taken' = vendor_pushed
  /\ WakeNobody
FlushInForgets ==
  /\ hid_in' = <<>>
  /\ UNCHANGED <<vendor_taken, pc>>
FlushInFido ==
  /\ hid_in' = SelectSeq(hid_in, LAMBDA p : p.iface = "vendor")
  /\ UNCHANGED <<vendor_taken, pc>>
FlushIn ==
  /\ hid_in' = <<>>
  /\ vendor_taken' = vendor_pushed
  /\ WakeWaiters

WipeHid ==
  /\ fw = "loop"
  /\ fw' = "wiping"
  /\ FlushIn
  /\ wipeMark' = pushed
  /\ UNCHANGED <<vendor_pushed, seremu_in, ticket, waits, answer, pushed, log>>

WipeSeremu ==
  /\ fw = "wiping"
  /\ fw' = "loop"
  /\ seremu_in' = <<>>
  /\ UNCHANGED <<hid_in, vendor_pushed, vendor_taken, hostVars, pushed, log, wipeMark>>

-----------------------------------------------------------------------------
Firmware == Recv \/ RecvSleep \/ RecvTimeout \/ SeremuGetc \/ WipeHid \/ WipeSeremu

Host(c) ==
  \/ DeliverSeremu(c)
  \/ \E iface \in HidIfaces, w \in BOOLEAN : Deliver(c, iface, w)
  \/ Notify(c)
  \/ WaitTaken(c)
  \/ Deadline(c)
  \/ Settle(c)

Next == Firmware \/ \E c \in Callers : Host(c)

Spec == Init /\ [][Next]_vars

(* The firmware loop never stops polling, and a thread that is not blocked   *)
(* runs.  Nothing is assumed of the deadline, nor of the host writing again. *)
Fairness ==
  /\ WF_vars(Recv)
  /\ WF_vars(RecvTimeout)
  /\ WF_vars(WipeSeremu)
  /\ \A c \in Callers :
       WF_vars(Notify(c)) /\ WF_vars(WaitTaken(c)) /\ WF_vars(Settle(c))

FairSpec == Spec /\ Fairness

-----------------------------------------------------------------------------
(* Properties *)

Queued(iface, n) == \E i \in 1..Len(hid_in) : hid_in[i] = [iface |-> iface, seq |-> n]

(* A ticket says exactly where its report is: while vendor_taken is below    *)
(* the ticket the report is still in the deque, and once it is reached the   *)
(* report is gone.  Otherwise okemu_hid_wait_taken answers about another     *)
(* report (ok_hal.cpp:88-90).                                                *)
TicketTruth ==
  \A n \in 1..vendor_pushed : Queued("vendor", n) <=> n > vendor_taken

(* No waiter sleeps on a ticket that is already reached: the counter and the *)
(* notify change together, so the wake-up cannot be lost.                    *)
NoLostWakeup ==
  \A c \in Callers : pc[c] = "asleep" => vendor_taken < ticket[c]

(* The firmware never sleeps over a queued report unless the thread that     *)
(* pushed it is still about to notify (the notify follows the unlock).       *)
NoSleptOverReport ==
  fw = "asleep" /\ hid_in # <<>> => \E c \in Callers : pc[c] = "notify"

(* Each interface is first in, first out, although the deque is shared and   *)
(* FIDO reports overtake vendor ones.                                        *)
InterfaceOrder ==
  \A i, j \in 1..Len(log) :
    i < j /\ log[i].iface = log[j].iface => log[i].seq < log[j].seq

(* After the wipe of the unlock path nothing the host sent before it is left *)
(* for the unlocked firmware to process, on any interface.                   *)
WipeIsComplete ==
  fw # "wiping" =>
    /\ \A i \in 1..Len(hid_in) : hid_in[i].seq > wipeMark[hid_in[i].iface]
    /\ \A i \in 1..Len(seremu_in) : seremu_in[i] > wipeMark["seremu"]

(* What the invariants above rest on: the ghosts agree with the counters,    *)
(* and the reports of one interface sit in the deque in the order they were  *)
(* pushed, behind those the firmware already has.                            *)
CountsAgree ==
  /\ pushed["vendor"] = vendor_pushed
  /\ \A i \in Ifaces : pushed[i] <= Limit[i] /\ wipeMark[i] <= pushed[i]

DequeOrder ==
  /\ \A i \in 1..Len(hid_in) :
       0 < hid_in[i].seq /\ hid_in[i].seq <= pushed[hid_in[i].iface]
  /\ \A i, j \in 1..Len(hid_in) :
       i < j /\ hid_in[i].iface = hid_in[j].iface => hid_in[i].seq < hid_in[j].seq

LogOrder ==
  /\ InterfaceOrder
  /\ \A i \in 1..Len(log) : log[i].seq <= pushed[log[i].iface]
  /\ \A i \in 1..Len(log), j \in 1..Len(hid_in) :
       log[i].iface = hid_in[j].iface => log[i].seq < hid_in[j].seq

QueueInv == TypeOK /\ CountsAgree /\ DequeOrder /\ TicketTruth

WipeInv ==
  /\ \A i \in 1..Len(hid_in) : hid_in[i].seq > wipeMark[hid_in[i].iface]
  /\ fw # "wiping" => \A i \in 1..Len(seremu_in) : seremu_in[i] > wipeMark["seremu"]

IInv == QueueInv /\ NoLostWakeup /\ NoSleptOverReport /\ LogOrder /\ WipeInv

(* Every awaited write settles, by the firmware's progress alone: no         *)
(* deadline is needed, whatever the firmware wipes.                          *)
WaitSettles ==
  \A c \in Callers : pc[c] = "wait" ~> pc[c] = "done"

(* The deque and its two counters behave as the two endpoints of a USB key.  *)
(* An endpoint holds the deque's entries of its interface, by their places.  *)
Places(h, iface) == {i \in 1..Len(h) : h[i].iface = iface}
InOrder(at, S) ==
  /\ {at[k] : k \in DOMAIN at} = S
  /\ \A k, m \in DOMAIN at : k < m => at[k] < at[m]
ReportsOf(h, iface) ==
  LET at == CHOOSE at \in UNION {[1..n -> Places(h, iface)] : n \in 0..Len(h)} : InOrder(at, Places(h, iface))
  IN [k \in DOMAIN at |-> h[at[k]].seq]

(* A host thread is inside a transfer from its push to its promise.          *)
InTransfer(c) == pc[c] \in {"wait", "asleep"} \/ (pc[c] = "notify" /\ waits[c])

UsbSent == [e \in HidIfaces |-> pushed[e]]
UsbEndpoint == [e \in HidIfaces |-> ReportsOf(hid_in, e)]
UsbTransfer == [c \in Callers |-> IF InTransfer(c) \/ pc[c] = "done" THEN ticket[c] ELSE 0]
UsbStatus == [c \in Callers |-> IF InTransfer(c) THEN "pending"
                                ELSE IF pc[c] # "done" THEN "idle"
                                ELSE IF answer[c] THEN "accepted" ELSE "expired"]

Usb == INSTANCE UsbOut WITH
  sent <- UsbSent, endpoint <- UsbEndpoint, transfer <- UsbTransfer, status <- UsbStatus

ActsAsUsbOut == Usb!Spec

(* writeHidTaken's contract (index.js:255-256, addon.cpp:214-216): it        *)
(* resolves true once the firmware has TAKEN the report.  It does not hold:  *)
(* README, Divergences.                                                      *)
TrueMeansTaken ==
  \A c \in Callers :
    pc[c] = "done" /\ answer[c] /\ ticket[c] # 0 =>
      \E i \in 1..Len(log) : log[i] = [iface |-> "vendor", seq |-> ticket[c]]
=============================================================================

---------------------------- MODULE DeviceInput -----------------------------
(***************************************************************************)
(* Everything a host can put into the key, composed: the report queue of    *)
(* HidQueue and the press queue of PressQueue are separate queues with      *)
(* separate locks, drained by one firmware thread.  A challenge's digits    *)
(* are presses that must not be seen before the vendor frame that arms the  *)
(* challenge; the only thing that orders the two queues is the answer of    *)
(* okemu_hid_wait_taken, and it comes when the frame is TAKEN, before the   *)
(* firmware has processed it (ok_hal.cpp:826-847).                          *)
(***************************************************************************)
EXTENDS HidQueue

CONSTANTS Depth, MaxLine, MaxPresses   (* PressQueue's *)

ASSUME PressAssumption == Depth \in Nat \ {0} /\ MaxLine \in Nat /\ MaxPresses \in Nat

VARIABLES
  q, head, tail, count, key_press, host, checked, run, last, queued, handed,
             (* PressQueue's                                                 *)
  inhand,    (* the report taken and not yet processed: a sequence of <= 1   *)
  processed, (* history: the vendor frames the firmware has processed        *)
  wiped,     (* history: the vendor frames a wipe threw away                 *)
  acked,     (* history: the newest frame whose write was answered `taken`   *)
  basis      (* history: per accepted press, `acked` when it was queued      *)

Press == INSTANCE PressQueue

pressVars == <<q, head, tail, count, key_press, host, checked, run, last, queued, handed>>
orderVars == <<inhand, processed, wiped, acked, basis>>
allVars == <<vars, pressVars, orderVars>>

DITypeOK ==
  /\ TypeOK
  /\ Press!TypeOK
  /\ inhand \in Seq(InPkt)
  /\ processed \subseteq 1..MaxVendor
  /\ wiped \subseteq 1..MaxVendor
  /\ acked \in 0..MaxVendor
  /\ basis \in Seq(0..MaxVendor)

DIInit ==
  /\ Init
  /\ Press!Init
  /\ inhand = <<>>
  /\ processed = {}
  /\ wiped = {}
  /\ acked = 0
  /\ basis = <<>>

-----------------------------------------------------------------------------
(* The firmware thread: one main loop, so a report it has taken is processed *)
(* before it polls again, wipes, or runs a sense round.                      *)

Poll ==
  /\ inhand = <<>>
  /\ Recv \/ RecvSleep \/ RecvTimeout \/ SeremuGetc
  /\ inhand' = IF log' = log THEN <<>> ELSE <<log'[Len(log')]>>
  /\ UNCHANGED <<pressVars, processed, wiped, acked, basis>>

Process ==
  /\ inhand # <<>>
  /\ processed' = IF inhand[1].iface = "vendor" THEN processed \cup {inhand[1].seq} ELSE processed
  /\ inhand' = <<>>
  /\ UNCHANGED <<vars, pressVars, wiped, acked, basis>>

Sense ==
  /\ inhand = <<>> /\ fw = "loop"
  /\ \E released \in BOOLEAN : Press!SenseRound(released)
  /\ UNCHANGED <<vars, orderVars>>

Wipe ==
  /\ inhand = <<>>
  /\ WipeHid \/ WipeSeremu
  /\ wiped' = wiped \cup {n \in 1..MaxVendor :
                            \E i \in 1..Len(hid_in) : hid_in[i] = [iface |-> "vendor", seq |-> n]
                                                     /\ hid_in' = <<>>}
  /\ UNCHANGED <<pressVars, inhand, processed, acked, basis>>

-----------------------------------------------------------------------------
(* The host *)

Write(c) ==
  /\ Host(c)
  /\ acked' = IF pc[c] = "done" /\ answer[c] /\ ticket[c] > acked THEN ticket[c] ELSE acked
  /\ UNCHANGED <<pressVars, inhand, processed, wiped, basis>>

(* Presses accepted now follow, in the host's program, every write it has    *)
(* been told is taken.                                                       *)
QueuePresses ==
  /\ Press!HostStep
  /\ basis' = basis \o [k \in 1..(queued' - queued) |-> acked]
  /\ UNCHANGED <<vars, inhand, processed, wiped, acked>>

DINext ==
  \/ Poll \/ Process \/ Sense \/ Wipe
  \/ \E c \in Callers : Write(c)
  \/ QueuePresses

DISpec == DIInit /\ [][DINext]_allVars

-----------------------------------------------------------------------------
(* Properties *)

(* A press the host queued after a write was answered `taken` is dispatched  *)
(* only after the firmware has processed that frame, and every frame before  *)
(* it - or thrown it away unlocking.  v3.0.2's intermittent "incorrect       *)
(* challenge" was this property failing (addon.cpp:214-221).                 *)
PressAfterFrame ==
  \A k \in 1..Len(handed) : 1..basis[handed[k]] \subseteq processed \cup wiped

=============================================================================

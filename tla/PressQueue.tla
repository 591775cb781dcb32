----------------------------- MODULE PressQueue -----------------------------
(***************************************************************************)
(* Button presses handed to the firmware instead of sensed:                 *)
(* emulator/src/okemu_press.cpp keeps a ring of OKEMU_PRESS_QUEUE_MAX       *)
(* presses under a mutex.  A host fills it, a whole line at a time; the     *)
(* firmware thread empties it, one press per sense round, into key_press -  *)
(* a static of touch_sense_loop() that holds one press until the loop       *)
(* dispatches it to payload().                                              *)
(*                                                                          *)
(* A press is the serial number of its acceptance, so a lost, doubled or    *)
(* swapped digit is visible.  Who fills the ring is the process's host:     *)
(*   "node"     index.js asks for the room and queues in two calls of the   *)
(*              addon, so the firmware may run in between;                  *)
(*   "android"  okemu_jni.cpp queues at once and reports a short count.     *)
(* bin/press.js is a client of a node host: its run of n presses is n       *)
(* `press` commands, each a line of one.                                    *)
(***************************************************************************)
EXTENDS Integers, Sequences

CONSTANTS
  Depth,       (* OKEMU_PRESS_QUEUE_MAX                                      *)
  MaxLine,     (* bound: presses in one line or run                          *)
  MaxPresses   (* bound: presses accepted in one behaviour                   *)

ASSUME DepthAssumption == Depth \in Nat \ {0}
ASSUME BoundAssumption == MaxLine \in Nat /\ MaxPresses \in Nat

VARIABLES
  q,          (* the ring                                                    *)
  head,       (* next to hand over                                           *)
  tail,       (* next free slot                                              *)
  count,      (* presses in the ring                                         *)
  key_press,  (* the press the loop holds; 0: none                           *)
  host,       (* the process the emulator runs in                            *)
  checked,    (* node: length of the line whose room is checked; 0: none     *)
  run,        (* press.js: presses of the run still to be sent               *)
  last,       (* history: what the last finished line or run asked and got   *)
  queued,     (* history: presses accepted so far                            *)
  handed      (* history: the presses payload() received                     *)

vars == <<q, head, tail, count, key_press, host, checked, run, last, queued, handed>>

ring == <<q, head, tail, count>>

Slots == 0..(Depth - 1)

(* i % OKEMU_PRESS_QUEUE_MAX for an index at most one lap ahead *)
Slot(i) == IF i < Depth THEN i ELSE i - Depth

TypeOK ==
  /\ q \in [Slots -> Nat]
  /\ head \in Slots
  /\ tail \in Slots
  /\ count \in 0..Depth
  /\ key_press \in Nat
  /\ host \in {"node", "android"}
  /\ checked \in Nat
  /\ run \in Nat
  /\ last \in [by : {"nobody", "line", "run", "phone"}, asked : Nat, got : Nat, over : BOOLEAN]
  /\ queued \in Nat
  /\ handed \in Seq(Nat)

Init ==
  /\ q = [i \in Slots |-> 0]
  /\ head = 0
  /\ tail = 0
  /\ count = 0
  /\ key_press = 0
  /\ host \in {"node", "android"}
  /\ checked = 0
  /\ run = 0
  /\ last = [by |-> "nobody", asked |-> 0, got |-> 0, over |-> TRUE]
  /\ queued = 0
  /\ handed = <<>>

-----------------------------------------------------------------------------
(* The ring *)

(* What okemu_press_queue takes of n presses: the loop breaks when the ring  *)
(* is full, and `continue`s past a press that is none (button 0, no ticks).  *)
(* Callers only ever mix nothing: a line is valid or it is not.              *)
Accepted(n, valid) ==
  IF ~valid THEN 0 ELSE IF n <= Depth - count THEN n ELSE Depth - count

(* The slot's distance from the tail, going round. *)
Ahead(i) == IF i >= tail THEN i - tail ELSE i - tail + Depth

Push(a) ==
  /\ q' = [i \in Slots |-> IF Ahead(i) < a THEN queued + 1 + Ahead(i) ELSE q[i]]
  /\ tail' = Slot(tail + a)
  /\ count' = count + a
  /\ queued' = queued + a
  /\ UNCHANGED <<head, key_press, handed>>

(* okemu_press_take: nothing while the loop still holds a press. *)
CanTakeOver == count > 0
CanTakeAllButLast == count > 1 /\ key_press = 0
CanTake == count > 0 /\ key_press = 0

PressAfterTake == IF CanTake THEN q[head] ELSE key_press

TakePress ==
  IF CanTake
  THEN /\ head' = Slot(head + 1)
       /\ count' = count - 1
       /\ UNCHANGED <<q, tail>>
  ELSE UNCHANGED ring

(* One round of touch_sense_loop(), from the injected hand-over on: the      *)
(* press it holds is dispatched once no pad has read as touched for three    *)
(* rounds (released), which is up to the fingers.                            *)
SenseRound(released) ==
  /\ TakePress
  /\ IF PressAfterTake # 0 /\ released
     THEN /\ key_press' = 0
          /\ handed' = Append(handed, PressAfterTake)
     ELSE /\ key_press' = PressAfterTake
          /\ UNCHANGED handed
  /\ UNCHANGED <<host, checked, run, last, queued>>

-----------------------------------------------------------------------------
(* The hosts *)

Room == Depth - count

(* A call of pressButtons() or pressQueue(): the room is asked first, and a  *)
(* line that does not fit is refused (a RangeError) before it is queued.     *)
FitsAlmost(n) == n <= Room + 1
Fits(n) == n <= Room

CheckLine(n) ==
  /\ host = "node" /\ checked = 0 /\ run = 0
  /\ queued + n <= MaxPresses
  /\ checked' = IF Fits(n) THEN n ELSE 0
  /\ last' = [by |-> "line", asked |-> n, got |-> 0, over |-> ~Fits(n)]
  /\ UNCHANGED <<ring, key_press, host, run, queued, handed>>

(* The second call.  Ticks beyond 16 bits arrive as 0 and are not presses.   *)
QueueLine(valid) ==
  /\ checked > 0 /\ run = 0
  /\ Push(Accepted(checked, valid))
  /\ checked' = 0
  /\ last' = [last EXCEPT !.got = Accepted(checked, valid), !.over = TRUE]
  /\ UNCHANGED <<host, run>>

(* press.js sends its run in one write; the daemon handles the commands one  *)
(* after the other, each a pressButton() of its own.                         *)
StartRun(n) ==
  /\ host = "node" /\ checked = 0 /\ run = 0
  /\ n <= Depth
  /\ queued + n <= MaxPresses
  /\ run' = n
  /\ last' = [by |-> "run", asked |-> n, got |-> 0, over |-> FALSE]
  /\ UNCHANGED <<ring, key_press, host, checked, queued, handed>>

(* A press that finds no room is answered by an `error` message, and the     *)
(* next one is handled all the same.                                         *)
CheckRunPress ==
  /\ run > 0 /\ checked = 0
  /\ IF Fits(1)
     THEN checked' = 1 /\ UNCHANGED <<run, last>>
     ELSE /\ run' = run - 1
          /\ last' = [last EXCEPT !.over = run = 1]
          /\ UNCHANGED checked
  /\ UNCHANGED <<ring, key_press, host, queued, handed>>

QueueRunPress ==
  /\ run > 0 /\ checked > 0
  /\ Push(Accepted(checked, TRUE))
  /\ checked' = 0
  /\ run' = run - 1
  /\ last' = [last EXCEPT !.got = @ + Accepted(checked, TRUE), !.over = run = 1]
  /\ UNCHANGED host

(* nativePressQueue: one call, and the count it accepted. *)
AndroidQueue(n, valid) ==
  /\ host = "android"
  /\ queued + n <= MaxPresses
  /\ Push(Accepted(n, valid))
  /\ last' = [by |-> "phone", asked |-> n, got |-> Accepted(n, valid), over |-> TRUE]
  /\ UNCHANGED <<host, checked, run>>

-----------------------------------------------------------------------------
HostStep ==
  \/ \E n \in 1..MaxLine : CheckLine(n) \/ StartRun(n)
  \/ \E valid \in BOOLEAN : QueueLine(valid)
  \/ CheckRunPress
  \/ QueueRunPress
  \/ \E n \in 1..MaxLine, valid \in BOOLEAN : AndroidQueue(n, valid)

Next == HostStep \/ \E released \in BOOLEAN : SenseRound(released)

Spec == Init /\ [][Next]_vars

(* The firmware's scheduler keeps running checkKey(), and no finger stays on *)
(* a pad for good: a counted hold runs out.                                  *)
FairSpec == Spec /\ WF_vars(SenseRound(TRUE))

-----------------------------------------------------------------------------
(* Properties *)

Held == IF key_press = 0 THEN 0 ELSE 1

(* Nothing accepted is lost, doubled or reordered between the call and       *)
(* payload(): what was handed over, then the press the loop holds, then the  *)
(* ring from its head, are the accepted presses 1..queued in order           *)
(* (okemu_press.h: overwriting the held press "would lose a digit").         *)
NoDigitLost ==
  /\ Len(handed) + Held + count = queued
  /\ \A i \in 1..Len(handed) : handed[i] = i
  /\ key_press # 0 => key_press = Len(handed) + 1
  /\ \A k \in 0..(count - 1) : q[Slot(head + k)] = Len(handed) + Held + 1 + k

(* Half a PIN is a wrong PIN attempt (index.js:154-155): a line is queued    *)
(* whole or not at all, although its room is asked for in one critical       *)
(* section and used in another.                                              *)
LineIsWhole ==
  last.by = "line" /\ last.over => last.got \in {0, last.asked}

(* What they rest on: the three indices of the ring agree, and the room a    *)
(* host has asked for is still there when it uses it.                        *)
RingAgrees == tail = Slot(head + count)

RoomLasts ==
  /\ checked <= Room
  /\ host = "android" => checked = 0 /\ run = 0
  /\ checked > 0 /\ run = 0 => last.by = "line" /\ last.asked = checked
  /\ run > 0 => last.by = "run"

IInv == TypeOK /\ NoDigitLost /\ RingAgrees /\ RoomLasts /\ LineIsWhole

(* Every accepted press reaches payload().                                   *)
PressesArrive == \A n \in 1..MaxPresses : queued >= n ~> Len(handed) >= n

(* press.js:79-80 says the same of its run: "the emulator refuses a longer   *)
(* run whole rather than pressing only part of it".  It does not hold:       *)
(* README, Divergences.                                                      *)
RunIsWhole ==
  last.by = "run" /\ last.over => last.got \in {0, last.asked}
=============================================================================

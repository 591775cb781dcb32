-------------------------- MODULE PressQueueProofs --------------------------
(***************************************************************************)
(* The press queue loses no digit and queues lines whole, for a ring of any *)
(* depth, lines of any length and any number of presses.                    *)
(***************************************************************************)
EXTENDS PressQueue, TLAPS

-----------------------------------------------------------------------------
(* Going round the ring. *)

(* The ring has at least one slot.                                            *)
LEMMA DepthNat == Depth \in Nat /\ Depth > 0
BY DepthAssumption

(* Arithmetic on the ring's room. *)
LEMMA RoomArithmetic ==
  /\ \A d \in Nat : \A c \in 0..d : \A a \in 0..(d - c) : a \in Nat
  /\ \A d \in Nat : \A c \in 0..d : 0 <= d - c
  /\ \A d \in Nat, x, y, z \in Int : y <= x /\ z <= d - x => z <= d - y
OBVIOUS

(* An index at most one lap ahead wraps into the ring.                        *)
LEMMA SlotIsSlot == \A i \in 0..(2 * Depth - 1) : Slot(i) \in Slots
BY DepthAssumption DEF Slot, Slots

(* Distances from the tail are a permutation of the slots: the slot a        *)
(* distance d ahead of the tail is the one Ahead gives d for.                *)
LEMMA AheadOfTail ==
  ASSUME tail \in Slots
  PROVE  /\ \A i \in Slots : Ahead(i) \in Slots /\ Slot(tail + Ahead(i)) = i
         /\ \A d \in Slots : Ahead(Slot(tail + d)) = d
BY DepthAssumption DEF Slot, Slots, Ahead

(* The slots after the head wrap the same way twice. *)
LEMMA SlotSlot ==
  ASSUME NEW h \in Slots, NEW a \in 0..Depth, NEW b \in 0..Depth, a + b <= Depth
  PROVE  Slot(Slot(h + a) + b) = Slot(h + a + b)
BY DepthAssumption DEF Slot, Slots

(* okemu_press_queue takes what fits, and all of a valid line that fits       *)
(* (okemu_press.cpp:27-49).                                                   *)
LEMMA AcceptedFits ==
  ASSUME count \in 0..Depth, NEW n \in Nat, NEW valid \in BOOLEAN
  PROVE  /\ Accepted(n, valid) \in 0..(Depth - count)
         /\ valid /\ n <= Room => Accepted(n, valid) = n
         /\ ~valid => Accepted(n, valid) = 0
BY DepthAssumption DEF Accepted, Room

-----------------------------------------------------------------------------
(* The two steps of the ring. *)

RingInv == TypeOK /\ NoDigitLost /\ RingAgrees

(* A push appends its presses behind the queued ones, going round the ring    *)
(* without touching a slot in use (okemu_press.cpp:27-49).                    *)
LEMMA PushKeeps ==
  ASSUME RingInv, NEW a \in 0..(Depth - count), Push(a)
  PROVE  /\ q' \in [Slots -> Nat] /\ tail' \in Slots /\ count' \in 0..Depth /\ queued' \in Nat
         /\ NoDigitLost' /\ RingAgrees'
<1> USE DepthAssumption DEF RingInv
<1>1. /\ head \in Slots /\ tail \in Slots /\ count \in 0..Depth /\ queued \in Nat
      /\ q \in [Slots -> Nat] /\ Len(handed) \in Nat /\ Held \in {0, 1}
      /\ tail = Slot(head + count)
  BY DEF TypeOK, RingAgrees, Held
<1>2. /\ head' = head /\ key_press' = key_press /\ handed' = handed /\ Held' = Held
      /\ tail' = Slot(tail + a) /\ count' = count + a /\ queued' = queued + a
      /\ \A i \in Slots : q'[i] = IF Ahead(i) < a THEN queued + 1 + Ahead(i) ELSE q[i]
  BY DEF Push, Held
<1>3. \A i \in Slots : Ahead(i) \in Slots
  BY <1>1, AheadOfTail
<1>4. q' \in [Slots -> Nat]
  <2>1. \A i \in Slots : (IF Ahead(i) < a THEN queued + 1 + Ahead(i) ELSE q[i]) \in Nat
    <3> TAKE i \in Slots
    <3>1. Ahead(i) \in Slots
      BY <1>3
    <3>2. Ahead(i) \in Nat /\ q[i] \in Nat
      BY <1>1, <3>1 DEF Slots
    <3> QED
      BY <1>1, <3>2
  <2> QED
    BY <2>1 DEF Push
<1>5. tail' \in Slots /\ count' \in 0..Depth /\ queued' \in Nat
  BY <1>1, <1>2 DEF Slot, Slots
<1>6. RingAgrees'
  <2>1. Slot(Slot(head + count) + a) = Slot(head + count + a)
    BY <1>1, SlotSlot
  <2>2. Slot(head' + count') = Slot(head + count + a)
    <3>1. head' + count' = head + count + a
      BY <1>1, <1>2 DEF Slots
    <3> QED
      BY <3>1
  <2>3. RingAgrees' <=> tail' = Slot(head' + count')
    BY DEF RingAgrees, Slot
  <2> QED
    BY <1>1, <1>2, <2>1, <2>2, <2>3
<1>7. ASSUME NEW k \in 0..(count + a - 1)
      PROVE  q'[Slot(head + k)] = Len(handed) + Held + 1 + k
  <2>1. Slot(head + k) \in Slots
    BY <1>1 DEF Slot, Slots
  <2>2. CASE k < count
    <3>1. ~(Ahead(Slot(head + k)) < a)
      BY <1>1, <2>2 DEF Slot, Slots, Ahead
    <3>2. q[Slot(head + k)] = Len(handed) + Held + 1 + k
      BY <1>1, <2>2 DEF NoDigitLost
    <3> QED
      BY <1>2, <2>1, <3>1, <3>2
  <2>3. CASE k >= count
    <3>1. Ahead(Slot(head + k)) = k - count
      BY <1>1, <2>3 DEF Slot, Slots, Ahead
    <3>2. queued = Len(handed) + Held + count
      BY <1>1 DEF NoDigitLost
    <3> QED
      BY <1>1, <1>2, <2>1, <2>3, <3>1, <3>2
  <2> QED
    BY <1>1, <2>2, <2>3
<1>8. NoDigitLost'
  <2>1. Len(handed) + Held + (count + a) = queued + a
    BY <1>1 DEF NoDigitLost
  <2> QED
    BY <1>1, <1>2, <1>7, <2>1 DEF NoDigitLost, Slot
<1> QED
  BY <1>4, <1>5, <1>6, <1>8

(* A sense round moves the oldest press into the loop, or out to payload(),   *)
(* and never both over a held one (okemu_press.cpp:56-80).                    *)
LEMMA SenseKeeps ==
  ASSUME RingInv, NEW released \in BOOLEAN, SenseRound(released)
  PROVE  RingInv'
<1> USE DepthAssumption DEF RingInv
<1>1. /\ head \in Slots /\ tail \in Slots /\ count \in 0..Depth /\ queued \in Nat
      /\ q \in [Slots -> Nat] /\ handed \in Seq(Nat) /\ Len(handed) \in Nat
      /\ key_press \in Nat /\ Held = (IF key_press = 0 THEN 0 ELSE 1)
  BY DEF TypeOK, Held
<1>2. q' = q /\ tail' = tail /\ queued' = queued
  BY DEF SenseRound, TakePress, ring
(* The press the loop holds after the hand-over, and the ring without it.    *)
<1>3. /\ head' \in Slots /\ count' \in 0..Depth
      /\ tail = Slot(head' + count')
      /\ PressAfterTake \in Nat
      /\ PressAfterTake # 0 => PressAfterTake = Len(handed) + 1
      /\ Len(handed) + (IF PressAfterTake = 0 THEN 0 ELSE 1) + count' = queued
      /\ \A k \in 0..(count' - 1) :
           q[Slot(head' + k)] = Len(handed) + (IF PressAfterTake = 0 THEN 0 ELSE 1) + 1 + k
  <2>1. CASE CanTake
    <3>1. /\ key_press = 0 /\ count > 0 /\ head' = Slot(head + 1) /\ count' = count - 1
          /\ PressAfterTake = q[head]
      BY <2>1 DEF SenseRound, TakePress, CanTake, PressAfterTake
    <3>2. q[head] = Len(handed) + 1
      <4>1. Slot(head + 0) = head
        BY <1>1 DEF Slot, Slots
      <4>2. q[Slot(head + 0)] = Len(handed) + Held + 1 + 0
        BY <1>1, <3>1 DEF NoDigitLost
      <4> QED
        BY <1>1, <3>1, <4>1, <4>2
    <3>3. head' \in Slots
      BY <1>1, <3>1 DEF Slot, Slots
    <3>4. \A k \in 0..(count' - 1) : Slot(head' + k) = Slot(head + (k + 1))
      BY <1>1, <3>1 DEF Slot, Slots
    <3>5. tail = Slot(head' + count')
      BY <1>1, <3>1 DEF RingAgrees, Slot, Slots
    <3>6. \A k \in 0..(count' - 1) : q[Slot(head' + k)] = Len(handed) + 2 + k
      <4> TAKE k \in 0..(count' - 1)
      <4>1. k + 1 \in 0..(count - 1)
        BY <1>1, <3>1
      <4>2. q[Slot(head + (k + 1))] = Len(handed) + Held + 1 + (k + 1)
        BY <4>1 DEF NoDigitLost
      <4> QED
        BY <1>1, <3>1, <3>4, <4>2
    <3>7. /\ PressAfterTake = Len(handed) + 1 /\ PressAfterTake # 0
          /\ count' \in 0..Depth
          /\ Len(handed) + 1 + count' = queued
      BY <1>1, <3>1, <3>2 DEF NoDigitLost
    <3>8. \A k \in 0..(count' - 1) : q[Slot(head' + k)] = Len(handed) + 1 + 1 + k
      BY <1>1, <3>6
    <3>9. PressAfterTake \in Nat /\ (IF PressAfterTake = 0 THEN 0 ELSE 1) = 1
      BY <1>1, <3>7
    <3> QED
      BY <3>3, <3>5, <3>7, <3>8, <3>9
  <2>2. CASE ~CanTake
    <3>1. head' = head /\ count' = count /\ PressAfterTake = key_press
      BY <2>2 DEF SenseRound, TakePress, PressAfterTake, ring
    <3> QED
      BY <1>1, <3>1 DEF NoDigitLost, RingAgrees
  <2> QED
    BY <2>1, <2>2
<1>4. RingAgrees'
  <2>1. RingAgrees' <=> tail' = Slot(head' + count')
    BY DEF RingAgrees, Slot
  <2> QED
    BY <1>2, <1>3, <2>1
<1>5. CASE PressAfterTake # 0 /\ released
  <2>1. /\ key_press' = 0 /\ handed' = Append(handed, PressAfterTake)
        /\ Held' = 0
    BY <1>5 DEF SenseRound, Held
  <2>2. /\ handed' \in Seq(Nat) /\ Len(handed') = Len(handed) + 1
        /\ \A i \in 1..Len(handed) : handed'[i] = handed[i]
        /\ handed'[Len(handed) + 1] = Len(handed) + 1
    BY <1>1, <1>3, <1>5, <2>1
  <2>3. TypeOK'
    BY <1>1, <1>2, <1>3, <2>1, <2>2 DEF TypeOK, SenseRound
  <2>4. \A i \in 1..Len(handed') : handed'[i] = i
    <3> TAKE i \in 1..Len(handed')
    <3>1. CASE i \in 1..Len(handed)
      BY <2>2, <3>1 DEF NoDigitLost
    <3>2. CASE i = Len(handed) + 1
      BY <2>2, <3>2
    <3> QED
      BY <1>1, <2>2, <3>1, <3>2
  <2>5. \A k \in 0..(count' - 1) : q'[Slot(head' + k)] = Len(handed') + Held' + 1 + k
    <3> TAKE k \in 0..(count' - 1)
    <3>1. q[Slot(head' + k)] = Len(handed) + 1 + 1 + k
      BY <1>3, <1>5
    <3> QED
      BY <1>1, <1>2, <1>3, <2>1, <2>2, <3>1
  <2>6. Len(handed') + Held' + count' = queued'
    BY <1>1, <1>2, <1>3, <1>5, <2>1, <2>2
  <2>7. NoDigitLost'
    BY <2>1, <2>4, <2>5, <2>6 DEF NoDigitLost, Slot
  <2> QED
    BY <1>4, <2>3, <2>7
<1>6. CASE ~(PressAfterTake # 0 /\ released)
  <2>1. /\ key_press' = PressAfterTake /\ handed' = handed
        /\ Held' = IF PressAfterTake = 0 THEN 0 ELSE 1
    BY <1>6 DEF SenseRound, Held
  <2>2. TypeOK'
    BY <1>1, <1>2, <1>3, <2>1 DEF TypeOK, SenseRound
  <2>3. NoDigitLost'
    BY <1>2, <1>3, <2>1 DEF NoDigitLost, Slot
  <2> QED
    BY <1>4, <2>2, <2>3
<1> QED
  BY <1>5, <1>6

-----------------------------------------------------------------------------
(* The hosts' bookkeeping, and the induction. *)

(* An empty ring satisfies the invariant.                                     *)
LEMMA IInvInit == Init => IInv
<1> SUFFICES ASSUME Init PROVE IInv
  OBVIOUS
<1> USE DepthAssumption
<1>1. TypeOK
  BY DEF Init, TypeOK, Slots
<1>2. NoDigitLost /\ RingAgrees /\ RoomLasts /\ LineIsWhole
  BY DEF Init, NoDigitLost, RingAgrees, RoomLasts, LineIsWhole, Held, Slot, Room
<1> QED
  BY <1>1, <1>2 DEF IInv

(* A host step that only keeps books. *)
LEMMA BooksKeep ==
  ASSUME RingInv, UNCHANGED <<ring, key_press, queued, handed>>
  PROVE  NoDigitLost' /\ RingAgrees'
BY DEF RingInv, NoDigitLost, RingAgrees, Held, Slot, ring

(* A checked line has its room (index.js:153-158).                            *)
LEMMA CheckLineKeeps ==
  ASSUME IInv, NEW n \in 1..MaxLine, CheckLine(n)
  PROVE  IInv'
<1> USE DEF IInv
<1>1. n \in Nat /\ n > 0
  BY BoundAssumption
<1>2. NoDigitLost' /\ RingAgrees'
  BY BooksKeep DEF CheckLine, RingInv
<1>3. TypeOK'
  BY <1>1 DEF CheckLine, TypeOK, ring, Fits
<1>4. RoomLasts'
  BY <1>1, DepthAssumption DEF CheckLine, RoomLasts, Room, Fits, TypeOK, ring
<1>5. LineIsWhole'
  BY <1>1 DEF CheckLine, LineIsWhole, TypeOK
<1> QED
  BY <1>2, <1>3, <1>4, <1>5

(* A run starts with nothing checked (press.js:121-131).                      *)
LEMMA StartRunKeeps ==
  ASSUME IInv, NEW n \in 1..MaxLine, StartRun(n)
  PROVE  IInv'
<1> USE DEF IInv
<1>1. n \in Nat /\ n > 0
  BY BoundAssumption
<1>2. NoDigitLost' /\ RingAgrees'
  BY BooksKeep DEF StartRun, RingInv
<1>3. TypeOK'
  BY <1>1 DEF StartRun, TypeOK, ring
<1>4. RoomLasts'
  BY <1>1 DEF StartRun, RoomLasts, Room, ring
<1>5. LineIsWhole'
  BY DEF StartRun, LineIsWhole
<1> QED
  BY <1>2, <1>3, <1>4, <1>5

(* The room checked is still there, so the line goes in whole or, if its      *)
(* ticks make it no press, not at all (index.js:158-161).                     *)
LEMMA QueueLineKeeps ==
  ASSUME IInv, NEW valid \in BOOLEAN, QueueLine(valid)
  PROVE  IInv'
<1> USE DEF IInv
<1> DEFINE a == Accepted(checked, valid)
<1>1. checked \in Nat /\ count \in 0..Depth /\ run = 0 /\ checked > 0
  BY DEF TypeOK, QueueLine
<1>2. a \in 0..(Depth - count) /\ a \in {0, checked}
  BY <1>1, AcceptedFits DEF RoomLasts
<1>3. Push(a) /\ UNCHANGED <<host, run>> /\ checked' = 0
      /\ last' = [last EXCEPT !.got = a, !.over = TRUE]
  BY DEF QueueLine
<1> HIDE DEF a
<1>4. /\ q' \in [Slots -> Nat] /\ tail' \in Slots /\ count' \in 0..Depth /\ queued' \in Nat
      /\ NoDigitLost' /\ RingAgrees'
  BY <1>2, <1>3, PushKeeps DEF RingInv
<1>5. last' \in [by : {"nobody", "line", "run", "phone"}, asked : Nat, got : Nat, over : BOOLEAN]
  BY <1>1, <1>2, <1>3 DEF TypeOK
<1>6. TypeOK'
  BY <1>3, <1>4, <1>5 DEF TypeOK, Push
<1>7. RoomLasts'
  BY <1>1, <1>3, <1>4, DepthAssumption DEF RoomLasts, Room
<1>8. LineIsWhole'
  BY <1>1, <1>2, <1>3 DEF LineIsWhole, RoomLasts, TypeOK
<1> QED
  BY <1>4, <1>6, <1>7, <1>8

(* One press of a run asks for its own room (ipc-peer.js:119-122).             *)
LEMMA CheckRunPressKeeps == IInv /\ CheckRunPress => IInv'
<1> SUFFICES ASSUME IInv, CheckRunPress PROVE IInv'
  OBVIOUS
<1> USE DEF IInv
<1>1. run \in Nat /\ run > 0 /\ run' \in Nat /\ checked' \in {0, 1} /\ run' \in {run, run - 1}
  BY DEF CheckRunPress, TypeOK
<1>2. NoDigitLost' /\ RingAgrees'
  BY BooksKeep DEF CheckRunPress, RingInv
<1>3. last' = [last EXCEPT !.over = run = 1] \/ last' = last
  BY DEF CheckRunPress
<1>4. TypeOK'
  <2>1. last' \in [by : {"nobody", "line", "run", "phone"}, asked : Nat, got : Nat, over : BOOLEAN]
    BY <1>3 DEF TypeOK
  <2> QED
    BY <1>1, <2>1 DEF CheckRunPress, TypeOK, ring
<1>5. last.by = "run" /\ last'.by = "run"
  BY <1>1, <1>3 DEF RoomLasts, TypeOK
<1>6. RoomLasts'
  BY <1>1, <1>5, DepthAssumption DEF CheckRunPress, RoomLasts, Room, Fits, TypeOK, ring
<1>7. LineIsWhole'
  BY <1>5 DEF LineIsWhole
<1> QED
  BY <1>2, <1>4, <1>6, <1>7

(* ... and finds it (ipc-peer.js:119-122).                                     *)
LEMMA QueueRunPressKeeps == IInv /\ QueueRunPress => IInv'
<1> SUFFICES ASSUME IInv, QueueRunPress PROVE IInv'
  OBVIOUS
<1> USE DEF IInv
<1> DEFINE a == Accepted(checked, TRUE)
<1>1. checked \in Nat /\ count \in 0..Depth /\ run \in Nat /\ run > 0
  BY DEF TypeOK, QueueRunPress
<1>2. a \in 0..(Depth - count) /\ a \in Nat
  <2>1. a \in 0..(Depth - count)
    BY <1>1, AcceptedFits, TRUE \in BOOLEAN
  <2>2. a \in Nat
    BY <1>1, <2>1, DepthNat, RoomArithmetic
  <2> QED
    BY <2>1, <2>2
<1>3. Push(a) /\ UNCHANGED host /\ checked' = 0 /\ run' = run - 1
      /\ last' = [last EXCEPT !.got = @ + a, !.over = run = 1]
  BY DEF QueueRunPress
<1> HIDE DEF a
<1>4. /\ q' \in [Slots -> Nat] /\ tail' \in Slots /\ count' \in 0..Depth /\ queued' \in Nat
      /\ NoDigitLost' /\ RingAgrees'
  BY <1>2, <1>3, PushKeeps DEF RingInv
<1>5. last' \in [by : {"nobody", "line", "run", "phone"}, asked : Nat, got : Nat, over : BOOLEAN]
  <2>1. last.got + a \in Nat
    BY <1>2 DEF TypeOK
  <2>2. (run = 1) \in BOOLEAN
    OBVIOUS
  <2> QED
    BY <1>3, <2>1, <2>2 DEF TypeOK
<1>6. last'.by = "run" /\ host # "android"
  BY <1>1, <1>3 DEF RoomLasts, TypeOK
<1>7. TypeOK'
  BY <1>1, <1>3, <1>4, <1>5 DEF TypeOK, Push
<1>8. RoomLasts'
  BY <1>1, <1>3, <1>4, <1>6, DepthAssumption DEF RoomLasts, Room
<1>9. LineIsWhole'
  BY <1>6 DEF LineIsWhole
<1> QED
  BY <1>4, <1>7, <1>8, <1>9

(* The phone queues without asking, and gets the count (okemu_jni.cpp).       *)
LEMMA AndroidQueueKeeps ==
  ASSUME IInv, NEW n \in 1..MaxLine, NEW valid \in BOOLEAN, AndroidQueue(n, valid)
  PROVE  IInv'
<1> USE DEF IInv
<1> DEFINE a == Accepted(n, valid)
<1>1. n \in Nat /\ count \in 0..Depth /\ checked = 0 /\ run = 0
  BY BoundAssumption DEF TypeOK, AndroidQueue, RoomLasts
<1>2. a \in 0..(Depth - count) /\ a \in Nat
  BY <1>1, AcceptedFits, DepthAssumption
<1>3. Push(a) /\ UNCHANGED <<host, checked, run>>
      /\ last' = [by |-> "phone", asked |-> n, got |-> a, over |-> TRUE]
  BY DEF AndroidQueue
<1> HIDE DEF a
<1>4. /\ q' \in [Slots -> Nat] /\ tail' \in Slots /\ count' \in 0..Depth /\ queued' \in Nat
      /\ NoDigitLost' /\ RingAgrees'
  BY <1>2, <1>3, PushKeeps DEF RingInv
<1>5. TypeOK'
  BY <1>1, <1>2, <1>3, <1>4 DEF TypeOK, Push
<1>6. RoomLasts'
  <2>1. checked' = 0 /\ run' = 0
    BY <1>1, <1>3
  <2>2. checked' <= Room'
    BY <1>4, <2>1, DepthNat, RoomArithmetic DEF Room
  <2> QED
    BY <2>1, <2>2 DEF RoomLasts
<1>7. LineIsWhole'
  BY <1>3 DEF LineIsWhole
<1> QED
  BY <1>4, <1>5, <1>6, <1>7

(* Every call of a host and every sense round keeps the invariant.            *)
LEMMA IInvNext == IInv /\ [Next]_vars => IInv'
<1> SUFFICES ASSUME IInv, [Next]_vars PROVE IInv'
  OBVIOUS
<1>1. CASE HostStep
  BY <1>1, CheckLineKeeps, StartRunKeeps, QueueLineKeeps, CheckRunPressKeeps,
     QueueRunPressKeeps, AndroidQueueKeeps DEF HostStep
<1>2. ASSUME NEW released \in BOOLEAN, SenseRound(released)
      PROVE  IInv'
  <2>1. RingInv'
    BY <1>2, SenseKeeps DEF IInv, RingInv
  <2>2. count' \in 0..Depth /\ count \in 0..Depth /\ count' <= count
    BY <1>2, DepthAssumption DEF IInv, TypeOK, SenseRound, TakePress, CanTake, ring
  <2>3. RoomLasts'
    <3>1. checked <= Room /\ UNCHANGED <<host, checked, run, last>>
      BY <1>2 DEF IInv, RoomLasts, SenseRound
    <3>2. count' \in Int /\ count \in Int /\ checked \in Int
      BY <1>2, <2>2, DepthNat DEF IInv, TypeOK
    <3>3. checked <= Room'
      BY <2>2, <3>1, <3>2, DepthNat, RoomArithmetic DEF Room
    <3> QED
      BY <3>1, <3>3 DEF IInv, RoomLasts
  <2>4. LineIsWhole'
    BY <1>2 DEF IInv, LineIsWhole, SenseRound
  <2> QED
    BY <2>1, <2>3, <2>4 DEF IInv, RingInv
<1>3. CASE UNCHANGED vars
  BY <1>3 DEF vars, IInv, TypeOK, NoDigitLost, RingAgrees, RoomLasts, LineIsWhole, Held, Slot, Room
<1> QED
  BY <1>1, <1>2, <1>3 DEF Next

-----------------------------------------------------------------------------
(* The theorems. *)

(* The invariant the runs' invariants follow from, in every behaviour of the   *)
(* ring, its hosts and the sense loop (okemu_press.cpp, index.js:137-181).     *)
THEOREM Inductive == Spec => []IInv
BY IInvInit, IInvNext, PTL DEF Spec

(* The ring's indices stay in the ring and its count within its depth        *)
(* (okemu_press.cpp:13-23).                                                  *)
THEOREM TypeCorrect == Spec => []TypeOK
<1>1. IInv => TypeOK
  BY DEF IInv
<1> QED
  BY <1>1, Inductive, PTL

(* Every accepted press is handed to payload() once, in order, or is still   *)
(* on its way (okemu_press.cpp:27-80).                                       *)
THEOREM PressesAreKept == Spec => []NoDigitLost
<1>1. IInv => NoDigitLost
  BY DEF IInv
<1> QED
  BY <1>1, Inductive, PTL

(* A line is queued whole or not at all: the room index.js checked is still  *)
(* there when it queues, whatever the firmware did in between                *)
(* (index.js:153-161, 172-181).                                              *)
THEOREM LinesAreWhole == Spec => []LineIsWhole
<1>1. IInv => LineIsWhole
  BY DEF IInv
<1> QED
  BY <1>1, Inductive, PTL
=============================================================================

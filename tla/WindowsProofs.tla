--------------------------- MODULE WindowsProofs ----------------------------
(***************************************************************************)
(* The Windows driver and the link that dials it.  A device's pipe handle   *)
(* is closed exactly once, whoever claims it: for any number of devices,    *)
(* sockets, starts, stops that give up, and clients that come, go or never  *)
(* read.  And the driver's ring loses and repeats no report between the     *)
(* threads that take from it: for any ring, number of threads and reports.  *)
(* The two specifications share no variable.                                *)
(***************************************************************************)
EXTENDS OkvhidLink, WinRing, TLAPS

-----------------------------------------------------------------------------
(* The handle of a device's pipe (WinPipe, OkvhidLink).                      *)

PipeSteps == {"none", "create", "busy", "publish", "accept", "hello", "read",
              "deliver", "unpublish", "claim", "close", "exit"}
StopSteps == {"no", "wait", "claim", "close"}

(* The part of the state the handle's ownership depends on. *)
HandleTypes ==
  /\ present \in [Devs -> {"no", "yes", "failed"}]
  /\ stopping \in [Devs -> BOOLEAN] /\ thread \in [Devs -> BOOLEAN]
  /\ abandoned \in [Devs -> BOOLEAN] /\ listen \in [Devs -> BOOLEAN]
  /\ pc \in [Devs -> PipeSteps] /\ stopPc \in [Devs -> StopSteps]
  /\ inst \in Devs \cup {None}

(* A device of no thread, and none abandoned, has none in its loop: a thread *)
(* started for it is alone.                                                 *)
ThreadAlone == \A d \in Devs : ~thread[d] /\ ~abandoned[d] => pc[d] \in {"none", "exit"}
(* Only a device that has been released is being stopped. *)
StopAfterRelease == \A d \in Devs : present[d] # "no" => stopPc[d] = "no"

(* OneCloser without the arithmetic: who may close d's handle, and that no   *)
(* two of them may.                                                         *)
OneOf(d) ==
  /\ inst = d <=> (pc[d] = "publish" \/ listen[d] \/ pc[d] = "close" \/ stopPc[d] = "close")
  /\ ~(pc[d] = "publish" /\ listen[d]) /\ ~(pc[d] = "publish" /\ stopPc[d] = "close")
  /\ ~(pc[d] = "close" /\ listen[d]) /\ ~(pc[d] = "close" /\ stopPc[d] = "close")
  /\ ~(listen[d] /\ stopPc[d] = "close")

IInv == HandleTypes /\ ThreadAlone /\ StopAfterRelease /\ \A d \in Devs : OneOf(d)

USE DEF PipeSteps, StopSteps, Goes, Set, Clear, Round, HandleOpen, LockFree, pnp, conn, os, driver, link

LEMMA CountClosers == ASSUME NEW d \in Devs, OneOf(d) PROVE Closers(d) = B(inst = d)
  BY DEF Closers, B, OneOf

LEMMA InitInv == Init => IInv
<1> SUFFICES ASSUME Init PROVE IInv
  OBVIOUS
<1>1. HandleTypes
  BY DEF Init, PipeInit, Nowhere, HandleTypes
<1>2. ThreadAlone /\ StopAfterRelease
  BY DEF Init, PipeInit, Nowhere, ThreadAlone, StopAfterRelease
<1>3. ASSUME NEW d \in Devs PROVE OneOf(d)
  <2>1. inst # d
    BY NoneAssumption DEF Init, PipeInit
  <2>2. pc[d] \notin {"publish", "close"} /\ ~listen[d] /\ stopPc[d] = "no"
    BY DEF Init, PipeInit, Nowhere
  <2> QED BY <2>1, <2>2 DEF OneOf
<1> QED BY <1>1, <1>2, <1>3 DEF IInv

(* Whatever leaves the threads, the claim and the handle alone. *)
LEMMA Unmoved ==
  ASSUME IInv, UNCHANGED <<thread, abandoned, listen, pc, stopPc, inst>>,
         stopping' = stopping,
         present' \in [Devs -> {"no", "yes", "failed"}],
         \A d \in Devs : present'[d] # "no" => present[d] # "no"
  PROVE  IInv'
  BY DEF IInv, HandleTypes, ThreadAlone, StopAfterRelease, OneOf

USE DEF IInv, HandleTypes, ThreadAlone, StopAfterRelease, OneOf

(* The thread: what it creates it publishes, and what it claims it closes.   *)
LEMMA ThreadInv == ASSUME IInv, NEW d \in Devs, ThreadStep(d) \/ Delivered(d) PROVE IInv'
<1>1. CASE Create(d)
  BY <1>1, NoneAssumption DEF Create
<1>2. CASE Busy(d)
  BY <1>2 DEF Busy
<1>3. CASE Publish(d)
  BY <1>3 DEF Publish
<1>4. CASE Accepted(d)
  BY <1>4 DEF Accepted
<1>5. CASE NotAccepted(d)
  BY <1>5 DEF NotAccepted
<1>6. CASE Hello(d)
  BY <1>6 DEF Hello, NextFrame
<1>7. CASE ReadInput(d)
  BY <1>7 DEF ReadInput, Reads
<1>8. CASE ReadUnplug(d)
  BY <1>8 DEF ReadUnplug, Reads, NextFrame
<1>9. CASE ReadEnds(d)
  BY <1>9 DEF ReadEnds
<1>10. CASE Unpublish(d)
  BY <1>10 DEF Unpublish
<1>11. CASE Claim(d)
  BY <1>11 DEF Claim, Take
<1>12. CASE Close(d)
  BY <1>12, NoneAssumption DEF Close, CloseHandle
<1>13. CASE Delivered(d)
  BY <1>13 DEF Delivered, NextFrame
<1> QED
  BY <1>1, <1>2, <1>3, <1>4, <1>5, <1>6, <1>7, <1>8, <1>9, <1>10, <1>11, <1>12, <1>13 DEF ThreadStep

LEMMA WriteInv == ASSUME IInv, NEW d \in Devs, WriteBegin(d) \/ WriterStep(d) PROVE IInv'
  BY Unmoved DEF WriteBegin, WriterStep, WriteDone, WriteFails

(* A new thread is alone in its loop, and a stop that gives up takes the     *)
(* claim from the thread it abandons.                                       *)
LEMMA PnpInv == ASSUME IInv, NEW d \in Devs, Prepare(d) \/ Release(d) \/ StopStep(d) PROVE IInv'
<1>1. CASE Prepare(d)
  <2>1. /\ \A e \in Devs : stopPc[e] = "no"
        /\ present' = [present EXCEPT ![d] = "yes"]
        /\ UNCHANGED <<abandoned, stopPc, listen, inst>>
    BY <1>1 DEF Prepare
  <2>2. CASE MayStart(d)
    <3>1. /\ stopping' = [stopping EXCEPT ![d] = FALSE] /\ thread' = [thread EXCEPT ![d] = TRUE]
          /\ pc' = [pc EXCEPT ![d] = "create"]
      BY <1>1, <2>2 DEF Prepare
    <3> QED BY <2>1, <2>2, <3>1 DEF MayStart
  <2>3. CASE ~MayStart(d)
    <3>1. UNCHANGED <<stopping, thread, pc>>
      BY <1>1, <2>3 DEF Prepare
    <3> QED BY <2>1, <3>1
  <2> QED BY <2>2, <2>3
<1>2. CASE Release(d)
  <2>1. /\ present[d] # "no" /\ present' = [present EXCEPT ![d] = "no"]
        /\ UNCHANGED <<thread, abandoned, listen, pc, inst>>
    BY <1>2 DEF Release
  <2>2. CASE UNCHANGED <<stopping, stopPc>>
    BY <2>1, <2>2
  <2>3. CASE stopping' = [stopping EXCEPT ![d] = TRUE] /\ stopPc' = [stopPc EXCEPT ![d] = "wait"]
    BY <2>1, <2>3
  <2> QED BY <1>2, <2>2, <2>3 DEF Release
<1>3. CASE StopJoins(d)
  BY <1>3 DEF StopJoins, Stops
<1>4. CASE StopGivesUp(d)
  BY <1>4 DEF StopGivesUp, Stops, Take
<1>5. CASE StopCloses(d)
  BY <1>5, NoneAssumption DEF StopCloses, Stops, CloseHandle
<1> QED BY <1>1, <1>2, <1>3, <1>4, <1>5 DEF StopStep

(* The emulator's end connects, writes and hangs up; the handle is not its.  *)
LEMMA LinkInv ==
  ASSUME IInv, NEW s \in Socks,
         \/ LinkStep(s) \/ RetryTimer(s) \/ PendingConnects(s) \/ PendingFails(s)
         \/ StartBridge(s) \/ Plug(s)
  PROVE  IInv'
<1>1. UNCHANGED <<pnp, listen, pc, inst>>
  BY DEF LinkStep, OnConnect, OnData, OnClose, RetryTimer, PendingConnects, PendingFails, StartBridge, Plug,
         Connect
<1> QED BY <1>1, Unmoved

LEMMA CommandInv ==
  ASSUME IInv, Unplug \/ Killed \/ \E frame \in {"input", "unplug"} : Write(frame) PROVE IInv'
<1>1. UNCHANGED <<pnp, listen, pc, inst>>
  BY DEF Unplug, Killed, Write
<1> QED BY <1>1, Unmoved

LEMMA StepInv == IInv /\ [Next]_vars => IInv'
<1> SUFFICES ASSUME IInv, [Next]_vars PROVE IInv'
  OBVIOUS
<1>1. CASE DriverNext
  BY <1>1, ThreadInv, WriteInv, PnpInv DEF DriverNext
<1>2. CASE UNCHANGED vars
  BY <1>2, Unmoved DEF vars
<1> HIDE DEF IInv
<1> QED BY <1>1, <1>2, LinkInv, CommandInv DEF Next

LEMMA Invariance == Spec => []IInv
<1> HIDE DEF IInv
<1> QED BY InitInv, StepInv, PTL DEF Spec

(* "The two sides never both close it": an open handle has exactly one party  *)
(* that will close it, and a closed one has none.                            *)
THEOREM OneCloserHolds == Spec => []OneCloser
<1>1. IInv => OneCloser
  BY CountClosers DEF OneCloser
<1> HIDE DEF IInv
<1> QED BY <1>1, Invariance, PTL
-----------------------------------------------------------------------------
(* The driver's ring of inbound reports (WinRing).                           *)

RingSteps == {"idle", "pop", "own", "park", "drain", "parked"}
Holding == {"own", "parked"}

(* What the places of a report are made of. *)
RingTypes ==
  /\ items \in [Slots -> Nat] /\ head \in Slots /\ count \in 0..Depth
  /\ step \in [Threads -> RingSteps] /\ hand \in [Threads -> Nat]
  /\ pushed \in Nat /\ count <= pushed

(* The ring is the newest reports, in their order, oldest first: the slot k  *)
(* after the oldest.  And a thread has a report in hand exactly when it is   *)
(* about to complete a request with it.                                      *)
Place(h, c, k) == Slot(Slot(h + Depth - c) + k)
RingIsNewest == \A k \in 0..(count - 1) : items[Place(head, count, k)] = pushed - count + 1 + k
HandIsReport == \A t \in Threads : hand[t] # 0 <=> step[t] \in Holding

RingInv == RingTypes /\ RingIsNewest /\ HandIsReport /\ EveryReportOnce

(* Going round the ring: a push leaves every report its place and puts the   *)
(* next one behind them, a pop leaves the places of those behind the oldest. *)
LEMMA Places ==
  ASSUME NEW h \in Slots, NEW c \in 0..Depth
  PROVE  /\ \A k \in 0..(Depth - 1) : Place(h, c, k) \in Slots
         /\ c < Depth => \A k \in 0..(c - 1) : Place(Slot(h + 1), c + 1, k) = Place(h, c, k)
         /\ c < Depth => Place(Slot(h + 1), c + 1, c) = h
         /\ c = Depth => \A k \in 0..(c - 2) : Place(Slot(h + 1), c, k) = Place(h, c, k + 1)
         /\ c = Depth => Place(Slot(h + 1), c, c - 1) = h
         /\ c > 0 => \A k \in 0..(c - 2) : Place(h, c - 1, k) = Place(h, c, k + 1)
         /\ c > 0 => Place(h, c, 0) = Slot(h + Depth - c)
         /\ c < Depth => \A k \in 0..(c - 1) : Place(h, c, k) # h
         /\ c = Depth => \A k \in 1..(c - 1) : Place(h, c, k) # h
<1>1. Depth \in Nat /\ Depth > 0 /\ h \in Nat /\ h < Depth /\ c \in Nat /\ c <= Depth
  BY RingAssumption DEF Slots
<1>2. \A k \in 0..(Depth - 1) : Place(h, c, k) \in Slots
  BY <1>1 DEF Place, Slot, Slots
<1>3. c < Depth => \A k \in 0..(c - 1) : Place(Slot(h + 1), c + 1, k) = Place(h, c, k)
  BY <1>1 DEF Place, Slot
<1>4. c < Depth => Place(Slot(h + 1), c + 1, c) = h
  BY <1>1 DEF Place, Slot
<1>5. c = Depth => \A k \in 0..(c - 2) : Place(Slot(h + 1), c, k) = Place(h, c, k + 1)
  BY <1>1 DEF Place, Slot
<1>6. c = Depth => Place(Slot(h + 1), c, c - 1) = h
  BY <1>1 DEF Place, Slot
<1>7. c > 0 => \A k \in 0..(c - 2) : Place(h, c - 1, k) = Place(h, c, k + 1)
  BY <1>1 DEF Place, Slot
<1>8. c > 0 => Place(h, c, 0) = Slot(h + Depth - c)
  BY <1>1 DEF Place, Slot
<1>9. c < Depth => \A k \in 0..(c - 1) : Place(h, c, k) # h
  BY <1>1 DEF Place, Slot
<1>10. c = Depth => \A k \in 1..(c - 1) : Place(h, c, k) # h
  BY <1>1 DEF Place, Slot
<1> QED BY <1>2, <1>3, <1>4, <1>5, <1>6, <1>7, <1>8, <1>9, <1>10

LEMMA RingInitInv == RingInit => RingInv
<1> SUFFICES ASSUME RingInit PROVE RingInv
  OBVIOUS
<1>1. RingTypes
  BY RingAssumption DEF RingInit, RingTypes, RingSteps, Slots
<1>2. RingIsNewest /\ HandIsReport
  BY DEF RingInit, RingIsNewest, HandIsReport, Holding
<1>3. InHand = {}
  BY DEF RingInit, InHand
<1>4. EveryReportOnce
  BY <1>3 DEF RingInit, EveryReportOnce
<1> QED BY <1>1, <1>2, <1>4 DEF RingInv

(* The next report out of the ring is none of those already out. *)
LEMMA NextIsNew ==
  ASSUME RingInv
  PROVE  /\ pushed - count \in Nat /\ 1..(pushed - count + 1) = 1..(pushed - count) \cup {pushed - count + 1}
         /\ pushed - count + 1 \notin read \cup InHand \cup dropped
         /\ count > 0 => items[Oldest] = pushed - count + 1
<1>1. pushed - count \in Nat /\ count \in Nat /\ count <= Depth /\ Depth \in Nat /\ head \in Slots
  BY RingAssumption DEF RingInv, RingTypes
<1>2. 1..(pushed - count + 1) = 1..(pushed - count) \cup {pushed - count + 1}
  BY <1>1
<1>3. pushed - count + 1 \notin 1..(pushed - count)
  BY <1>1
<1>4. ASSUME count > 0 PROVE items[Oldest] = pushed - count + 1
  <2>1. Place(head, count, 0) = Oldest
    BY <1>1, <1>4, Places DEF Oldest
  <2>2. items[Place(head, count, 0)] = pushed - count + 1 + 0
    BY <1>1, <1>4 DEF RingInv, RingIsNewest
  <2> QED BY <1>1, <2>1, <2>2
<1> QED BY <1>1, <1>2, <1>3, <1>4 DEF RingInv, EveryReportOnce

(* The pipe thread's push: one more in the ring, or the oldest overwritten.  *)
LEMMA PushRing == ASSUME RingInv, Push PROVE RingInv'
<1>1. /\ items' = [items EXCEPT ![head] = pushed + 1] /\ head' = Slot(head + 1)
      /\ pushed' = pushed + 1 /\ step' = [step EXCEPT ![Pipe] = "drain"] /\ step[Pipe] = "idle"
      /\ hand' = hand /\ read' = read
  BY DEF Push
<1>2. /\ items \in [Slots -> Nat] /\ head \in Slots /\ count \in 0..Depth /\ pushed \in Nat
      /\ count <= pushed /\ step \in [Threads -> RingSteps] /\ Depth \in Nat /\ Depth > 0
  BY RingAssumption DEF RingInv, RingTypes
<1>3. head' \in Slots
  BY <1>1, <1>2 DEF Slots, Slot
<1>4. items' \in [Slots -> Nat] /\ step' \in [Threads -> RingSteps]
  <2>1. pushed + 1 \in Nat /\ "drain" \in RingSteps
    BY <1>2 DEF RingSteps
  <2> QED BY <1>1, <1>2, <2>1
<1>5. HandIsReport' /\ InHand' = InHand
  <2>1. \A t \in Threads : step'[t] \in Holding <=> step[t] \in Holding
    BY <1>1, <1>2 DEF Holding
  <2> QED BY <1>1, <2>1 DEF RingInv, HandIsReport, InHand, Holding
<1>6. CASE count # Depth
  <2>1. count' = count + 1 /\ dropped' = dropped
    BY <1>6 DEF Push
  <2>2. RingTypes'
    BY <1>1, <1>2, <1>3, <1>4, <1>6, <2>1 DEF RingInv, RingTypes
  <2>0. /\ \A k \in 0..(count - 1) : Place(Slot(head + 1), count + 1, k) = Place(head, count, k)
        /\ \A k \in 0..(count - 1) : Place(head, count, k) # head
    <3>1. count < Depth
      BY <1>2, <1>6
    <3> QED BY <1>2, <3>1, Places
  <2>3. ASSUME NEW k \in 0..count PROVE items'[Place(head', count', k)] = pushed - count + 1 + k
    <3>1. CASE k = count
      <4>1. Place(head', count', k) = head
        BY <1>1, <1>2, <1>6, <2>1, <3>1, Places
      <4> QED BY <1>1, <1>2, <3>1, <4>1
    <3>2. CASE k < count
      <4>1. Place(head', count', k) = Place(head, count, k) /\ Place(head, count, k) # head
        BY <1>1, <1>2, <2>0, <2>1, <3>2
      <4>2. Place(head, count, k) \in Slots
        BY <1>2, <3>2, Places
      <4>3. items[Place(head, count, k)] = pushed - count + 1 + k
        BY <1>2, <3>2 DEF RingInv, RingIsNewest
      <4> QED BY <1>1, <1>2, <4>1, <4>2, <4>3
    <3> QED BY <1>2, <3>1, <3>2
  <2>4. count' - 1 = count /\ pushed' - count' = pushed - count
    BY <1>1, <1>2, <2>1
  <2>5. RingIsNewest'
    BY <2>3, <2>4 DEF RingIsNewest, Place, Slot
  <2>6. EveryReportOnce'
    BY <1>1, <1>5, <2>1, <2>4 DEF RingInv, EveryReportOnce
  <2> QED BY <1>5, <2>2, <2>5, <2>6 DEF RingInv
<1>7. CASE count = Depth
  <2>1. count' = count /\ dropped' = dropped \cup {items[Oldest]}
    BY <1>7 DEF Push
  <2>2. RingTypes'
    BY <1>1, <1>2, <1>3, <1>4, <1>7, <2>1 DEF RingInv, RingTypes
  <2>0. /\ \A k \in 0..(count - 2) : Place(Slot(head + 1), count, k) = Place(head, count, k + 1)
        /\ \A k \in 1..(count - 1) : Place(head, count, k) # head
    BY <1>2, <1>7, Places
  <2>3. ASSUME NEW k \in 0..(count - 1)
        PROVE  items'[Place(head', count', k)] = pushed' - count' + 1 + k
    <3>1. CASE k = count - 1
      <4>1. Place(head', count', k) = head
        BY <1>1, <1>2, <1>7, <2>1, <3>1, Places
      <4> QED BY <1>1, <1>2, <2>1, <3>1, <4>1
    <3>2. CASE k < count - 1
      <4>0. k \in 0..(count - 2) /\ k + 1 \in 1..(count - 1)
        BY <1>2, <3>2
      <4>1. Place(head', count', k) = Place(head, count, k + 1) /\ Place(head, count, k + 1) # head
        BY <1>1, <2>0, <2>1, <4>0
      <4>2. Place(head, count, k + 1) \in Slots
        BY <1>2, <3>2, Places
      <4>3. items[Place(head, count, k + 1)] = pushed - count + 1 + (k + 1)
        BY <1>2, <3>2 DEF RingInv, RingIsNewest
      <4> QED BY <1>1, <1>2, <2>1, <4>1, <4>2, <4>3
    <3> QED BY <1>2, <3>1, <3>2
  <2>4. RingIsNewest'
    BY <2>1, <2>3 DEF RingIsNewest, Place, Slot
  <2>5. items[Oldest] = pushed - count + 1
    BY <1>2, <1>7, NextIsNew
  <2>6. pushed' - count' = pushed - count + 1
    BY <1>1, <1>2, <2>1
  <2>7. EveryReportOnce'
    BY <1>1, <1>5, <2>1, <2>5, <2>6, NextIsNew DEF RingInv, EveryReportOnce
  <2> QED BY <1>5, <2>2, <2>4, <2>7 DEF RingInv
<1> QED BY <1>6, <1>7

(* A pop: the oldest report goes into the hands of a thread that had none.   *)
LEMMA PopRing ==
  ASSUME RingInv, NEW t \in Threads, Pop(t), count > 0, step[t] \in {"pop", "drain"},
         NEW at \in Holding, step' = [step EXCEPT ![t] = at],
         UNCHANGED <<items, head, pushed, dropped, read>>
  PROVE  RingInv'
<1> DEFINE n == pushed - count + 1
<1>1. /\ count \in 0..Depth /\ Depth \in Nat /\ pushed \in Nat /\ head \in Slots
      /\ step \in [Threads -> RingSteps] /\ hand \in [Threads -> Nat] /\ count <= pushed
      /\ items \in [Slots -> Nat]
  BY RingAssumption DEF RingInv, RingTypes
<1>2. n \in Nat /\ n # 0 /\ items[Oldest] = n /\ n \notin read \cup InHand \cup dropped
  BY <1>1, NextIsNew
<1>3. hand' = [hand EXCEPT ![t] = n] /\ count' = count - 1 /\ hand[t] = 0 /\ step[t] \notin Holding
  BY <1>2 DEF Pop, RingInv, HandIsReport, Holding
<1>4. count' \in 0..Depth /\ count' <= pushed /\ pushed' - count' = n /\ 1..n = 1..(pushed - count) \cup {n}
  BY <1>1, <1>3, NextIsNew
<1>5. hand' \in [Threads -> Nat] /\ step' \in [Threads -> RingSteps]
  BY <1>1, <1>2, <1>3 DEF RingSteps, Holding
<1>6. RingTypes'
  BY <1>1, <1>4, <1>5 DEF RingTypes
<1>7. RingIsNewest'
  <2>1. ASSUME NEW k \in 0..(count' - 1) PROVE items[Place(head, count', k)] = n + 1 + k
    <3>1. Place(head, count', k) = Place(head, count, k + 1)
      BY <1>1, <1>3, Places
    <3>2. k + 1 \in 0..(count - 1)
      BY <1>1, <1>3
    <3>3. items[Place(head, count, k + 1)] = pushed - count + 1 + (k + 1)
      BY <3>2 DEF RingInv, RingIsNewest
    <3> QED BY <1>1, <3>1, <3>3
  <2> QED BY <1>4, <2>1 DEF RingIsNewest, Place, Slot
<1> HIDE DEF n
<1>8. HandIsReport'
  BY <1>1, <1>2, <1>3 DEF RingInv, HandIsReport
<1>9. InHand' = InHand \cup {n}
  <2>1. InHand = {hand[u] : u \in {v \in Threads : step[v] \in Holding}}
    BY DEF InHand, Holding
  <2>2. InHand' = {hand'[u] : u \in {v \in Threads : step'[v] \in Holding}}
    BY DEF InHand, Holding
  <2> QED BY <1>1, <1>3, <2>1, <2>2
<1>10. ASSUME NEW u \in Threads, NEW v \in Threads, u # v, hand'[u] # 0 PROVE hand'[u] # hand'[v]
  <2>1. \A w \in Threads : hand[w] # 0 => hand[w] # n
    BY <1>2 DEF RingInv, HandIsReport, InHand, Holding
  <2> QED BY <1>1, <1>2, <1>3, <1>10, <2>1 DEF RingInv, EveryReportOnce
<1>11. EveryReportOnce'
  BY <1>2, <1>4, <1>9, <1>10 DEF RingInv, EveryReportOnce
<1> QED BY <1>6, <1>7, <1>8, <1>11 DEF RingInv

(* A completed request: its report is the host's, and nobody else's.         *)
LEMMA CompleteRing == ASSUME RingInv, NEW t \in Threads, Complete(t) PROVE RingInv'
<1>1. /\ step \in [Threads -> RingSteps] /\ hand \in [Threads -> Nat]
  BY DEF RingInv, RingTypes
<1>2. /\ step[t] \in Holding /\ hand[t] # 0
      /\ read' = read \cup {hand[t]} /\ hand' = [hand EXCEPT ![t] = 0]
      /\ UNCHANGED <<items, head, count, pushed, dropped>>
      /\ \E at \in RingSteps \ Holding : step' = [step EXCEPT ![t] = at]
  <2>1. step[t] \in Holding /\ UNCHANGED <<items, head, count, pushed, dropped>>
        /\ read' = read \cup {hand[t]} /\ hand' = [hand EXCEPT ![t] = 0]
    BY DEF Complete, Holding, ring
  <2>2. hand[t] # 0
    BY <2>1 DEF RingInv, HandIsReport
  <2>3. step' = [step EXCEPT ![t] = "idle"] \/ step' = [step EXCEPT ![t] = "drain"]
    BY DEF Complete
  <2>4. "idle" \in RingSteps \ Holding /\ "drain" \in RingSteps \ Holding
    BY DEF RingSteps, Holding
  <2> QED BY <2>1, <2>2, <2>3, <2>4
<1>3. RingTypes' /\ RingIsNewest'
  BY <1>1, <1>2 DEF RingInv, RingTypes, RingIsNewest, Place, Slot
<1>4. HandIsReport'
  BY <1>1, <1>2 DEF RingInv, HandIsReport
<1>5. InHand = InHand' \cup {hand[t]} /\ hand[t] \notin InHand'
  <2>1. InHand = {hand[u] : u \in {v \in Threads : step[v] \in Holding}}
    BY DEF InHand, Holding
  <2>2. InHand' = {hand'[u] : u \in {v \in Threads : step'[v] \in Holding}}
    BY DEF InHand, Holding
  <2>3. \A u \in Threads : step'[u] \in Holding <=> u # t /\ step[u] \in Holding
    BY <1>1, <1>2
  <2>4. \A u \in Threads : u # t => hand'[u] = hand[u] /\ hand[u] # hand[t]
    BY <1>1, <1>2 DEF RingInv, EveryReportOnce
  <2> QED BY <1>2, <2>1, <2>2, <2>3, <2>4
<1>6. ASSUME NEW u \in Threads, NEW v \in Threads, u # v, hand'[u] # 0 PROVE hand'[u] # hand'[v]
  BY <1>1, <1>2, <1>6 DEF RingInv, EveryReportOnce
<1>7. EveryReportOnce'
  BY <1>2, <1>5, <1>6 DEF RingInv, EveryReportOnce
<1> QED BY <1>3, <1>4, <1>7 DEF RingInv

(* What moves no report. *)
LEMMA RingUnmoved ==
  ASSUME RingInv, UNCHANGED <<items, head, count, hand, pushed, dropped, read>>,
         step' \in [Threads -> RingSteps],
         \A t \in Threads : step'[t] \in Holding <=> step[t] \in Holding
  PROVE  RingInv'
<1>1. InHand' = InHand
  BY DEF InHand, Holding
<1>2. RingTypes' /\ RingIsNewest' /\ HandIsReport'
  BY DEF RingInv, RingTypes, RingIsNewest, HandIsReport, Place, Slot
<1> QED BY <1>1, <1>2 DEF RingInv, EveryReportOnce

LEMMA RingStepInv == RingInv /\ [RingNext]_ringVars => RingInv'
<1> SUFFICES ASSUME RingInv, [RingNext]_ringVars PROVE RingInv'
  OBVIOUS
<1>0. step \in [Threads -> RingSteps]
  BY DEF RingInv, RingTypes
<1>1. CASE UNCHANGED ringVars
  BY <1>0, <1>1, RingUnmoved DEF ringVars, ring
<1>2. CASE Push
  BY <1>2, PushRing
<1>3. CASE Cancel
  BY <1>0, <1>3, RingUnmoved DEF Cancel, ring
<1>4. ASSUME NEW t \in Readers, Issue(t) \/ ReaderStep(t) PROVE RingInv'
  <2>0. t \in Threads
    BY DEF Threads
  <2>1. CASE Issue(t)
    <3>1. step[t] = "idle" /\ step' = [step EXCEPT ![t] = "pop"]
          /\ UNCHANGED <<items, head, count, hand, pushed, dropped, read>>
      BY <2>1 DEF Issue, ring
    <3> QED BY <1>0, <2>0, <3>1, RingUnmoved DEF RingSteps, Holding
  <2>2. CASE Park(t)
    <3>1. step[t] = "park" /\ step' = [step EXCEPT ![t] = "drain"]
          /\ UNCHANGED <<items, head, count, hand, pushed, dropped, read>>
      BY <2>2 DEF Park, ring
    <3> QED BY <1>0, <2>0, <3>1, RingUnmoved DEF RingSteps, Holding
  <2>3. CASE TryPopInput(t) /\ count > 0
    BY <2>0, <2>3, PopRing DEF TryPopInput, Holding
  <2>4. CASE TryPopInput(t) /\ ~(count > 0)
    <3>1. step[t] = "pop" /\ step' = [step EXCEPT ![t] = "park"]
          /\ UNCHANGED <<items, head, count, hand, pushed, dropped, read>>
      BY <2>4 DEF TryPopInput
    <3> QED BY <1>0, <2>0, <3>1, RingUnmoved DEF RingSteps, Holding
  <2> QED BY <1>4, <2>1, <2>2, <2>3, <2>4 DEF ReaderStep
<1>5. ASSUME NEW t \in Threads, Step(t) PROVE RingInv'
  <2>1. CASE Complete(t)
    BY <2>1, CompleteRing
  <2>2. CASE DrainOnce(t) /\ count > 0 /\ parked > 0
    BY <2>2, PopRing DEF DrainOnce, Holding
  <2>3. CASE DrainOnce(t) /\ ~(count > 0 /\ parked > 0)
    <3>1. step[t] = "drain" /\ step' = [step EXCEPT ![t] = "idle"]
          /\ UNCHANGED <<items, head, count, hand, pushed, dropped, read>>
      BY <2>3 DEF DrainOnce
    <3> QED BY <1>0, <3>1, RingUnmoved DEF RingSteps, Holding
  <2> QED BY <1>5, <2>1, <2>2, <2>3 DEF Step
<1> QED BY <1>1, <1>2, <1>3, <1>4, <1>5 DEF RingNext

(* Every report sent to the driver is in one place - the ring, one thread's  *)
(* hands, the host, or overwritten (OkvhidDrain and OkvhidReadReport never    *)
(* complete two requests with one report, bridge.c:98-156, hid.c:241-288).    *)
THEOREM EveryReportOnceHolds == RingSpec => []EveryReportOnce
<1>1. RingInv => EveryReportOnce
  BY DEF RingInv
<1> QED BY <1>1, RingInitInv, RingStepInv, PTL DEF RingSpec
=============================================================================

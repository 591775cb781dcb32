--------------------------- MODULE HidQueueProofs ---------------------------
(***************************************************************************)
(* The inbound queue's safety invariants, for any number of host threads    *)
(* and any number of reports; and, of its composition with the press queue,  *)
(* that no press overtakes a frame.                                         *)
(***************************************************************************)
EXTENDS DeviceInput, SequenceTheorems, WellFoundedInduction, TLAPS

-----------------------------------------------------------------------------
(* What taking an entry out of the middle of the deque leaves. *)
LEMMA RemoveAtSeq ==
  ASSUME NEW S, NEW s \in Seq(S), NEW i \in 1..Len(s)
  PROVE  /\ RemoveAt(s, i) \in Seq(S)
         /\ Len(RemoveAt(s, i)) = Len(s) - 1
         /\ \A k \in 1..(Len(s) - 1) :
              RemoveAt(s, i)[k] = IF k < i THEN s[k] ELSE s[k + 1]
<1> DEFINE a == SubSeq(s, 1, i - 1)
           b == SubSeq(s, i + 1, Len(s))
<1>1. /\ a \in Seq(S) /\ Len(a) = i - 1
      /\ \A k \in 1..(i - 1) : a[k] = s[k]
  BY SubSeqProperties
<1>2. /\ b \in Seq(S) /\ Len(b) = Len(s) - i
      /\ \A k \in 1..(Len(s) - i) : b[k] = s[i + k]
  BY SubSeqProperties
<1>3. RemoveAt(s, i) = a \o b
  BY DEF RemoveAt
<1> HIDE DEF a, b
<1>4. /\ a \o b \in Seq(S)
      /\ Len(a \o b) = Len(a) + Len(b)
      /\ \A k \in 1..(Len(a) + Len(b)) :
           (a \o b)[k] = IF k <= Len(a) THEN a[k] ELSE b[k - Len(a)]
  BY <1>1, <1>2, ConcatProperties
<1>5. Len(a) + Len(b) = Len(s) - 1
  BY <1>1, <1>2
<1>6. ASSUME NEW k \in 1..(Len(s) - 1)
      PROVE  (a \o b)[k] = IF k < i THEN s[k] ELSE s[k + 1]
  <2>1. CASE k < i
    BY <1>1, <1>4, <1>5, <2>1
  <2>2. CASE ~(k < i)
    <3>1. /\ k - (i - 1) \in 1..(Len(s) - i)
          /\ i + (k - (i - 1)) = k + 1
      BY <2>2
    <3>2. (a \o b)[k] = b[k - (i - 1)]
      BY <1>1, <1>4, <1>5, <2>2
    <3> QED
      BY <1>2, <2>2, <3>1, <3>2
  <2> QED
    BY <2>1, <2>2
<1> QED
  BY <1>3, <1>4, <1>5, <1>6

-----------------------------------------------------------------------------
(* The three things that happen to the deque: a push, a take, a wipe. *)

(* The bounds are numbers, whichever interface they bound.                    *)
LEMMA LimitType == \A i \in Ifaces : Limit[i] \in Nat
BY BoundsAssumption DEF Limit, Ifaces, HidIfaces

(* A push: the next number of its interface, at the back. *)
LEMMA DeliverQueue ==
  ASSUME QueueInv, NEW c \in Callers, NEW iface \in HidIfaces, NEW w \in BOOLEAN,
         Deliver(c, iface, w)
  PROVE  QueueInv'
<1> DEFINE e == [iface |-> iface, seq |-> pushed[iface] + 1]
<1> USE DEF QueueInv
<1>1. /\ e \in InPkt /\ pushed[iface] \in Nat /\ iface \in Ifaces
      /\ hid_in \in Seq(InPkt) /\ hid_in' = Append(hid_in, e)
  BY SMTT(30) DEF TypeOK, Deliver, InPkt, HidIfaces, Ifaces
<1>2. /\ hid_in' \in Seq(InPkt) /\ Len(hid_in') = Len(hid_in) + 1
      /\ \A k \in 1..Len(hid_in) : hid_in'[k] = hid_in[k]
      /\ hid_in'[Len(hid_in) + 1] = e
      /\ Len(hid_in) \in Nat
  BY <1>1
<1> HIDE DEF e
<1>3. /\ pushed' \in [Ifaces -> Nat]
      /\ pushed'[iface] = pushed[iface] + 1
      /\ \A i \in Ifaces : i # iface => pushed'[i] = pushed[i]
      /\ vendor_pushed' = IF iface = "vendor" THEN vendor_pushed + 1 ELSE vendor_pushed
      /\ pushed[iface] + 1 <= Limit[iface]
      /\ vendor_taken' = vendor_taken /\ wipeMark' = wipeMark
      /\ vendor_taken \in 0..vendor_pushed /\ vendor_pushed \in Nat
  BY <1>1, LimitType DEF TypeOK, Deliver
<1>4. CountsAgree'
  <2>1. pushed'["vendor"] = vendor_pushed'
    BY <1>3 DEF CountsAgree, HidIfaces, Ifaces
  <2>2. ASSUME NEW i \in Ifaces
        PROVE  pushed'[i] <= Limit[i] /\ wipeMark'[i] <= pushed'[i]
    <3>1. /\ pushed[i] \in Nat /\ pushed'[i] \in Nat /\ wipeMark[i] \in Nat
          /\ pushed[i] <= Limit[i] /\ wipeMark[i] <= pushed[i] /\ Limit[i] \in Nat
      BY <1>3, LimitType DEF CountsAgree, TypeOK
    <3> QED
      BY SMTT(30), <1>1, <1>3, <3>1
  <2> QED
    BY <2>1, <2>2 DEF CountsAgree
<1>5. TypeOK'
  <2>1. vendor_pushed' \in 0..MaxVendor /\ vendor_taken' \in 0..vendor_pushed'
    BY <1>3, <1>4, BoundsAssumption DEF CountsAgree, Limit, Ifaces, HidIfaces
  <2>2. ticket' \in [Callers -> 0..MaxVendor]
    BY <1>3, <2>1, BoundsAssumption DEF TypeOK, Deliver
  <2>3. pc' \in [Callers -> {"idle", "notify", "wait", "asleep", "done"}]
    BY DEF TypeOK, Deliver
  <2>4. /\ waits' \in [Callers -> BOOLEAN]
        /\ answer' \in [Callers -> BOOLEAN]
    BY DEF TypeOK, Deliver
  <2>5. /\ seremu_in' \in Seq(Nat)
        /\ fw' \in {"loop", "asleep", "woken", "wiping"}
        /\ log' \in Seq(InPkt)
        /\ wipeMark' \in [Ifaces -> Nat]
    BY DEF TypeOK, Deliver
  <2> QED
    BY <1>2, <1>3, <2>1, <2>2, <2>3, <2>4, <2>5 DEF TypeOK
<1>6. DequeOrder'
  <2>1. ASSUME NEW i \in 1..Len(hid_in')
        PROVE  0 < hid_in'[i].seq /\ hid_in'[i].seq <= pushed'[hid_in'[i].iface]
    <3>1. CASE i = Len(hid_in) + 1
      BY <1>1, <1>2, <3>1 DEF e, Deliver, TypeOK
    <3>2. CASE i \in 1..Len(hid_in)
      <4>1. hid_in[i] \in InPkt /\ hid_in[i].iface \in Ifaces /\ hid_in[i].seq \in Nat
        <5>1. hid_in[i] \in InPkt
          BY <1>1, <3>2
        <5> QED
          BY <5>1 DEF InPkt, Ifaces
      <4>2. 0 < hid_in[i].seq /\ hid_in[i].seq <= pushed[hid_in[i].iface]
        BY <3>2 DEF DequeOrder
      <4>3. ASSUME NEW f \in Ifaces
            PROVE  pushed[f] <= pushed'[f] /\ pushed[f] \in Nat /\ pushed'[f] \in Nat
        <5>1. pushed[f] \in Nat /\ pushed'[f] \in Nat
          BY <1>3 DEF TypeOK
        <5> QED
          BY <1>3, <5>1
      <4>4. hid_in'[i] = hid_in[i]
        BY <1>2, <3>2
      <4> QED
        BY <4>1, <4>2, <4>3, <4>4
    <3> QED
      BY <1>2, <3>1, <3>2
  <2>2. ASSUME NEW i \in 1..Len(hid_in'), NEW j \in 1..Len(hid_in'),
               i < j, hid_in'[i].iface = hid_in'[j].iface
        PROVE  hid_in'[i].seq < hid_in'[j].seq
    <3>1. CASE j = Len(hid_in) + 1
      <4>1. i \in 1..Len(hid_in) /\ hid_in[i] \in InPkt
        BY <1>1, <1>2, <2>2, <3>1
      <4>2. hid_in[i].seq <= pushed[iface] /\ hid_in[i].seq \in Nat
        BY <1>2, <2>2, <3>1, <4>1 DEF e, DequeOrder, InPkt
      <4> QED
        BY <1>1, <1>2, <3>1, <4>1, <4>2 DEF e
    <3>2. CASE j \in 1..Len(hid_in)
      BY <1>2, <2>2, <3>2 DEF DequeOrder
    <3> QED
      BY <1>2, <3>1, <3>2
  <2> QED
    BY <2>1, <2>2 DEF DequeOrder
<1>7. TicketTruth'
  <2>1. ASSUME NEW n \in 1..vendor_pushed'
        PROVE  (\E i \in 1..Len(hid_in') : hid_in'[i] = [iface |-> "vendor", seq |-> n])
                 <=> n > vendor_taken'
    <3>1. (\E i \in 1..Len(hid_in') : hid_in'[i] = [iface |-> "vendor", seq |-> n])
            <=> \/ \E i \in 1..Len(hid_in) : hid_in[i] = [iface |-> "vendor", seq |-> n]
                \/ e = [iface |-> "vendor", seq |-> n]
      BY <1>2
    <3>2. CASE n \in 1..vendor_pushed
      <4>1. e # [iface |-> "vendor", seq |-> n]
        BY <1>1, <3>2 DEF e, CountsAgree
      <4> QED
        BY <1>3, <3>1, <3>2, <4>1 DEF TicketTruth, Queued
    <3>3. CASE n \notin 1..vendor_pushed
      <4>1. iface = "vendor" /\ n = vendor_pushed + 1
        BY <1>3, <3>3
      <4> QED
        BY <1>3, <3>1, <4>1 DEF e, CountsAgree
    <3> QED
      BY <3>2, <3>3
  <2> QED
    BY <2>1 DEF TicketTruth, Queued
<1> QED
  BY <1>4, <1>5, <1>6, <1>7

(* What is taken is the first of its interface, and a vendor report is the   *)
(* one the next count of vendor_taken stands for.                            *)
LEMMA TakeFacts ==
  ASSUME QueueInv, Take
  PROVE  \E i \in 1..Len(hid_in) :
           /\ hid_in' = RemoveAt(hid_in, i)
           /\ log' = Append(log, hid_in[i])
           /\ hid_in[i] \in InPkt
           /\ \A j \in 1..Len(hid_in) :
                j # i /\ hid_in[j].iface = hid_in[i].iface => hid_in[i].seq < hid_in[j].seq
           /\ \/ /\ hid_in[i] = [iface |-> "vendor", seq |-> vendor_taken + 1]
                 /\ vendor_taken' = vendor_taken + 1
                 /\ vendor_taken + 1 <= vendor_pushed
                 /\ WakeWaiters
              \/ /\ hid_in[i].iface = "fido"
                 /\ UNCHANGED <<vendor_taken, pc>>
<1> USE DEF QueueInv
<1>1. PICK i \in 1..Len(hid_in) :
        /\ IsNext(i)
        /\ hid_in' = RemoveAt(hid_in, i)
        /\ log' = Append(log, hid_in[i])
        /\ IF hid_in[i].iface = "vendor"
           THEN vendor_taken' = vendor_taken + 1 /\ WakeWaiters
           ELSE UNCHANGED <<vendor_taken, pc>>
  BY DEF Take
<1>2. /\ hid_in \in Seq(InPkt) /\ Len(hid_in) \in Nat
      /\ \A j \in 1..Len(hid_in) : hid_in[j] \in InPkt
  BY DEF TypeOK
<1>3. \A j \in 1..Len(hid_in) :
        j # i /\ hid_in[j].iface = hid_in[i].iface => hid_in[i].seq < hid_in[j].seq
  <2>1. ASSUME NEW j \in 1..Len(hid_in), j # i, hid_in[j].iface = hid_in[i].iface
        PROVE  i < j
    BY <1>1, <1>2, <2>1 DEF IsNext, InPkt, HidIfaces
  <2> QED
    BY <1>2, <2>1 DEF DequeOrder
<1>4. ASSUME hid_in[i].iface = "vendor"
      PROVE  hid_in[i] = [iface |-> "vendor", seq |-> vendor_taken + 1] /\ vendor_taken + 1 <= vendor_pushed
  <2> DEFINE n == hid_in[i].seq
  <2>1. n \in 1..vendor_pushed /\ hid_in[i] = [iface |-> "vendor", seq |-> n] /\ vendor_pushed \in Nat
    <3>1. hid_in[i] = [iface |-> "vendor", seq |-> n] /\ n \in Nat
      BY <1>2, <1>4 DEF InPkt
    <3>2. 0 < n /\ n <= pushed["vendor"]
      BY <1>2, <1>4 DEF DequeOrder
    <3>3. pushed["vendor"] = vendor_pushed /\ vendor_pushed \in Nat
      BY DEF CountsAgree, TypeOK
    <3> QED
      BY <3>1, <3>2, <3>3
  <2>2. n > vendor_taken /\ vendor_taken \in Nat
    BY <2>1 DEF TicketTruth, Queued, TypeOK
  <2>3. Queued("vendor", vendor_taken + 1)
    BY <2>1, <2>2 DEF TicketTruth
  <2>4. PICK j \in 1..Len(hid_in) : hid_in[j] = [iface |-> "vendor", seq |-> vendor_taken + 1]
    BY <2>3 DEF Queued
  <2>5. j = i
    BY <1>3, <1>4, <2>1, <2>2, <2>4
  <2> QED
    BY <2>1, <2>4, <2>5
<1> QED
  BY <1>1, <1>2, <1>3, <1>4 DEF InPkt, HidIfaces

(* The deque after a take is the deque before it with one entry fewer. *)
LEMMA TakeQueue ==
  ASSUME QueueInv, Take, fw' \in {"loop", "asleep", "woken", "wiping"},
         UNCHANGED <<vendor_pushed, seremu_in, ticket, waits, answer, pushed, wipeMark>>
  PROVE  QueueInv'
<1> USE DEF QueueInv
<1>1. PICK i \in 1..Len(hid_in) :
        /\ hid_in' = RemoveAt(hid_in, i)
        /\ log' = Append(log, hid_in[i])
        /\ hid_in[i] \in InPkt
        /\ \A j \in 1..Len(hid_in) :
             j # i /\ hid_in[j].iface = hid_in[i].iface => hid_in[i].seq < hid_in[j].seq
        /\ \/ /\ hid_in[i] = [iface |-> "vendor", seq |-> vendor_taken + 1]
              /\ vendor_taken' = vendor_taken + 1
              /\ vendor_taken + 1 <= vendor_pushed
              /\ WakeWaiters
           \/ /\ hid_in[i].iface = "fido"
              /\ UNCHANGED <<vendor_taken, pc>>
  BY TakeFacts
<1>2. /\ hid_in \in Seq(InPkt) /\ Len(hid_in) \in Nat
      /\ vendor_taken \in 0..vendor_pushed /\ vendor_pushed \in Nat
  BY DEF TypeOK
<1>3. /\ hid_in' \in Seq(InPkt)
      /\ Len(hid_in') = Len(hid_in) - 1
      /\ \A k \in 1..Len(hid_in') :
           hid_in'[k] = IF k < i THEN hid_in[k] ELSE hid_in[k + 1]
  <2>1. /\ RemoveAt(hid_in, i) \in Seq(InPkt)
        /\ Len(RemoveAt(hid_in, i)) = Len(hid_in) - 1
        /\ \A k \in 1..(Len(hid_in) - 1) :
             RemoveAt(hid_in, i)[k] = IF k < i THEN hid_in[k] ELSE hid_in[k + 1]
    <3>1. hid_in \in Seq(InPkt)
      BY <1>2
    <3> HIDE DEF QueueInv
    <3> QED
      BY ONLY <3>1, RemoveAtSeq
  <2>2. hid_in' = RemoveAt(hid_in, i)
    BY <1>1
  <2> QED
    BY ONLY <2>1, <2>2
<1>4. TypeOK'
  <2>1. pc' \in [Callers -> {"idle", "notify", "wait", "asleep", "done"}]
    BY <1>1 DEF TypeOK, WakeWaiters
  <2>2. vendor_taken' \in 0..vendor_pushed'
    BY <1>1, <1>2
  <2>3. log' \in Seq(InPkt)
    BY <1>1 DEF TypeOK
  <2> QED
    BY <1>3, <2>1, <2>2, <2>3 DEF TypeOK
<1>5. CountsAgree'
  BY DEF CountsAgree
<1>6. DequeOrder'
  <2> DEFINE old(k) == IF k < i THEN k ELSE k + 1
  <2>1. ASSUME NEW k \in 1..Len(hid_in')
        PROVE  old(k) \in 1..Len(hid_in) /\ hid_in'[k] = hid_in[old(k)]
    BY <1>2, <1>3
  <2>2. ASSUME NEW k \in 1..Len(hid_in'), NEW m \in 1..Len(hid_in'), k < m
        PROVE  old(k) < old(m)
    BY <1>2, <1>3, <2>2
  <2> HIDE DEF old
  <2> QED
    BY <2>1, <2>2 DEF DequeOrder
<1>7. TicketTruth'
  <2>1. ASSUME NEW n \in 1..vendor_pushed
        PROVE  (\E k \in 1..Len(hid_in') : hid_in'[k] = [iface |-> "vendor", seq |-> n])
                 <=> /\ \E k \in 1..Len(hid_in) : hid_in[k] = [iface |-> "vendor", seq |-> n]
                     /\ hid_in[i] # [iface |-> "vendor", seq |-> n]
    <3> DEFINE e == [iface |-> "vendor", seq |-> n]
    <3>1. ASSUME NEW k \in 1..Len(hid_in'), hid_in'[k] = e
          PROVE  (\E m \in 1..Len(hid_in) : hid_in[m] = e) /\ hid_in[i] # e
      <4>1. PICK m \in 1..Len(hid_in) : m # i /\ hid_in[m] = e
        <5> HIDE DEF e
        <5>1. CASE k < i
          BY <1>2, <1>3, <3>1, <5>1
        <5>2. CASE ~(k < i)
          <6>1. k + 1 \in 1..Len(hid_in) /\ k + 1 # i /\ hid_in[k + 1] = e
            BY <1>2, <1>3, <3>1, <5>2
          <6> QED
            BY <6>1
        <5> QED
          BY <5>1, <5>2
      <4> QED
        BY SMTT(30), <1>1, <4>1
    <3>2. ASSUME NEW m \in 1..Len(hid_in), hid_in[m] = e, hid_in[i] # e
          PROVE  \E k \in 1..Len(hid_in') : hid_in'[k] = e
      <4> HIDE DEF e
      <4>1. CASE m < i
        BY <1>2, <1>3, <3>2, <4>1
      <4>2. CASE m > i
        <5>1. m - 1 \in 1..Len(hid_in') /\ hid_in'[m - 1] = e
          BY <1>2, <1>3, <3>2, <4>2
        <5> QED
          BY <5>1
      <4> QED
        BY <1>2, <3>2, <4>1, <4>2
    <3> QED
      BY <3>1, <3>2
  <2>2. ASSUME NEW n \in 1..vendor_pushed
        PROVE  (\E k \in 1..Len(hid_in') : hid_in'[k] = [iface |-> "vendor", seq |-> n])
                 <=> n > vendor_taken'
    <3>1. (\E k \in 1..Len(hid_in) : hid_in[k] = [iface |-> "vendor", seq |-> n])
            <=> n > vendor_taken
      BY DEF TicketTruth, Queued
    <3>2. CASE hid_in[i].iface = "fido" /\ vendor_taken' = vendor_taken
      BY <2>1, <3>1, <3>2
    <3>3. CASE /\ hid_in[i] = [iface |-> "vendor", seq |-> vendor_taken + 1]
               /\ vendor_taken' = vendor_taken + 1
      <4>1. hid_in[i] # [iface |-> "vendor", seq |-> n] <=> n # vendor_taken + 1
        BY <3>3
      <4>2. n > vendor_taken' <=> n > vendor_taken /\ n # vendor_taken + 1
        BY <1>2, <3>3
      <4> QED
        BY <2>1, <3>1, <4>1, <4>2
    <3> QED
      BY <1>1, <3>2, <3>3
  <2> QED
    BY <2>2 DEF TicketTruth, Queued
<1> QED
  BY <1>4, <1>5, <1>6, <1>7

(* The wipe empties the deque and calls every ticket reached. *)
LEMMA FlushQueue ==
  ASSUME QueueInv, WipeHid
  PROVE  QueueInv'
<1> USE DEF QueueInv
<1>1. /\ hid_in' = <<>> /\ Len(hid_in') = 0 /\ hid_in' \in Seq(InPkt)
      /\ vendor_taken' = vendor_pushed /\ vendor_pushed' = vendor_pushed
      /\ vendor_pushed \in Nat
  BY DEF WipeHid, FlushIn, TypeOK
<1>2. pc' \in [Callers -> {"idle", "notify", "wait", "asleep", "done"}]
  BY DEF WipeHid, FlushIn, WakeWaiters, TypeOK
<1>3. TypeOK'
  BY <1>1, <1>2 DEF TypeOK, WipeHid
<1>4. CountsAgree'
  <2>1. \A i \in Ifaces : pushed[i] \in Nat
    BY DEF TypeOK
  <2> QED
    BY <2>1 DEF CountsAgree, WipeHid
<1>5. DequeOrder' /\ TicketTruth'
  BY <1>1 DEF DequeOrder, TicketTruth, Queued
<1> QED
  BY <1>3, <1>4, <1>5

-----------------------------------------------------------------------------
(* QueueInv is inductive; it holds of an empty deque. *)
LEMMA QueueInit == Init => QueueInv
<1> SUFFICES ASSUME Init PROVE QueueInv
  OBVIOUS
<1>1. TypeOK
  BY BoundsAssumption DEF Init, TypeOK, Ifaces, HidIfaces
<1>2. CountsAgree
  BY BoundsAssumption DEF Init, CountsAgree, Limit, Ifaces, HidIfaces
<1>3. DequeOrder /\ TicketTruth
  BY DEF Init, DequeOrder, TicketTruth, Queued
<1> QED
  BY <1>1, <1>2, <1>3 DEF QueueInv

(* A step that leaves the deque, its counters and the ghosts alone. *)
LEMMA QueueQuiet ==
  ASSUME QueueInv, TypeOK', UNCHANGED <<hid_in, vendor_pushed, vendor_taken, pushed, wipeMark>>
  PROVE  QueueInv'
BY DEF QueueInv, CountsAgree, DequeOrder, TicketTruth, Queued

(* SEREMU bytes have a queue of their own: the deque never notices them.      *)
LEMMA SeremuQueue ==
  ASSUME QueueInv, NEW c \in Callers, DeliverSeremu(c)
  PROVE  QueueInv'
<1> USE DEF QueueInv
<1>1. /\ pushed' \in [Ifaces -> Nat] /\ pushed \in [Ifaces -> Nat]
      /\ pushed'["seremu"] = pushed["seremu"] + 1
      /\ \A i \in Ifaces : i # "seremu" => pushed'[i] = pushed[i]
      /\ pushed["seremu"] < Limit["seremu"]
      /\ "seremu" \in Ifaces /\ "vendor" \in Ifaces /\ "seremu" \notin HidIfaces
  BY DEF DeliverSeremu, TypeOK, Ifaces, HidIfaces
<1>2. UNCHANGED <<hid_in, vendor_pushed, vendor_taken, wipeMark>>
  BY DEF DeliverSeremu
<1>3. TypeOK'
  <2>1. seremu_in' \in Seq(Nat)
    BY <1>1 DEF DeliverSeremu, TypeOK
  <2> QED
    BY <1>1, <2>1 DEF DeliverSeremu, TypeOK, hostVars
<1>4. CountsAgree'
  <2>1. ASSUME NEW i \in Ifaces
        PROVE  pushed'[i] <= Limit[i] /\ wipeMark'[i] <= pushed'[i]
    <3>1. /\ pushed[i] \in Nat /\ pushed'[i] \in Nat /\ wipeMark[i] \in Nat
          /\ pushed[i] <= Limit[i] /\ wipeMark[i] <= pushed[i] /\ Limit[i] \in Nat
      BY <1>1, LimitType DEF CountsAgree, TypeOK
    <3> QED
      BY <1>1, <1>2, <3>1
  <2> QED
    BY <1>1, <1>2, <2>1 DEF CountsAgree
<1>5. DequeOrder'
  <2>1. ASSUME NEW i \in 1..Len(hid_in)
        PROVE  pushed'[hid_in[i].iface] = pushed[hid_in[i].iface]
    <3>1. hid_in[i] \in InPkt
      BY DEF TypeOK
    <3>2. hid_in[i].iface \in HidIfaces
      BY <3>1 DEF InPkt
    <3> QED
      BY <1>1, <3>2 DEF Ifaces
  <2> QED
    BY <1>2, <2>1 DEF DequeOrder
<1>6. TicketTruth'
  BY <1>2 DEF TicketTruth, Queued
<1> QED
  BY <1>3, <1>4, <1>5, <1>6

(* Every action keeps the deque, its counters and its tickets in agreement    *)
(* (ok_hal.cpp:867-939).                                                      *)
LEMMA QueueNext == QueueInv /\ [Next]_vars => QueueInv'
<1> SUFFICES ASSUME QueueInv, [Next]_vars PROVE QueueInv'
  OBVIOUS
<1>0. TypeOK
  BY DEF QueueInv
<1>1. CASE Recv
  BY <1>1, TakeQueue DEF Recv
<1>2. CASE RecvSleep
  <2>1. TypeOK'
    BY <1>0, <1>2 DEF TypeOK, RecvSleep, hostVars
  <2> QED
    BY <1>2, <2>1, QueueQuiet DEF RecvSleep
<1>3. CASE RecvTimeout
  <2>1. CASE hid_in = <<>>
    <3>1. TypeOK'
      BY <1>0, <1>3, <2>1 DEF TypeOK, RecvTimeout
    <3> QED
      BY <1>3, <2>1, <3>1, QueueQuiet DEF RecvTimeout
  <2>2. CASE hid_in # <<>>
    BY <1>3, <2>2, TakeQueue DEF RecvTimeout
  <2> QED
    BY <2>1, <2>2
<1>4. CASE SeremuGetc
  <2>1. seremu_in' \in Seq(Nat)
    BY <1>0, <1>4 DEF TypeOK, SeremuGetc
  <2>2. TypeOK'
    BY <1>0, <1>4, <2>1 DEF TypeOK, SeremuGetc, hostVars
  <2> QED
    BY <1>4, <2>2, QueueQuiet DEF SeremuGetc
<1>5. CASE WipeHid
  BY <1>5, FlushQueue
<1>6. CASE WipeSeremu
  <2>1. TypeOK'
    BY <1>0, <1>6 DEF TypeOK, WipeSeremu, hostVars
  <2> QED
    BY <1>6, <2>1, QueueQuiet DEF WipeSeremu
<1>7. ASSUME NEW c \in Callers, Host(c)
      PROVE  QueueInv'
  <2>1. CASE DeliverSeremu(c)
    BY <2>1, SeremuQueue
  <2>2. ASSUME NEW iface \in HidIfaces, NEW w \in BOOLEAN, Deliver(c, iface, w)
        PROVE  QueueInv'
    BY <2>2, DeliverQueue
  <2>3. CASE Notify(c)
    <3>1. TypeOK'
      BY <1>0, <2>3, BoundsAssumption DEF TypeOK, Notify
    <3> QED
      BY <2>3, <3>1, QueueQuiet DEF Notify
  <2>4. CASE WaitTaken(c)
    <3>1. TypeOK'
      BY <1>0, <2>4 DEF TypeOK, WaitTaken
    <3> QED
      BY <2>4, <3>1, QueueQuiet DEF WaitTaken
  <2>5. CASE Deadline(c)
    <3>1. TicketReached(c) \in BOOLEAN
      BY DEF TicketReached
    <3>2. TypeOK'
      BY <1>0, <2>5, <3>1 DEF TypeOK, Deadline
    <3> QED
      BY <2>5, <3>2, QueueQuiet DEF Deadline
  <2>6. CASE Settle(c)
    <3>1. TypeOK'
      BY <1>0, <2>6, BoundsAssumption DEF TypeOK, Settle
    <3> QED
      BY <2>6, <3>1, QueueQuiet DEF Settle
  <2> QED
    BY <1>7, <2>1, <2>2, <2>3, <2>4, <2>5, <2>6 DEF Host
<1>8. CASE UNCHANGED vars
  BY <1>0, <1>8, QueueQuiet DEF vars, TypeOK
<1> QED
  BY <1>1, <1>2, <1>3, <1>4, <1>5, <1>6, <1>7, <1>8 DEF Next, Firmware

-----------------------------------------------------------------------------
(* The sleepers: both sides of the two condition variables. *)

(* Whoever moves vendor_taken wakes every sleeper, and nobody goes to sleep   *)
(* on a ticket already reached (ok_hal.cpp:848-854, 917-921, 937-938).        *)
LEMMA WakeupNext == QueueInv /\ NoLostWakeup /\ [Next]_vars => NoLostWakeup'
<1> SUFFICES ASSUME QueueInv, NoLostWakeup, [Next]_vars PROVE NoLostWakeup'
  OBVIOUS
<1> USE DEF NoLostWakeup
<1>0. TypeOK
  BY DEF QueueInv
<1>1. ASSUME Take, UNCHANGED ticket
      PROVE  NoLostWakeup'
  <2>1. WakeWaiters \/ UNCHANGED <<vendor_taken, pc>>
    BY <1>1, TakeFacts
  <2> QED
    BY <1>1, <2>1 DEF WakeWaiters
<1>2. CASE Firmware
  <2>1. CASE Recv
    BY <1>1, <2>1 DEF Recv
  <2>2. CASE RecvTimeout
    BY <1>1, <2>2 DEF RecvTimeout
  <2>3. CASE WipeHid
    BY <2>3 DEF WipeHid, FlushIn, WakeWaiters
  <2> QED
    BY <1>2, <2>1, <2>2, <2>3 DEF Firmware, RecvSleep, SeremuGetc, WipeSeremu, hostVars
<1>3. ASSUME NEW c \in Callers, Host(c)
      PROVE  NoLostWakeup'
  <2>1. CASE DeliverSeremu(c)
    BY <2>1 DEF DeliverSeremu, hostVars
  <2>2. ASSUME NEW iface \in HidIfaces, NEW w \in BOOLEAN, Deliver(c, iface, w)
        PROVE  NoLostWakeup'
    BY <1>0, <2>2 DEF Deliver, TypeOK
  <2>3. CASE Notify(c)
    BY <1>0, <2>3 DEF Notify, TypeOK
  <2>4. CASE WaitTaken(c)
    <3>1. vendor_taken \in Nat /\ ticket[c] \in Nat
      BY <1>0 DEF TypeOK
    <3>2. CASE TicketReached(c)
      BY <1>0, <2>4, <3>2 DEF WaitTaken, TypeOK
    <3>3. CASE ~TicketReached(c)
      <4>1. vendor_taken < ticket[c]
        BY <3>1, <3>3 DEF TicketReached
      <4> QED
        BY <1>0, <2>4, <3>3, <4>1 DEF WaitTaken, TypeOK
    <3> QED
      BY <3>2, <3>3
  <2>5. CASE Deadline(c)
    BY <1>0, <2>5 DEF Deadline, TypeOK
  <2>6. CASE Settle(c)
    BY <1>0, <2>6 DEF Settle, TypeOK
  <2> QED
    BY <1>3, <2>1, <2>2, <2>3, <2>4, <2>5, <2>6 DEF Host
<1>4. CASE UNCHANGED vars
  BY <1>4 DEF vars
<1> QED
  BY <1>2, <1>3, <1>4 DEF Next

(* A push finds its own thread still to notify; the firmware goes to sleep    *)
(* only over an empty deque (ok_hal.cpp:885-906).                             *)
LEMMA SleepNext == TypeOK /\ NoSleptOverReport /\ [Next]_vars => NoSleptOverReport'
<1> SUFFICES ASSUME TypeOK, NoSleptOverReport, [Next]_vars PROVE NoSleptOverReport'
  OBVIOUS
<1> USE DEF NoSleptOverReport
<1>1. CASE Firmware
  BY <1>1 DEF Firmware, Recv, RecvSleep, RecvTimeout, SeremuGetc, WipeHid, WipeSeremu, hostVars
<1>2. ASSUME NEW c \in Callers, Host(c)
      PROVE  NoSleptOverReport'
  <2>1. CASE DeliverSeremu(c)
    BY <2>1 DEF DeliverSeremu, hostVars
  <2>2. ASSUME NEW iface \in HidIfaces, NEW w \in BOOLEAN, Deliver(c, iface, w)
        PROVE  NoSleptOverReport'
    BY <2>2 DEF Deliver, TypeOK
  <2>3. CASE Notify(c)
    BY <2>3 DEF Notify
  <2>4. CASE WaitTaken(c) \/ Deadline(c) \/ Settle(c)
    <3>1. \A d \in Callers : pc[d] = "notify" => pc'[d] = "notify"
      BY <2>4 DEF WaitTaken, Deadline, Settle, TypeOK
    <3> QED
      BY <2>4, <3>1 DEF WaitTaken, Deadline, Settle
  <2> QED
    BY <1>2, <2>1, <2>2, <2>3, <2>4 DEF Host
<1>3. CASE UNCHANGED vars
  BY <1>3 DEF vars
<1> QED
  BY <1>1, <1>2, <1>3 DEF Next

-----------------------------------------------------------------------------
(* What the firmware has received, and what a wipe leaves. *)

(* What a push appends is newer than everything of its interface, received   *)
(* or queued.                                                                 *)
LEMMA DeliverFacts ==
  ASSUME QueueInv, NEW c \in Callers, NEW iface \in HidIfaces, NEW w \in BOOLEAN,
         Deliver(c, iface, w)
  PROVE  /\ Len(hid_in') = Len(hid_in) + 1 /\ Len(hid_in) \in Nat
         /\ \A k \in 1..Len(hid_in) : hid_in'[k] = hid_in[k]
         /\ hid_in'[Len(hid_in) + 1] = [iface |-> iface, seq |-> pushed[iface] + 1]
         /\ pushed[iface] \in Nat
         /\ \A f \in Ifaces : pushed[f] \in Nat /\ pushed'[f] \in Nat /\ pushed[f] <= pushed'[f]
<1> DEFINE e == [iface |-> iface, seq |-> pushed[iface] + 1]
<1>1. /\ pushed \in [Ifaces -> Nat] /\ iface \in Ifaces /\ hid_in \in Seq(InPkt)
      /\ pushed' = [pushed EXCEPT ![iface] = @ + 1]
      /\ hid_in' = Append(hid_in, e)
  BY DEF QueueInv, TypeOK, Ifaces, Deliver
<1>2. e \in InPkt
  BY <1>1 DEF InPkt
<1>3. \A f \in Ifaces : pushed[f] \in Nat /\ pushed'[f] \in Nat /\ pushed[f] <= pushed'[f]
  <2> TAKE f \in Ifaces
  <2>1. pushed[f] \in Nat
    BY <1>1
  <2>2. pushed'[f] = IF f = iface THEN pushed[f] + 1 ELSE pushed[f]
    BY <1>1
  <2> QED
    BY <2>1, <2>2
<1> HIDE DEF e
<1>4. /\ Len(hid_in') = Len(hid_in) + 1 /\ Len(hid_in) \in Nat
      /\ \A k \in 1..Len(hid_in) : hid_in'[k] = hid_in[k]
      /\ hid_in'[Len(hid_in) + 1] = e
  BY <1>1, <1>2
<1> QED
  BY <1>1, <1>3, <1>4 DEF e

(* What the firmware receives next is newer than what it has of that          *)
(* interface, and older than what stays queued (ok_hal.cpp:909-922).          *)
LEMMA LogNext == QueueInv /\ LogOrder /\ [Next]_vars => LogOrder'
<1> SUFFICES ASSUME QueueInv, LogOrder, [Next]_vars PROVE LogOrder'
  OBVIOUS
<1> USE DEF LogOrder, InterfaceOrder
<1>0. /\ TypeOK
      /\ log \in Seq(InPkt) /\ Len(log) \in Nat
      /\ hid_in \in Seq(InPkt) /\ Len(hid_in) \in Nat
      /\ \A i \in 1..Len(log) : log[i].iface \in Ifaces /\ log[i].seq \in Nat
      /\ \A i \in 1..Len(hid_in) : hid_in[i].iface \in Ifaces /\ hid_in[i].seq \in Nat
      /\ \A f \in Ifaces : pushed[f] \in Nat
  <2>1. TypeOK
    BY DEF QueueInv
  <2>2. /\ \A i \in 1..Len(log) : log[i] \in InPkt
        /\ \A i \in 1..Len(hid_in) : hid_in[i] \in InPkt
    BY <2>1 DEF TypeOK
  <2>3. \A p \in InPkt : p.iface \in Ifaces /\ p.seq \in Nat
    BY DEF InPkt, Ifaces
  <2> QED
    BY <2>1, <2>2, <2>3 DEF TypeOK
<1>1. ASSUME Take, UNCHANGED pushed
      PROVE  LogOrder'
  <2>1. PICK i \in 1..Len(hid_in) :
          /\ hid_in' = RemoveAt(hid_in, i)
          /\ log' = Append(log, hid_in[i])
          /\ hid_in[i] \in InPkt
          /\ \A j \in 1..Len(hid_in) :
               j # i /\ hid_in[j].iface = hid_in[i].iface => hid_in[i].seq < hid_in[j].seq
    BY <1>1, TakeFacts
  <2>2. /\ Len(log') = Len(log) + 1
        /\ \A k \in 1..Len(log) : log'[k] = log[k]
        /\ log'[Len(log) + 1] = hid_in[i]
    BY <1>0, <2>1
  <2>3. /\ Len(hid_in') = Len(hid_in) - 1
        /\ \A k \in 1..Len(hid_in') :
             hid_in'[k] = IF k < i THEN hid_in[k] ELSE hid_in[k + 1]
    <3>1. hid_in \in Seq(InPkt)
      BY <1>0
    <3>2. /\ RemoveAt(hid_in, i) \in Seq(InPkt)
          /\ Len(RemoveAt(hid_in, i)) = Len(hid_in) - 1
          /\ \A k \in 1..(Len(hid_in) - 1) :
               RemoveAt(hid_in, i)[k] = IF k < i THEN hid_in[k] ELSE hid_in[k + 1]
      BY <3>1, RemoveAtSeq
    <3> QED
      BY <2>1, <3>2
  <2>4. \A k \in 1..Len(hid_in') :
          \E m \in 1..Len(hid_in) : m # i /\ hid_in'[k] = hid_in[m]
    <3> TAKE k \in 1..Len(hid_in')
    <3>1. CASE k < i
      BY <1>0, <2>3, <3>1
    <3>2. CASE ~(k < i)
      <4>1. k + 1 \in 1..Len(hid_in) /\ k + 1 # i /\ hid_in'[k] = hid_in[k + 1]
        BY <1>0, <2>3, <3>2
      <4> QED
        BY <4>1
    <3> QED
      BY <3>1, <3>2
  <2>5. InterfaceOrder'
    <3>1. ASSUME NEW k \in 1..Len(log'), NEW j \in 1..Len(log'),
                 k < j, log'[k].iface = log'[j].iface
          PROVE  log'[k].seq < log'[j].seq
      <4>1. k \in 1..Len(log) /\ log'[k] = log[k]
        BY <1>0, <2>2, <3>1
      <4>2. CASE j \in 1..Len(log)
        BY <2>2, <3>1, <4>1, <4>2
      <4>3. CASE j = Len(log) + 1
        BY <2>2, <3>1, <4>1, <4>3
      <4>4. j \in 1..(Len(log) + 1) /\ Len(log) \in Nat
        BY <1>0, <2>2
      <4>5. j \in 1..Len(log) \/ j = Len(log) + 1
        BY ONLY <4>4, SMT
      <4> QED
        BY <4>2, <4>3, <4>5
    <3> QED
      BY <3>1
  <2>6. \A k \in 1..Len(log') : log'[k].seq <= pushed'[log'[k].iface]
    BY <1>0, <1>1, <2>2 DEF QueueInv, DequeOrder
  <2>7. ASSUME NEW k \in 1..Len(log'), NEW j \in 1..Len(hid_in'),
               log'[k].iface = hid_in'[j].iface
        PROVE  log'[k].seq < hid_in'[j].seq
    <3>1. PICK m \in 1..Len(hid_in) : m # i /\ hid_in'[j] = hid_in[m]
      BY <2>4
    <3>2. CASE k \in 1..Len(log)
      BY <2>2, <2>7, <3>1, <3>2
    <3>3. CASE k = Len(log) + 1
      BY <2>1, <2>2, <2>7, <3>1, <3>3
    <3> QED
      BY <1>0, <2>2, <3>2, <3>3
  <2> QED
    BY <2>5, <2>6, <2>7
<1>2. CASE Recv
  BY <1>1, <1>2 DEF Recv
<1>3. CASE RecvTimeout
  <2>1. CASE hid_in = <<>>
    BY <1>3, <2>1 DEF RecvTimeout
  <2> QED
    BY <1>1, <1>3, <2>1 DEF RecvTimeout
<1>4. CASE WipeHid
  BY <1>0, <1>4 DEF WipeHid, FlushIn
<1>5. ASSUME NEW c \in Callers, NEW iface \in HidIfaces, NEW w \in BOOLEAN, Deliver(c, iface, w)
      PROVE  LogOrder'
  <2>1. /\ log' = log /\ iface \in Ifaces
        /\ Len(hid_in') = Len(hid_in) + 1
        /\ \A k \in 1..Len(hid_in) : hid_in'[k] = hid_in[k]
        /\ hid_in'[Len(hid_in) + 1].iface = iface
        /\ hid_in'[Len(hid_in) + 1].seq = pushed[iface] + 1
        /\ \A f \in Ifaces : pushed[f] \in Nat /\ pushed'[f] \in Nat /\ pushed[f] <= pushed'[f]
    <3>1. /\ Len(hid_in') = Len(hid_in) + 1
          /\ \A k \in 1..Len(hid_in) : hid_in'[k] = hid_in[k]
          /\ hid_in'[Len(hid_in) + 1] = [iface |-> iface, seq |-> pushed[iface] + 1]
          /\ \A f \in Ifaces : pushed[f] \in Nat /\ pushed'[f] \in Nat /\ pushed[f] <= pushed'[f]
      BY <1>5, DeliverFacts
    <3>2. log' = log /\ iface \in Ifaces
      BY <1>5 DEF Deliver, Ifaces
    <3> QED
      BY <3>1, <3>2
  <2>2. \A k \in 1..Len(log') : log'[k].seq <= pushed'[log'[k].iface]
    <3> TAKE k \in 1..Len(log')
    <3>1. /\ log[k].seq <= pushed[log[k].iface] /\ log[k].iface \in Ifaces
          /\ log[k].seq \in Nat
      BY <1>0, <2>1
    <3> QED
      BY <2>1, <3>1
  <2>3. ASSUME NEW k \in 1..Len(log'), NEW j \in 1..Len(hid_in'),
               log'[k].iface = hid_in'[j].iface
        PROVE  log'[k].seq < hid_in'[j].seq
    <3>1. CASE j \in 1..Len(hid_in)
      BY <2>1, <2>3, <3>1
    <3>2. CASE j = Len(hid_in) + 1
      <4>1. log[k].iface = iface /\ log[k].seq <= pushed[iface] /\ log[k].seq \in Nat
        BY <1>0, <2>1, <2>3, <3>2
      <4> QED
        BY <2>1, <3>2, <4>1
    <3> QED
      BY <1>0, <2>1, <3>1, <3>2
  <2> QED
    BY <2>1, <2>2, <2>3
<1>6. ASSUME NEW c \in Callers, DeliverSeremu(c)
      PROVE  LogOrder'
  <2>1. \A f \in Ifaces : pushed'[f] \in Nat /\ pushed[f] <= pushed'[f]
    <3> TAKE f \in Ifaces
    <3>1. pushed'[f] = IF f = "seremu" THEN pushed[f] + 1 ELSE pushed[f]
      BY <1>0, <1>6 DEF DeliverSeremu, TypeOK
    <3> QED
      BY <1>0, <3>1
  <2>2. \A k \in 1..Len(log) : log[k].seq <= pushed'[log[k].iface]
    <3> TAKE k \in 1..Len(log)
    <3>1. log[k].seq <= pushed[log[k].iface] /\ log[k].iface \in Ifaces /\ log[k].seq \in Nat
      BY <1>0
    <3> QED
      BY <1>0, <2>1, <3>1
  <2> QED
    BY <1>6, <2>2 DEF DeliverSeremu
<1>7. CASE UNCHANGED <<hid_in, log, pushed>>
  BY <1>7
<1> QED
  BY <1>2, <1>3, <1>4, <1>5, <1>6, <1>7
     DEF Next, Firmware, Host, RecvSleep, SeremuGetc, WipeSeremu, Notify, WaitTaken,
         Deadline, Settle, hostVars, vars

(* Nothing of before a wipe comes back after it (ok_hal.cpp:933-939,           *)
(* 978-981).                                                                  *)
LEMMA WipeNext == QueueInv /\ WipeInv /\ [Next]_vars => WipeInv'
<1> SUFFICES ASSUME QueueInv, WipeInv, [Next]_vars PROVE WipeInv'
  OBVIOUS
<1> USE DEF WipeInv
<1>0. /\ TypeOK /\ hid_in \in Seq(InPkt) /\ Len(hid_in) \in Nat
      /\ seremu_in \in Seq(Nat) /\ Len(seremu_in) \in Nat
      /\ \A f \in Ifaces : pushed[f] \in Nat /\ wipeMark[f] \in Nat /\ wipeMark[f] <= pushed[f]
      /\ "seremu" \in Ifaces
  BY DEF QueueInv, TypeOK, CountsAgree, Ifaces
<1>1. ASSUME Take, UNCHANGED <<wipeMark, seremu_in>>, fw' # "wiping" => fw # "wiping"
      PROVE  WipeInv'
  <2>1. PICK i \in 1..Len(hid_in) : hid_in' = RemoveAt(hid_in, i)
    BY <1>1, TakeFacts
  <2>2. /\ Len(RemoveAt(hid_in, i)) = Len(hid_in) - 1
        /\ \A k \in 1..(Len(hid_in) - 1) :
             RemoveAt(hid_in, i)[k] = IF k < i THEN hid_in[k] ELSE hid_in[k + 1]
    <3>1. hid_in \in Seq(InPkt)
      BY <1>0
    <3> QED
      BY <3>1, RemoveAtSeq
  <2>3. \A k \in 1..Len(hid_in') : \E m \in 1..Len(hid_in) : hid_in'[k] = hid_in[m]
    BY <1>0, <2>1, <2>2
  <2> QED
    BY <1>1, <2>3
<1>2. CASE Recv
  BY <1>1, <1>2 DEF Recv
<1>3. CASE RecvTimeout
  <2>1. CASE hid_in = <<>>
    BY <1>3, <2>1 DEF RecvTimeout
  <2> QED
    BY <1>1, <1>3, <2>1 DEF RecvTimeout
<1>4. CASE SeremuGetc
  <2>1. /\ Len(seremu_in') = Len(seremu_in) - 1
        /\ \A k \in 1..Len(seremu_in') : seremu_in'[k] = seremu_in[k + 1]
    BY <1>0, <1>4 DEF SeremuGetc
  <2> QED
    BY <1>0, <1>4, <2>1 DEF SeremuGetc
<1>5. CASE WipeHid
  BY <1>5 DEF WipeHid, FlushIn
<1>6. CASE WipeSeremu
  BY <1>6 DEF WipeSeremu
<1>7. ASSUME NEW c \in Callers, NEW iface \in HidIfaces, NEW w \in BOOLEAN, Deliver(c, iface, w)
      PROVE  WipeInv'
  <2>1. /\ Len(hid_in') = Len(hid_in) + 1
        /\ \A k \in 1..Len(hid_in) : hid_in'[k] = hid_in[k]
        /\ hid_in'[Len(hid_in) + 1] = [iface |-> iface, seq |-> pushed[iface] + 1]
    BY <1>7, DeliverFacts
  <2>2. UNCHANGED <<seremu_in, fw, wipeMark>> /\ iface \in Ifaces
    BY <1>7 DEF Deliver, Ifaces
  <2>3. hid_in'[Len(hid_in) + 1].seq > wipeMark[hid_in'[Len(hid_in) + 1].iface]
    BY <1>0, <2>1, <2>2
  <2>4. ASSUME NEW k \in 1..Len(hid_in')
        PROVE  hid_in'[k].seq > wipeMark'[hid_in'[k].iface]
    <3>1. CASE k = Len(hid_in) + 1
      BY <2>2, <2>3, <3>1
    <3>2. CASE k \in 1..Len(hid_in)
      BY <2>1, <2>2, <3>2
    <3>3. Len(hid_in) \in Nat
      BY <1>0
    <3> QED
      BY <2>1, <3>1, <3>2, <3>3
  <2> QED
    BY <2>2, <2>4
<1>8. ASSUME NEW c \in Callers, DeliverSeremu(c)
      PROVE  WipeInv'
  <2>1. /\ Len(seremu_in') = Len(seremu_in) + 1
        /\ \A k \in 1..Len(seremu_in) : seremu_in'[k] = seremu_in[k]
        /\ seremu_in'[Len(seremu_in) + 1] = pushed["seremu"] + 1
    BY <1>0, <1>8 DEF DeliverSeremu
  <2> QED
    BY <1>0, <1>8, <2>1 DEF DeliverSeremu
<1>9. CASE UNCHANGED <<hid_in, seremu_in, fw, wipeMark>>
  BY <1>9
<1>10. CASE RecvSleep
  BY <1>10 DEF RecvSleep
<1>11. ASSUME NEW c \in Callers, Notify(c)
       PROVE  WipeInv'
  <2>1. UNCHANGED <<hid_in, seremu_in, wipeMark>> /\ (fw' # "wiping" => fw # "wiping")
    BY <1>11 DEF Notify
  <2> QED
    BY <2>1
<1> QED
  BY <1>2, <1>3, <1>4, <1>5, <1>6, <1>7, <1>8, <1>9, <1>10, <1>11
     DEF Next, Firmware, Host, WaitTaken, Deadline, Settle, vars

-----------------------------------------------------------------------------
(* The theorems. *)

(* A HAL just initialised satisfies the invariant.                            *)
LEMMA IInvInit == Init => IInv
<1> SUFFICES ASSUME Init PROVE IInv
  OBVIOUS
<1>1. QueueInv
  BY QueueInit
<1>2. NoLostWakeup /\ NoSleptOverReport /\ LogOrder /\ WipeInv
  BY DEF Init, NoLostWakeup, NoSleptOverReport, LogOrder, InterfaceOrder, WipeInv
<1> QED
  BY <1>1, <1>2 DEF IInv

(* Every critical section keeps the invariant.                                *)
LEMMA IInvNext == IInv /\ [Next]_vars => IInv'
BY QueueNext, WakeupNext, SleepNext, LogNext, WipeNext DEF IInv, QueueInv

(* The invariant the runs' invariants follow from, in every behaviour of the   *)
(* deque and its threads (ok_hal.cpp:84-99, 848-939).                          *)
THEOREM Inductive == Spec => []IInv
BY IInvInit, IInvNext, PTL DEF Spec

(* Type correctness; in particular the tickets' counter never runs ahead of  *)
(* the reports pushed (ok_hal.cpp:88-90).                                    *)
THEOREM TypeCorrect == Spec => []TypeOK
<1>1. IInv => TypeOK
  BY DEF IInv, QueueInv
<1> QED
  BY <1>1, Inductive, PTL

(* A ticket tells the truth about its report (ok_hal.cpp:848-854). *)
THEOREM TicketsTellTheTruth == Spec => []TicketTruth
<1>1. IInv => TicketTruth
  BY DEF IInv, QueueInv
<1> QED
  BY <1>1, Inductive, PTL

(* No host thread sleeps on a ticket already reached (ok_hal.cpp:917-938). *)
THEOREM NoWakeupIsLost == Spec => []NoLostWakeup
<1>1. IInv => NoLostWakeup
  BY DEF IInv
<1> QED
  BY <1>1, Inductive, PTL

(* The firmware does not sleep over a report nobody will announce            *)
(* (ok_hal.cpp:887-906).                                                     *)
THEOREM FirmwareIsWoken == Spec => []NoSleptOverReport
<1>1. IInv => NoSleptOverReport
  BY DEF IInv
<1> QED
  BY <1>1, Inductive, PTL

(* Every interface is first in, first out (ok_hal.cpp:909-922). *)
THEOREM InterfacesAreFifo == Spec => []InterfaceOrder
<1>1. IInv => InterfaceOrder
  BY DEF IInv, LogOrder
<1> QED
  BY <1>1, Inductive, PTL

(* A wipe leaves nothing of before it (ok_hal.cpp:933-939, 978-981). *)
THEOREM WipesAreComplete == Spec => []WipeIsComplete
<1>1. IInv => WipeIsComplete
  BY DEF IInv, WipeInv, WipeIsComplete
<1> QED
  BY <1>1, Inductive, PTL

-----------------------------------------------------------------------------
(* The two queues on one firmware thread (DeviceInput). *)

(* Every press in the ring, held or handed over has been accepted.           *)
PressNumbers ==
  /\ queued \in Nat /\ count \in 0..Depth /\ checked \in Nat
  /\ head \in Press!Slots /\ tail \in Press!Slots
  /\ q \in [Press!Slots -> 0..queued] /\ key_press \in 0..queued
  /\ handed \in Seq(1..queued)

(* A frame taken is processed, wiped or in the firmware's hand. *)
FramesTaken ==
  \A n \in 1..vendor_taken :
    n \in processed \cup wiped \/ (inhand # <<>> /\ inhand[1] = [iface |-> "vendor", seq |-> n])

(* A write answered `taken` is of a frame that has been. *)
AnsweredIsTaken == \A c \in Callers : pc[c] = "done" /\ answer[c] => ticket[c] <= vendor_taken

(* What a press follows has been answered. *)
BasisAcked ==
  /\ acked \in 0..vendor_taken
  /\ basis \in Seq(0..acked) /\ Len(basis) = queued

OrderInv == PressNumbers /\ FramesTaken /\ AnsweredIsTaken /\ BasisAcked /\ PressAfterFrame

(* Whatever the composition does, the report queue does a step of its own or *)
(* none.                                                                    *)
LEMMA QueueStep == [DINext]_allVars => [Next]_vars
<1> SUFFICES ASSUME [DINext]_allVars PROVE Next \/ UNCHANGED vars
  OBVIOUS
<1>1. CASE Poll
  BY <1>1 DEF Poll, Next, Firmware
<1>2. CASE Process \/ Sense \/ QueuePresses
  BY <1>2 DEF Process, Sense, QueuePresses
<1>3. CASE Wipe
  BY <1>3 DEF Wipe, Next, Firmware
<1>4. CASE \E c \in Callers : Write(c)
  BY <1>4 DEF Write, Next
<1>5. CASE UNCHANGED allVars
  BY <1>5 DEF allVars
<1> QED
  BY <1>1, <1>2, <1>3, <1>4, <1>5 DEF DINext

(* The firmware only ever takes more. *)
LEMMA TakenGrows == QueueInv /\ [Next]_vars => vendor_taken \in Nat /\ vendor_taken' \in Nat /\ vendor_taken <= vendor_taken'
<1> SUFFICES ASSUME QueueInv, [Next]_vars PROVE vendor_taken \in Nat /\ vendor_taken' \in Nat /\ vendor_taken <= vendor_taken'
  OBVIOUS
<1>1. vendor_taken \in Nat /\ vendor_pushed \in Nat /\ vendor_taken <= vendor_pushed
  BY DEF QueueInv, TypeOK
<1>2. CASE Take
  <2>1. vendor_taken' = vendor_taken + 1 \/ vendor_taken' = vendor_taken
    BY <1>2, TakeFacts
  <2> QED
    BY <1>1, <2>1
<1>3. CASE WipeHid
  BY <1>1, <1>3 DEF WipeHid, FlushIn
<1>4. CASE vendor_taken' = vendor_taken
  BY <1>1, <1>4
<1> QED
  BY <1>2, <1>3, <1>4
     DEF Next, Firmware, Host, Recv, RecvTimeout, RecvSleep, SeremuGetc, WipeSeremu, Notify,
         WaitTaken, Deadline, Settle, Deliver, DeliverSeremu, vars

(* An answer is the predicate's, evaluated with the mutex held               *)
(* (ok_hal.cpp:848-862).                                                     *)
LEMMA AnsweredNext == QueueInv /\ AnsweredIsTaken /\ [Next]_vars => AnsweredIsTaken'
<1> SUFFICES ASSUME QueueInv, AnsweredIsTaken, [Next]_vars, NEW c \in Callers, pc'[c] = "done", answer'[c]
             PROVE  ticket'[c] <= vendor_taken'
  BY DEF AnsweredIsTaken
<1>0. /\ TypeOK /\ vendor_taken \in Nat /\ vendor_taken' \in Nat /\ vendor_taken <= vendor_taken'
      /\ ticket[c] \in Nat
  BY TakenGrows DEF QueueInv, TypeOK
<1>1. CASE pc[c] = "done" /\ answer[c] /\ ticket'[c] = ticket[c]
  BY <1>0, <1>1 DEF AnsweredIsTaken
<1>2. CASE Firmware
  <2>1. pc[c] = "done" /\ answer' = answer /\ ticket' = ticket
    BY <1>0, <1>2 DEF Firmware, Recv, RecvSleep, RecvTimeout, SeremuGetc, WipeHid, WipeSeremu, Take,
                      FlushIn, WakeWaiters, hostVars, TypeOK
  <2> QED
    BY <1>1, <2>1
<1>3. ASSUME NEW d \in Callers, Host(d) PROVE ticket'[c] <= vendor_taken'
  <2>1. CASE WaitTaken(d) \/ Deadline(d)
    <3>1. CASE c = d
      <4>1. TicketReached(d) /\ ticket' = ticket
        BY <1>0, <2>1, <3>1 DEF WaitTaken, Deadline, TypeOK
      <4> QED
        BY <1>0, <3>1, <4>1 DEF TicketReached
    <3>2. CASE c # d
      BY <1>0, <1>1, <2>1, <3>2 DEF WaitTaken, Deadline, TypeOK
    <3> QED
      BY <3>1, <3>2
  <2>2. CASE DeliverSeremu(d)
    BY <1>1, <2>2 DEF DeliverSeremu, hostVars
  <2>3. ASSUME NEW iface \in HidIfaces, NEW w \in BOOLEAN, Deliver(d, iface, w)
        PROVE  ticket'[c] <= vendor_taken'
    BY <1>0, <1>1, <2>3 DEF Deliver, TypeOK
  <2>4. CASE Notify(d)
    BY <1>0, <1>1, <2>4 DEF Notify, TypeOK
  <2>5. CASE Settle(d)
    BY <1>0, <1>1, <2>5 DEF Settle, TypeOK
  <2> QED
    BY <1>3, <2>1, <2>2, <2>3, <2>4, <2>5 DEF Host
<1>4. CASE UNCHANGED vars
  BY <1>1, <1>4 DEF vars
<1> QED
  BY <1>2, <1>3, <1>4 DEF Next

(* A frame leaves the deque into the firmware's hand, or by a wipe           *)
(* (ok_hal.cpp:909-939).                                                     *)
LEMMA FramesNext == QueueInv /\ FramesTaken /\ [DINext]_allVars => FramesTaken'
<1> SUFFICES ASSUME QueueInv, FramesTaken, [DINext]_allVars, NEW n \in 1..vendor_taken'
             PROVE  n \in processed' \cup wiped' \/ (inhand' # <<>> /\ inhand'[1] = [iface |-> "vendor", seq |-> n])
  BY DEF FramesTaken
<1>0. /\ TypeOK /\ vendor_taken \in Nat /\ vendor_pushed \in Nat /\ vendor_taken <= vendor_pushed
      /\ vendor_pushed <= MaxVendor /\ MaxVendor \in Nat
      /\ log \in Seq(InPkt) /\ Len(log) \in Nat
  BY BoundsAssumption DEF QueueInv, TypeOK
<1>1. CASE Poll
  <2>1. CASE Take
    <3>1. PICK i \in 1..Len(hid_in) :
            /\ log' = Append(log, hid_in[i]) /\ hid_in[i] \in InPkt
            /\ \/ hid_in[i] = [iface |-> "vendor", seq |-> vendor_taken + 1] /\ vendor_taken' = vendor_taken + 1
               \/ vendor_taken' = vendor_taken
      BY <2>1, TakeFacts
    <3>2. log' # log /\ log'[Len(log')] = hid_in[i]
      BY <1>0, <3>1
    <3>3. inhand' = <<hid_in[i]>> /\ inhand = <<>> /\ processed' = processed /\ wiped' = wiped
      BY <1>1, <3>2 DEF Poll
    <3>4. inhand' # <<>> /\ inhand'[1] = hid_in[i]
      BY <3>3
    <3>5. CASE n \in 1..vendor_taken
      BY <3>3, <3>5 DEF FramesTaken
    <3>6. CASE n = vendor_taken + 1 /\ vendor_taken' = vendor_taken + 1
      BY <1>0, <3>1, <3>4, <3>6
    <3> QED
      BY <1>0, <3>1, <3>5, <3>6
  <2>2. CASE ~Take
    <3>1. vendor_taken' = vendor_taken
      BY <1>1, <2>2 DEF Poll, Recv, RecvSleep, RecvTimeout, SeremuGetc
    <3> QED
      BY <1>1, <3>1 DEF Poll, FramesTaken
  <2> QED
    BY <2>1, <2>2
<1>2. CASE Process
  <2>1. vendor_taken' = vendor_taken
    BY <1>2 DEF Process, vars
  <2>2. CASE n \in processed \cup wiped
    BY <1>2, <2>2 DEF Process
  <2>3. CASE inhand[1] = [iface |-> "vendor", seq |-> n]
    BY <1>2, <2>3 DEF Process
  <2> QED
    BY <2>1, <2>2, <2>3 DEF FramesTaken
<1>3. CASE Sense \/ QueuePresses \/ UNCHANGED allVars
  BY <1>3 DEF Sense, QueuePresses, allVars, orderVars, vars, FramesTaken
<1>4. CASE Wipe
  <2>1. CASE n \in 1..vendor_taken
    BY <1>4, <2>1 DEF Wipe, FramesTaken
  <2>2. CASE ~(n \in 1..vendor_taken)
    <3>1. n \in 1..vendor_pushed /\ n > vendor_taken /\ hid_in' = <<>>
      BY <1>0, <1>4, <2>2 DEF Wipe, WipeHid, WipeSeremu, FlushIn
    <3>2. \E i \in 1..Len(hid_in) : hid_in[i] = [iface |-> "vendor", seq |-> n]
      BY <3>1 DEF QueueInv, TicketTruth, Queued
    <3>3. n \in 1..MaxVendor
      BY <1>0, <3>1
    <3> QED
      BY <1>4, <3>1, <3>2, <3>3 DEF Wipe
  <2> QED
    BY <2>1, <2>2
<1>5. ASSUME NEW c \in Callers, Write(c)
      PROVE  n \in processed' \cup wiped' \/ (inhand' # <<>> /\ inhand'[1] = [iface |-> "vendor", seq |-> n])
  <2>1. vendor_taken' = vendor_taken
    BY <1>5 DEF Write, Host, DeliverSeremu, Deliver, Notify, WaitTaken, Deadline, Settle
  <2> QED
    BY <1>5, <2>1 DEF Write, FramesTaken
<1> QED
  BY <1>1, <1>2, <1>3, <1>4, <1>5 DEF DINext

(* What the ring takes of a line, and where it goes. *)
LEMMA AcceptedType ==
  ASSUME PressNumbers, NEW n \in Nat, NEW valid \in BOOLEAN
  PROVE  Press!Accepted(n, valid) \in 0..(Depth - count)
<1>1. Depth - count \in Nat
  BY PressAssumption DEF PressNumbers
<1> QED
  BY <1>1 DEF Press!Accepted

LEMMA PushNumbers ==
  ASSUME PressNumbers, NEW n \in Nat, NEW valid \in BOOLEAN, Press!Push(Press!Accepted(n, valid)), checked' \in Nat
  PROVE  PressNumbers' /\ queued' >= queued /\ handed' = handed
<1> DEFINE a == Press!Accepted(n, valid)
<1>1. a \in 0..(Depth - count)
  BY AcceptedType
<1>2. Press!Push(a)
  OBVIOUS
<1> HIDE DEF a
<1>3. /\ queued \in Nat /\ count \in Nat /\ count <= Depth /\ Depth \in Nat \ {0}
      /\ tail \in 0..(Depth - 1) /\ a \in Nat /\ a <= Depth - count
  BY <1>1, PressAssumption DEF PressNumbers, Press!Slots
<1>4. queued' = queued + a /\ count' = count + a /\ tail' = Press!Slot(tail + a)
      /\ UNCHANGED <<head, key_press, handed>>
  BY <1>2 DEF Press!Push
<1>5. queued' \in Nat /\ queued' >= queued /\ count' \in 0..Depth
  BY <1>3, <1>4
<1>6. tail' \in Press!Slots
  BY <1>3, <1>4 DEF Press!Slot, Press!Slots
<1>7. q' \in [Press!Slots -> 0..queued']
  <2>1. q' = [i \in Press!Slots |-> IF Press!Ahead(i) < a THEN queued + 1 + Press!Ahead(i) ELSE q[i]]
    BY <1>2 DEF Press!Push
  <2>2. ASSUME NEW i \in Press!Slots
        PROVE  (IF Press!Ahead(i) < a THEN queued + 1 + Press!Ahead(i) ELSE q[i]) \in 0..queued'
    <3>1. Press!Ahead(i) \in Nat
      BY <1>3 DEF Press!Ahead, Press!Slots
    <3>2. q[i] \in 0..queued
      BY DEF PressNumbers
    <3> QED
      BY <1>3, <1>4, <3>1, <3>2
  <2> QED
    BY <2>1, <2>2
<1>8. key_press' \in 0..queued' /\ handed' \in Seq(1..queued')
  <2>1. 0..queued \subseteq 0..queued' /\ 1..queued \subseteq 1..queued'
    BY <1>3, <1>5
  <2> QED
    BY <1>4, <2>1 DEF PressNumbers
<1> QED
  BY <1>4, <1>5, <1>6, <1>7, <1>8 DEF PressNumbers

(* What a host does to the presses: more are accepted, and none handed over. *)
LEMMA HostPresses ==
  ASSUME PressNumbers, Press!HostStep
  PROVE  PressNumbers' /\ queued' >= queued /\ handed' = handed
<1>1. ASSUME NEW n \in 1..MaxLine, Press!CheckLine(n) \/ Press!StartRun(n)
      PROVE  PressNumbers' /\ queued' >= queued /\ handed' = handed
  <2>1. CASE Press!CheckLine(n)
    <3>1. checked' \in Nat /\ UNCHANGED <<q, head, tail, count, key_press, queued, handed>>
      BY <1>1, <2>1, PressAssumption DEF Press!CheckLine, Press!Fits, Press!ring
    <3> QED
      BY <3>1 DEF PressNumbers
  <2>2. CASE Press!StartRun(n)
    <3>1. checked' \in Nat /\ UNCHANGED <<q, head, tail, count, key_press, queued, handed>>
      BY <1>1, <2>2, PressAssumption DEF PressNumbers, Press!StartRun, Press!Fits, Press!ring
    <3> QED
      BY <3>1 DEF PressNumbers
  <2> QED
    BY <1>1, <2>1, <2>2
<1>2. ASSUME NEW valid \in BOOLEAN, Press!QueueLine(valid)
      PROVE  PressNumbers' /\ queued' >= queued /\ handed' = handed
  BY <1>2, PushNumbers DEF Press!QueueLine, PressNumbers
<1>3. CASE Press!CheckRunPress
  BY <1>3 DEF PressNumbers, Press!CheckRunPress, Press!ring
<1>4. CASE Press!QueueRunPress
  BY <1>4, PushNumbers DEF Press!QueueRunPress, PressNumbers
<1>5. ASSUME NEW n \in 1..MaxLine, NEW valid \in BOOLEAN, Press!AndroidQueue(n, valid)
      PROVE  PressNumbers' /\ queued' >= queued /\ handed' = handed
  <2>1. n \in Nat /\ checked' \in Nat
    BY <1>5, PressAssumption DEF Press!AndroidQueue, PressNumbers
  <2> QED
    BY <1>5, <2>1, PushNumbers DEF Press!AndroidQueue
<1> QED
  BY <1>1, <1>2, <1>3, <1>4, <1>5 DEF Press!HostStep

(* A sense round hands over at most one press, one that had been accepted    *)
(* (okemu_press.cpp:62-75).                                                  *)
LEMMA SensePresses ==
  ASSUME PressNumbers, NEW released \in BOOLEAN, Press!SenseRound(released)
  PROVE  /\ PressNumbers' /\ queued' = queued
         /\ handed' = handed \/ \E p \in 1..queued : handed' = Append(handed, p)
<1> DEFINE p == Press!PressAfterTake
<1>1. /\ queued \in Nat /\ count \in 0..Depth /\ Depth \in Nat \ {0} /\ head \in 0..(Depth - 1)
      /\ handed \in Seq(1..queued)
  BY PressAssumption DEF PressNumbers, Press!Slots
<1>2. p \in 0..queued
  BY DEF PressNumbers, Press!PressAfterTake
<1>3. queued' = queued /\ checked' = checked /\ tail' = tail /\ q' = q
  BY DEF Press!SenseRound, Press!TakePress, Press!ring
<1>4. count' \in 0..Depth /\ head' \in Press!Slots
  <2>1. CASE Press!CanTake
    <3>1. count > 0 /\ count' = count - 1 /\ head' = Press!Slot(head + 1)
      BY <2>1 DEF Press!SenseRound, Press!TakePress, Press!CanTake
    <3> QED
      BY <1>1, <3>1 DEF Press!Slot, Press!Slots
  <2>2. CASE ~Press!CanTake
    BY <2>2 DEF Press!SenseRound, Press!TakePress, Press!ring, PressNumbers
  <2> QED
    BY <2>1, <2>2
<1>5. /\ key_press' = 0 \/ key_press' = p
      /\ handed' = handed \/ (p # 0 /\ handed' = Append(handed, p))
  BY DEF Press!SenseRound
<1> HIDE DEF p
<1>6. key_press' \in 0..queued
  BY <1>1, <1>2, <1>5
<1>7. handed' = handed \/ (p \in 1..queued /\ handed' = Append(handed, p))
  BY <1>1, <1>2, <1>5
<1>8. handed' \in Seq(1..queued)
  <2>1. handed \in Seq(1..queued) /\ (p \in 1..queued => Append(handed, p) \in Seq(1..queued))
    BY <1>1, AppendProperties
  <2> QED
    BY <1>7, <2>1
<1> QED
  BY <1>3, <1>4, <1>6, <1>7, <1>8 DEF PressNumbers

(* A press is queued behind every frame answered, and dispatched by a loop    *)
(* that has processed every frame it took.                                   *)
LEMMA OrderInit == DIInit => IInv /\ OrderInv
<1> SUFFICES ASSUME DIInit PROVE IInv /\ OrderInv
  OBVIOUS
<1>1. Init /\ Press!Init /\ inhand = <<>> /\ acked = 0 /\ basis = <<>>
  BY DEF DIInit
<1>2. IInv
  BY <1>1, IInvInit
<1>3. PressNumbers
  <2>1. 0 \in Press!Slots /\ handed = <<>> /\ queued = 0 /\ count = 0 /\ checked = 0 /\ key_press = 0
        /\ head = 0 /\ tail = 0 /\ q = [i \in Press!Slots |-> 0]
    BY <1>1, PressAssumption DEF Press!Init, Press!Slots
  <2>2. 0 \in 0..Depth /\ 0 \in 0..queued
    BY <2>1, PressAssumption
  <2> QED
    BY <2>1, <2>2 DEF PressNumbers
<1>4. FramesTaken /\ AnsweredIsTaken
  BY <1>1 DEF Init, FramesTaken, AnsweredIsTaken
<1>5. BasisAcked
  BY <1>1 DEF Init, BasisAcked, Press!Init
<1>6. PressAfterFrame
  BY <1>1 DEF PressAfterFrame, Press!Init
<1> QED
  BY <1>2, <1>3, <1>4, <1>5, <1>6 DEF OrderInv

LEMMA BasisNext ==
  ASSUME QueueInv, OrderInv, [DINext]_allVars
  PROVE  BasisAcked' /\ PressNumbers' /\ PressAfterFrame'
<1> USE DEF OrderInv
<1>0. /\ vendor_taken \in Nat /\ vendor_taken' \in Nat /\ vendor_taken <= vendor_taken'
      /\ acked \in Nat /\ acked <= vendor_taken
      /\ basis \in Seq(0..acked) /\ Len(basis) = queued /\ queued \in Nat
      /\ handed \in Seq(1..queued) /\ Len(handed) \in Nat
      /\ \A k \in 1..Len(handed) : handed[k] \in 1..queued
  <2>1. vendor_taken \in Nat /\ vendor_taken' \in Nat /\ vendor_taken <= vendor_taken'
    BY QueueStep, TakenGrows
  <2>2. acked \in Nat /\ acked <= vendor_taken /\ basis \in Seq(0..acked) /\ Len(basis) = queued
    BY DEF BasisAcked
  <2>3. queued \in Nat /\ handed \in Seq(1..queued)
    BY DEF PressNumbers
  <2> QED
    BY <2>1, <2>2, <2>3
<1>1. ASSUME acked' \in Nat, acked <= acked', acked' <= vendor_taken', UNCHANGED <<basis, queued>>
      PROVE  BasisAcked'
  <2>1. 0..acked \subseteq 0..acked'
    BY <1>0, <1>1
  <2> QED
    BY <1>0, <1>1, <2>1 DEF BasisAcked
<1>2. ASSUME processed \subseteq processed', wiped \subseteq wiped', UNCHANGED <<handed, basis>>
      PROVE  PressAfterFrame'
  BY <1>2 DEF PressAfterFrame
<1>3. CASE Poll \/ Process \/ Wipe \/ UNCHANGED allVars
  <2>1. /\ UNCHANGED <<acked, basis, pressVars>>
        /\ processed \subseteq processed' /\ wiped \subseteq wiped'
    BY <1>3 DEF Poll, Process, Wipe, allVars, orderVars
  <2>2. UNCHANGED <<q, head, tail, count, key_press, checked, queued, handed>>
    BY <2>1 DEF pressVars
  <2>3. PressNumbers'
    BY <2>2 DEF PressNumbers
  <2> QED
    BY <1>0, <1>1, <1>2, <2>1, <2>2, <2>3
<1>4. ASSUME NEW c \in Callers, Write(c)
      PROVE  BasisAcked' /\ PressNumbers' /\ PressAfterFrame'
  <2>1. /\ UNCHANGED <<basis, pressVars, processed, wiped>>
        /\ acked' = acked \/ (pc[c] = "done" /\ answer[c] /\ ticket[c] > acked /\ acked' = ticket[c])
    BY <1>4 DEF Write
  <2>2. UNCHANGED <<q, head, tail, count, key_press, checked, queued, handed>>
    BY <2>1 DEF pressVars
  <2>3. ticket[c] \in Nat
    BY DEF QueueInv, TypeOK
  <2>4. acked' \in Nat /\ acked <= acked' /\ acked' <= vendor_taken'
    BY <1>0, <2>1, <2>3 DEF AnsweredIsTaken
  <2>5. PressNumbers'
    BY <2>2 DEF PressNumbers
  <2> QED
    BY <1>1, <1>2, <2>1, <2>2, <2>4, <2>5
<1>5. CASE QueuePresses
  <2>1. /\ PressNumbers' /\ queued' >= queued /\ handed' = handed
    BY <1>5, HostPresses DEF QueuePresses
  <2>2. /\ basis' = basis \o [k \in 1..(queued' - queued) |-> acked]
        /\ UNCHANGED <<vendor_taken, processed, wiped, acked>>
    BY <1>5 DEF QueuePresses, vars
  <2> DEFINE new == [k \in 1..(queued' - queued) |-> acked]
  <2>9. queued' \in Nat
    BY <2>1 DEF PressNumbers
  <2>3. queued' \in Nat /\ queued' - queued \in Nat
    <3>1. queued \in Nat /\ queued' >= queued
      BY <1>0, <2>1
    <3> HIDE DEF new
    <3>2. \A a, b \in Nat : b >= a => b - a \in Nat
      OBVIOUS
    <3> QED
      BY <2>9, <3>1, <3>2
  <2>4. new \in Seq(0..acked) /\ Len(new) = queued' - queued
    <3> DEFINE m == queued' - queued
    <3>1. m \in Nat /\ acked \in 0..acked
      <4>1. acked \in Nat
        BY <1>0
      <4> QED
        BY ONLY <2>3, <4>1
    <3> HIDE DEF m
    <3>2. [k \in 1..m |-> acked] \in Seq(0..acked) /\ Len([k \in 1..m |-> acked]) = m
      BY <3>1
    <3> QED
      BY <3>2 DEF m
  <2>5. basis' = basis \o new
    BY <2>2
  <2> HIDE DEF new
  <2>6. /\ basis' \in Seq(0..acked) /\ Len(basis') = Len(basis) + Len(new)
        /\ \A k \in 1..Len(basis) : basis'[k] = basis[k]
    <3>1. basis \in Seq(0..acked) /\ new \in Seq(0..acked) /\ Len(basis) \in Nat /\ Len(new) \in Nat
      BY <1>0, <2>3, <2>4
    <3>2. /\ basis \o new \in Seq(0..acked) /\ Len(basis \o new) = Len(basis) + Len(new)
          /\ \A k \in 1..Len(basis) + Len(new) :
               (basis \o new)[k] = IF k <= Len(basis) THEN basis[k] ELSE new[k - Len(basis)]
      BY ONLY <3>1, ConcatProperties
    <3> QED
      BY <2>5, <3>1, <3>2
  <2>7. BasisAcked'
    BY <1>0, <2>2, <2>3, <2>4, <2>6 DEF BasisAcked
  <2>8. PressAfterFrame'
    BY <1>0, <2>1, <2>2, <2>6 DEF PressAfterFrame
  <2> QED
    BY <2>1, <2>7, <2>8
<1>6. CASE Sense
  <2>1. inhand = <<>> /\ UNCHANGED <<vars, orderVars>>
    BY <1>6 DEF Sense
  <2>2. UNCHANGED <<vendor_taken, processed, wiped, acked, basis>>
    BY <2>1 DEF vars, orderVars
  <2>3. PICK released \in BOOLEAN : Press!SenseRound(released)
    BY <1>6 DEF Sense
  <2>4. /\ PressNumbers' /\ queued' = queued
        /\ handed' = handed \/ \E p \in 1..queued : handed' = Append(handed, p)
    BY <2>3, SensePresses
  <2>5. 1..vendor_taken \subseteq processed \cup wiped
    BY <2>1 DEF FramesTaken
  <2>6. ASSUME NEW p \in 1..queued, handed' = Append(handed, p)
        PROVE  PressAfterFrame'
    <3>1. Len(handed') = Len(handed) + 1 /\ handed'[Len(handed) + 1] = p
          /\ \A k \in 1..Len(handed) : handed'[k] = handed[k]
      BY <1>0, <2>6
    <3>2. basis[p] \in 0..acked
      BY <1>0
    <3>3. 1..basis[p] \subseteq 1..vendor_taken
      BY <1>0, <3>2
    <3>4. \A k \in 1..Len(handed) + 1 : k \in 1..Len(handed) \/ k = Len(handed) + 1
      BY SMTT(30), <1>0
    <3> QED
      BY <2>2, <2>5, <3>1, <3>3, <3>4 DEF PressAfterFrame
  <2>7. BasisAcked'
    BY <2>2, <2>4 DEF BasisAcked
  <2> QED
    BY <1>2, <2>2, <2>4, <2>6, <2>7
<1> QED
  BY <1>3, <1>4, <1>5, <1>6 DEF DINext

(* A press queued after a write was answered `taken` is dispatched only       *)
(* after the firmware has processed that frame and all before it, or wiped    *)
(* them (ok_hal.cpp:826-847, addon.cpp:214-221): for any number of threads,   *)
(* frames and presses.                                                       *)
THEOREM PressAfterFrameHolds == DISpec => []PressAfterFrame
<1>1. IInv /\ OrderInv /\ [DINext]_allVars => (IInv /\ OrderInv)'
  <2> SUFFICES ASSUME IInv, OrderInv, [DINext]_allVars PROVE IInv' /\ OrderInv'
    OBVIOUS
  <2>1. [Next]_vars /\ QueueInv
    BY QueueStep DEF IInv
  <2>2. IInv'
    BY <2>1, IInvNext
  <2>3. FramesTaken' /\ AnsweredIsTaken'
    BY <2>1, FramesNext, AnsweredNext DEF OrderInv
  <2> QED
    BY <2>1, <2>2, <2>3, BasisNext DEF OrderInv
<1>2. OrderInv => PressAfterFrame
  BY DEF OrderInv
<1> QED
  BY <1>1, <1>2, OrderInit, PTL DEF DISpec

-----------------------------------------------------------------------------
(* The reports of one interface, in the order of the deque. *)

(* Some numbers have a least one. *)
LEMMA LeastOf == ASSUME NEW D \in SUBSET Nat, D # {} PROVE \E k \in D : \A j \in D : ~(j < k)
<1>1. PICK k \in D : \A j \in D : ~(<<j, k>> \in OpToRel(<, Nat))
  BY NatLessThanWellFounded, WFMin
<1>2. ASSUME NEW j \in D PROVE ~(j < k)
  <2>1. ~(<<j, k>> \in OpToRel(<, Nat))
    BY <1>1
  <2> QED
    BY <2>1 DEF OpToRel
<1> QED
  BY <1>2

(* A list's items are its set's, in order. *)
LEMMA ListFacts ==
  ASSUME NEW S \in SUBSET Nat, NEW a \in Seq(S), InOrder(a, S)
  PROVE  /\ Len(a) \in Nat /\ DOMAIN a = 1..Len(a)
         /\ \A k \in 1..Len(a) : a[k] \in S /\ a[k] \in Nat
         /\ \A i \in S : \E k \in 1..Len(a) : a[k] = i
         /\ \A k, m \in 1..Len(a) : k < m => a[k] < a[m]
<1>1. Len(a) \in Nat /\ DOMAIN a = 1..Len(a) /\ \A k \in 1..Len(a) : a[k] \in S
  OBVIOUS
<1>2. {a[k] : k \in DOMAIN a} = S /\ \A k, m \in DOMAIN a : k < m => a[k] < a[m]
  BY DEF InOrder
<1>3. \A i \in S : \E k \in DOMAIN a : a[k] = i
  BY <1>2
<1> QED
  BY <1>1, <1>2, <1>3

(* A set of places is listed in one way only. *)
LEMMA ListedOnce ==
  ASSUME NEW S \in SUBSET Nat, NEW a \in Seq(S), NEW b \in Seq(S), InOrder(a, S), InOrder(b, S)
  PROVE  \A k \in 1..Len(a) : k \in 1..Len(b) /\ a[k] = b[k]
<1> DEFINE D == {k \in 1..Len(a) : ~(k \in 1..Len(b) /\ a[k] = b[k])}
<1>0. /\ Len(a) \in Nat
      /\ \A k \in 1..Len(a) : a[k] \in S /\ a[k] \in Nat
      /\ \A i \in S : \E k \in 1..Len(a) : a[k] = i
      /\ \A k, m \in 1..Len(a) : k < m => a[k] < a[m]
  BY ListFacts
<1>1. /\ Len(a) \in Nat /\ Len(b) \in Nat
      /\ \A k \in 1..Len(a) : a[k] \in Nat /\ \E j \in 1..Len(b) : b[j] = a[k]
      /\ \A k \in 1..Len(b) : b[k] \in Nat /\ \E j \in 1..Len(a) : a[j] = b[k]
      /\ \A k, m \in 1..Len(a) : k < m => a[k] < a[m]
      /\ \A k, m \in 1..Len(b) : k < m => b[k] < b[m]
  <2>1. /\ Len(b) \in Nat
        /\ \A k \in 1..Len(b) : b[k] \in S /\ b[k] \in Nat
        /\ \A i \in S : \E k \in 1..Len(b) : b[k] = i
        /\ \A k, m \in 1..Len(b) : k < m => b[k] < b[m]
    BY ListFacts
  <2> QED
    BY <1>0, <2>1
<1>2. SUFFICES ASSUME D # {} PROVE FALSE
  OBVIOUS
<1>3. PICK k \in D : \A j \in D : ~(j < k)
  <2>1. D \in SUBSET Nat
    OBVIOUS
  <2> HIDE DEF D
  <2> QED
    BY <1>2, <2>1, LeastOf
<1>4. k \in 1..Len(a) /\ \A j \in 1..Len(a) : j < k => j \in 1..Len(b) /\ a[j] = b[j]
  <2>1. ASSUME NEW j \in 1..Len(a), j < k PROVE j \notin D
    BY <1>3, <2>1
  <2> QED
    BY <2>1
<1> HIDE DEF D
<1>5. PICK j \in 1..Len(b) : b[j] = a[k]
  BY <1>1, <1>4
<1>6. k \in Nat /\ j \in Nat /\ a[k] \in Nat /\ j <= Len(b) /\ 1 <= k /\ Len(b) \in Nat
  BY <1>1, <1>4
<1>7. k <= j
  <2>1. CASE j < k
    <3>1. j \in 1..Len(a)
      BY <1>1, <1>4, <2>1
    <3>2. a[j] = a[k]
      BY <1>4, <1>5, <2>1, <3>1
    <3>3. a[j] < a[k]
      BY <1>1, <1>4, <2>1, <3>1
    <3> QED
      BY <1>6, <3>2, <3>3
  <2> QED
    BY <1>6, <2>1
<1>8. k \in 1..Len(b) /\ (k = j \/ k < j)
  BY <1>6, <1>7
<1>9. PICK m \in 1..Len(a) : a[m] = b[k]
  BY <1>1, <1>8
<1>10. m \in Nat /\ b[k] \in Nat /\ a[m] \in Nat
  BY <1>1, <1>8
<1>11. k <= m
  <2>1. CASE m < k
    <3>1. m \in 1..Len(b) /\ a[m] = b[m]
      BY <1>4, <2>1
    <3>2. b[m] < b[k]
      BY <1>1, <1>8, <2>1, <3>1
    <3> QED
      BY <1>9, <1>10, <3>1, <3>2
  <2> QED
    BY <1>6, <1>10, <2>1
<1>12. b[k] <= a[k]
  <2>1. k < j => b[k] < b[j]
    BY <1>1, <1>8
  <2> QED
    BY <1>5, <1>6, <1>8, <1>10, <2>1
<1>13. a[k] <= b[k]
  <2>1. k < m => a[k] < a[m]
    BY <1>1, <1>4
  <2>2. k = m \/ k < m
    BY <1>6, <1>10, <1>11
  <2> QED
    BY <1>6, <1>9, <1>10, <2>1, <2>2
<1>14. a[k] = b[k]
  BY <1>6, <1>10, <1>12, <1>13
<1> QED
  BY <1>8, <1>14 DEF D

LEMMA ListedEqual ==
  ASSUME NEW S \in SUBSET Nat, NEW a \in Seq(S), NEW b \in Seq(S), InOrder(a, S), InOrder(b, S)
  PROVE  a = b
<1>1. \A k \in 1..Len(a) : k \in 1..Len(b) /\ a[k] = b[k]
  BY ListedOnce
<1>2. \A k \in 1..Len(b) : k \in 1..Len(a)
  BY ListedOnce
<1>3. Len(a) \in Nat /\ Len(b) \in Nat
  OBVIOUS
<1>4. Len(a) <= Len(b) /\ Len(b) <= Len(a)
  BY <1>1, <1>2, <1>3
<1>5. Len(a) = Len(b)
  BY <1>3, <1>4
<1> QED
  BY <1>1, <1>5, SeqEqual

(* ... and no longer than its largest place. *)
LEMMA ListedFits ==
  ASSUME NEW n \in Nat, NEW S \in SUBSET (1..n), NEW a \in Seq(S), InOrder(a, S)
  PROVE  Len(a) <= n
<1> DEFINE D == {k \in 1..Len(a) : a[k] < k}
<1>1. /\ Len(a) \in Nat
      /\ \A k \in 1..Len(a) : a[k] \in 1..n
      /\ \A k, m \in 1..Len(a) : k < m => a[k] < a[m]
  BY ListFacts
<1>2. D = {}
  <2>1. SUFFICES ASSUME D # {} PROVE FALSE
    OBVIOUS
  <2>2. D \in SUBSET Nat
    OBVIOUS
  <2>3. PICK k \in D : \A j \in D : ~(j < k)
    <3> HIDE DEF D
    <3> QED
      BY <2>1, <2>2, LeastOf
  <2>4. k \in 1..Len(a) /\ a[k] < k /\ a[k] \in 1..n
    BY <1>1, <2>3
  <2>5. k - 1 \in 1..Len(a) /\ k - 1 < k /\ k - 1 \in Nat
    BY <1>1, <2>4
  <2>6. ~(a[k - 1] < k - 1)
    <3>1. k - 1 \notin D
      BY <2>3, <2>5
    <3> QED
      BY <2>5, <3>1
  <2>7. a[k - 1] < a[k] /\ a[k - 1] \in 1..n
    BY <1>1, <2>4, <2>5
  <2> QED
    BY <2>4, <2>5, <2>6, <2>7
<1>3. CASE Len(a) > 0
  <2>1. ~(a[Len(a)] < Len(a)) /\ a[Len(a)] \in 1..n
    BY <1>1, <1>2, <1>3
  <2> QED
    BY <1>1, <2>1
<1> QED
  BY <1>1, <1>3

LEMMA ListedAppend ==
  ASSUME NEW S \in SUBSET Nat, NEW a \in Seq(S), InOrder(a, S), NEW n \in Nat, \A i \in S : i < n
  PROVE  Append(a, n) \in Seq(S \cup {n}) /\ InOrder(Append(a, n), S \cup {n})
<1> DEFINE b == Append(a, n)
<1>1. a \in Seq(S \cup {n}) /\ n \in S \cup {n} /\ Len(a) \in Nat
  OBVIOUS
<1>2. /\ b \in Seq(S \cup {n}) /\ Len(b) = Len(a) + 1 /\ b[Len(a) + 1] = n
      /\ \A k \in 1..Len(a) : b[k] = a[k]
  BY <1>1, AppendProperties
<1>3. /\ {a[k] : k \in 1..Len(a)} = S /\ \A k \in 1..Len(a) : a[k] \in S
      /\ \A k, m \in 1..Len(a) : k < m => a[k] < a[m]
  BY DEF InOrder
<1> HIDE DEF b
<1>4. DOMAIN b = 1..(Len(a) + 1)
  BY <1>2
<1>5. \A k \in 1..(Len(a) + 1) : k \in 1..Len(a) \/ k = Len(a) + 1
  BY <1>1
<1>6. \A k \in 1..Len(a) : k \in 1..(Len(a) + 1) /\ k < Len(a) + 1
  BY <1>1
<1>7. {b[k] : k \in DOMAIN b} = S \cup {n}
  <2>1. ASSUME NEW k \in DOMAIN b PROVE b[k] \in S \cup {n}
    BY <1>2, <1>3, <1>4, <1>5
  <2>2. ASSUME NEW i \in S PROVE \E k \in DOMAIN b : b[k] = i
    <3>1. PICK k \in 1..Len(a) : a[k] = i
      BY <1>3
    <3> QED
      BY <1>2, <1>4, <1>6, <3>1
  <2>3. \E k \in DOMAIN b : b[k] = n
    <3>1. Len(a) + 1 \in DOMAIN b
      BY <1>1, <1>4
    <3> QED
      BY <1>2, <3>1
  <2> QED
    BY <2>1, <2>2, <2>3
<1>8. ASSUME NEW k \in DOMAIN b, NEW m \in DOMAIN b, k < m PROVE b[k] < b[m]
  <2>1. k \in 1..Len(a)
    BY <1>1, <1>4, <1>8
  <2>2. CASE m \in 1..Len(a)
    BY <1>2, <1>3, <1>8, <2>1, <2>2
  <2>3. CASE m = Len(a) + 1
    BY <1>2, <1>3, <2>1, <2>3
  <2> QED
    BY <1>4, <1>5, <2>2, <2>3
<1> QED
  BY <1>2, <1>7, <1>8 DEF InOrder, b

(* The places of an interface have a list. *)
LEMMA ListExists ==
  ASSUME NEW h \in Seq(InPkt), NEW f
  PROVE  \E a \in Seq(Places(h, f)) : InOrder(a, Places(h, f))
<1> DEFINE P(n) == {i \in 1..n : h[i].iface = f}
           D == {n \in 0..Len(h) : ~\E a \in Seq(P(n)) : InOrder(a, P(n))}
<1>1. D = {}
  <2>1. SUFFICES ASSUME D # {} PROVE FALSE
    OBVIOUS
  <2>2. D \in SUBSET Nat
    OBVIOUS
  <2>3. PICK n \in D : \A j \in D : ~(j < n)
    <3> HIDE DEF D
    <3> QED
      BY <2>1, <2>2, LeastOf
  <2>4. n \in 0..Len(h) /\ ~\E a \in Seq(P(n)) : InOrder(a, P(n))
    BY <2>3
  <2>5. n # 0
    <3>1. P(0) = {}
      OBVIOUS
    <3>2. <<>> \in Seq(P(0)) /\ InOrder(<<>>, P(0))
      BY <3>1 DEF InOrder
    <3> QED
      BY <2>4, <3>2
  <2>6. n - 1 \in 0..Len(h) /\ n - 1 < n /\ n \in Nat
    BY <2>4, <2>5
  <2>7. n - 1 \notin D
    BY <2>3, <2>6
  <2>8. PICK a \in Seq(P(n - 1)) : InOrder(a, P(n - 1))
    BY <2>6, <2>7
  <2>9. P(n - 1) \in SUBSET Nat /\ \A i \in P(n - 1) : i < n
    BY <2>6
  <2>10. P(n) = IF h[n].iface = f THEN P(n - 1) \cup {n} ELSE P(n - 1)
    BY <2>5, <2>6
  <2> HIDE DEF P, D
  <2>11. CASE h[n].iface = f
    <3>1. Append(a, n) \in Seq(P(n)) /\ InOrder(Append(a, n), P(n))
      BY <2>6, <2>8, <2>9, <2>10, <2>11, ListedAppend
    <3> QED
      BY <2>4, <3>1
  <2>12. CASE h[n].iface # f
    BY <2>4, <2>8, <2>10, <2>12
  <2> QED
    BY <2>11, <2>12
<1>2. Len(h) \in 0..Len(h) /\ Places(h, f) = P(Len(h))
  BY DEF Places
<1> QED
  BY <1>1, <1>2

(* Whatever lists the places gives the reports. *)
LEMMA ReportsAre ==
  ASSUME NEW h \in Seq(InPkt), NEW f, NEW a \in Seq(Places(h, f)), InOrder(a, Places(h, f))
  PROVE  ReportsOf(h, f) = [k \in 1..Len(a) |-> h[a[k]].seq]
<1> DEFINE S == Places(h, f)
           All == UNION {[1..n -> S] : n \in 0..Len(h)}
<1>1. S \in SUBSET (1..Len(h)) /\ S \in SUBSET Nat /\ Len(h) \in Nat /\ a \in Seq(S) /\ InOrder(a, S)
  BY DEF Places
<1>2. ReportsOf(h, f) = LET at == CHOOSE at \in All : InOrder(at, S) IN [k \in DOMAIN at |-> h[at[k]].seq]
  BY DEF ReportsOf
<1> HIDE DEF S
<1>3. a \in All
  <2>1. Len(a) \in 0..Len(h) /\ a \in [1..Len(a) -> S]
    BY <1>1, ListedFits
  <2> QED
    BY <2>1
<1>4. ASSUME NEW b \in All PROVE b \in Seq(S)
  <2>1. PICK n \in 0..Len(h) : b \in [1..n -> S]
    OBVIOUS
  <2>2. n \in Nat
    BY <1>1
  <2> QED
    BY <2>1, <2>2
<1> HIDE DEF All
<1>5. ASSUME NEW b \in All, InOrder(b, S) PROVE b = a
  BY <1>1, <1>4, <1>5, ListedEqual
<1>6. (CHOOSE at \in All : InOrder(at, S)) = a
  BY <1>1, <1>3, <1>5
<1>7. DOMAIN a = 1..Len(a)
  BY <1>1
<1> QED
  BY <1>2, <1>6, <1>7

(* The list there is, and what is in it. *)
LEMMA ReportsList ==
  ASSUME NEW h \in Seq(InPkt), NEW f
  PROVE  \E a \in Seq(Places(h, f)) :
           /\ InOrder(a, Places(h, f)) /\ Len(a) \in Nat
           /\ ReportsOf(h, f) = [k \in 1..Len(a) |-> h[a[k]].seq]
           /\ \A k \in 1..Len(a) : a[k] \in 1..Len(h) /\ h[a[k]].iface = f /\ h[a[k]] \in InPkt
           /\ \A i \in 1..Len(h) : h[i].iface = f => \E k \in 1..Len(a) : a[k] = i
           /\ \A k, m \in 1..Len(a) : k < m => a[k] < a[m]
<1>1. PICK a \in Seq(Places(h, f)) : InOrder(a, Places(h, f))
  BY ListExists
<1>2. ReportsOf(h, f) = [k \in 1..Len(a) |-> h[a[k]].seq]
  BY <1>1, ReportsAre
<1>3. Places(h, f) \in SUBSET Nat
  BY DEF Places
<1>4. /\ Len(a) \in Nat
      /\ \A k \in 1..Len(a) : a[k] \in Places(h, f)
      /\ \A i \in Places(h, f) : \E k \in 1..Len(a) : a[k] = i
      /\ \A k, m \in 1..Len(a) : k < m => a[k] < a[m]
  BY <1>1, <1>3, ListFacts
<1>5. \A i : i \in Places(h, f) <=> i \in 1..Len(h) /\ h[i].iface = f
  BY DEF Places
<1>6. \A i \in 1..Len(h) : h[i] \in InPkt
  OBVIOUS
<1> QED
  BY <1>1, <1>2, <1>4, <1>5, <1>6

LEMMA ReportsType ==
  ASSUME NEW h \in Seq(InPkt), NEW f
  PROVE  /\ ReportsOf(h, f) \in Seq(Nat)
         /\ (\A i \in 1..Len(h) : h[i].iface # f) => ReportsOf(h, f) = <<>>
<1> DEFINE r == ReportsOf(h, f)
<1>1. PICK a \in Seq(Places(h, f)) :
        /\ Len(a) \in Nat
        /\ r = [k \in 1..Len(a) |-> h[a[k]].seq]
        /\ \A k \in 1..Len(a) : a[k] \in 1..Len(h) /\ h[a[k]].iface = f /\ h[a[k]] \in InPkt
        /\ \A i \in 1..Len(h) : h[i].iface = f => \E k \in 1..Len(a) : a[k] = i
  BY ZenonT(40), ReportsList
<1>2. \A k \in 1..Len(a) : h[a[k]].seq \in Nat
  BY <1>1 DEF InPkt
<1> HIDE DEF r
<1>3. r \in Seq(Nat) /\ Len(r) = Len(a) /\ \A k \in 1..Len(a) : r[k] = h[a[k]].seq
  BY <1>1, <1>2
<1>4. ASSUME \A i \in 1..Len(h) : h[i].iface # f PROVE r = <<>>
  <2>1. \A k \in 1..Len(a) : FALSE
    BY <1>1, <1>4
  <2>2. Len(a) = 0
    BY <1>1, <2>1
  <2> QED
    BY <1>3, <2>2, EmptySeq
<1> QED
  BY <1>3, <1>4 DEF r

(* The numbers in an endpoint's list are those of its reports in the deque.  *)
Listed(s, n) == \E k \in 1..Len(s) : s[k] = n
Holds(h, f, n) == \E i \in 1..Len(h) : h[i].iface = f /\ h[i].seq = n

LEMMA ReportsHeld ==
  ASSUME NEW h \in Seq(InPkt), NEW f, NEW n
  PROVE  Listed(ReportsOf(h, f), n) <=> Holds(h, f, n)
<1> USE DEF Listed, Holds
<1>1. PICK a \in Seq(Places(h, f)) :
        /\ InOrder(a, Places(h, f)) /\ Len(a) \in Nat
        /\ ReportsOf(h, f) = [k \in 1..Len(a) |-> h[a[k]].seq]
        /\ \A k \in 1..Len(a) : a[k] \in 1..Len(h) /\ h[a[k]].iface = f /\ h[a[k]] \in InPkt
        /\ \A i \in 1..Len(h) : h[i].iface = f => \E k \in 1..Len(a) : a[k] = i
        /\ \A k, m \in 1..Len(a) : k < m => a[k] < a[m]
  BY ReportsList
<1>2. Len(ReportsOf(h, f)) = Len(a) /\ \A k \in 1..Len(a) : ReportsOf(h, f)[k] = h[a[k]].seq
  BY <1>1
<1>3. ASSUME NEW k \in 1..Len(a), h[a[k]].seq = n PROVE \E i \in 1..Len(h) : h[i].iface = f /\ h[i].seq = n
  BY <1>1, <1>3
<1>4. ASSUME NEW i \in 1..Len(h), h[i].iface = f, h[i].seq = n PROVE \E k \in 1..Len(a) : h[a[k]].seq = n
  BY <1>1, <1>4
<1> QED
  BY <1>2, <1>3, <1>4

(* A push appends to its interface's reports. *)
LEMMA ReportsPush ==
  ASSUME NEW h \in Seq(InPkt), NEW p \in InPkt, NEW f
  PROVE  ReportsOf(Append(h, p), f) = IF p.iface = f THEN Append(ReportsOf(h, f), p.seq) ELSE ReportsOf(h, f)
<1> DEFINE g == Append(h, p)
           n == Len(h) + 1
<1>1. /\ g \in Seq(InPkt) /\ Len(g) = n /\ g[n] = p /\ n \in Nat /\ Len(h) \in Nat
      /\ \A i \in 1..Len(h) : g[i] = h[i]
  BY AppendProperties
<1>2. PICK a \in Seq(Places(h, f)) :
        /\ InOrder(a, Places(h, f)) /\ Len(a) \in Nat
        /\ ReportsOf(h, f) = [k \in 1..Len(a) |-> h[a[k]].seq]
        /\ \A k \in 1..Len(a) : a[k] \in 1..Len(h) /\ h[a[k]].iface = f /\ h[a[k]] \in InPkt
  BY ReportsList
<1>3. \A i \in 1..Len(h) : i < n
  BY <1>1
<1>4. Places(g, f) = IF p.iface = f THEN Places(h, f) \cup {n} ELSE Places(h, f)
  <2> HIDE DEF g
  <2>1. \A i : i \in 1..n <=> i \in 1..Len(h) \/ i = n
    BY <1>1
  <2>2. n \notin 1..Len(h)
    BY <1>1
  <2> HIDE DEF n
  <2> QED
    BY <1>1, <2>1, <2>2 DEF Places
<1>5. Places(h, f) \in SUBSET Nat /\ \A i \in Places(h, f) : i < n
  BY <1>3 DEF Places
<1> HIDE DEF g, n
<1>6. CASE p.iface = f
  <2> DEFINE b == Append(a, n)
  <2>1. b \in Seq(Places(g, f)) /\ InOrder(b, Places(g, f))
    BY SMTT(30), <1>1, <1>2, <1>4, <1>5, <1>6, ListedAppend
  <2>2. Len(b) = Len(a) + 1 /\ b[Len(a) + 1] = n /\ \A k \in 1..Len(a) : b[k] = a[k]
    BY AppendProperties
  <2> HIDE DEF b
  <2>3. ReportsOf(g, f) = [k \in 1..Len(b) |-> g[b[k]].seq]
    BY <1>1, <2>1, ReportsAre
  <2>4. /\ ReportsOf(h, f) \in Seq(Nat) /\ p.seq \in Nat /\ Len(ReportsOf(h, f)) = Len(a)
        /\ \A k \in 1..Len(a) : ReportsOf(h, f)[k] = h[a[k]].seq
    BY <1>2, ReportsType DEF InPkt
  <2>5. /\ Append(ReportsOf(h, f), p.seq) \in Seq(Nat) /\ Len(Append(ReportsOf(h, f), p.seq)) = Len(a) + 1
        /\ Append(ReportsOf(h, f), p.seq)[Len(a) + 1] = p.seq
        /\ \A k \in 1..Len(a) : Append(ReportsOf(h, f), p.seq)[k] = h[a[k]].seq
    BY <2>4, AppendProperties
  <2>6. /\ ReportsOf(g, f) \in Seq(Nat) /\ Len(ReportsOf(g, f)) = Len(a) + 1
        /\ \A k \in 1..(Len(a) + 1) : ReportsOf(g, f)[k] = g[b[k]].seq
    <3>1. ReportsOf(g, f) \in Seq(Nat)
      BY <1>1, ReportsType
    <3>2. Len(b) = Len(a) + 1 /\ Len(b) \in Nat
      BY <1>2, <2>2
    <3> QED
      BY <2>3, <3>1, <3>2
  <2>7. ASSUME NEW k \in 1..(Len(a) + 1) PROVE ReportsOf(g, f)[k] = Append(ReportsOf(h, f), p.seq)[k]
    <3>1. CASE k = Len(a) + 1
      BY <1>1, <2>2, <2>5, <2>6, <3>1
    <3>2. CASE k \in 1..Len(a)
      BY SMTT(30), <1>1, <1>2, <2>2, <2>5, <2>6, <3>2
    <3> QED
      BY <1>2, <3>1, <3>2
  <2> QED
    BY <1>6, <2>5, <2>6, <2>7, SeqEqual DEF g
<1>7. CASE p.iface # f
  <2>1. ReportsOf(g, f) = [k \in 1..Len(a) |-> g[a[k]].seq]
    BY <1>1, <1>2, <1>4, <1>7, ReportsAre
  <2>2. \A k \in 1..Len(a) : g[a[k]] = h[a[k]]
    BY <1>1, <1>2
  <2> QED
    BY <1>2, <1>7, <2>1, <2>2 DEF g
<1> QED
  BY <1>6, <1>7

(* Taking an entry out moves those behind it one place up. *)
LEMMA ReportsLeft ==
  ASSUME NEW h \in Seq(InPkt), NEW i \in 1..Len(h), NEW f,
         NEW c \in Seq(Places(h, f) \ {i}), InOrder(c, Places(h, f) \ {i})
  PROVE  ReportsOf(RemoveAt(h, i), f) = [k \in 1..Len(c) |-> h[c[k]].seq]
<1> DEFINE g == RemoveAt(h, i)
           new(j) == IF j < i THEN j ELSE j - 1
           b == [k \in 1..Len(c) |-> new(c[k])]
           S == Places(h, f) \ {i}
<1>1. /\ g \in Seq(InPkt) /\ Len(g) = Len(h) - 1
      /\ \A k \in 1..(Len(h) - 1) : g[k] = IF k < i THEN h[k] ELSE h[k + 1]
  BY RemoveAtSeq
<1>2. Len(h) \in Nat /\ i \in 1..Len(h) /\ S \in SUBSET Nat
      /\ \A j : j \in S <=> j \in 1..Len(h) /\ j # i /\ h[j].iface = f
  BY DEF Places
<1>3. /\ Len(c) \in Nat
      /\ \A k \in 1..Len(c) : c[k] \in S /\ c[k] \in Nat
      /\ \A j \in S : \E k \in 1..Len(c) : c[k] = j
      /\ \A k, m \in 1..Len(c) : k < m => c[k] < c[m]
  <2>1. S \in SUBSET Nat /\ c \in Seq(S) /\ InOrder(c, S)
    BY <1>2
  <2> HIDE DEF S
  <2> QED
    BY <2>1, ListFacts
<1> HIDE DEF g
<1>4. ASSUME NEW j \in 1..Len(h), j # i PROVE new(j) \in 1..Len(g) /\ g[new(j)] = h[j]
  <2>1. CASE j < i
    <3>1. j \in 1..(Len(h) - 1) /\ new(j) = j
      <4>1. j \in Nat /\ i \in Nat /\ 1 <= j /\ i <= Len(h) /\ Len(h) \in Nat
        BY <1>2
      <4> QED
        BY <2>1, <4>1
    <3> QED
      BY <1>1, <2>1, <3>1
  <2>2. CASE ~(j < i)
    <3>1. j - 1 \in 1..(Len(h) - 1) /\ ~(j - 1 < i) /\ (j - 1) + 1 = j
      BY <1>2, <1>4, <2>2
    <3> QED
      BY <1>1, <2>2, <3>1
  <2> QED
    BY <2>1, <2>2
<1>5. \A j, m \in 1..Len(h) : j # i /\ m # i /\ j < m => new(j) < new(m)
  BY <1>2
<1>6. ASSUME NEW m \in 1..Len(g) PROVE \E j \in 1..Len(h) : j # i /\ new(j) = m /\ h[j] = g[m]
  <2>1. CASE m < i
    <3>1. m \in 1..(Len(h) - 1) /\ m \in 1..Len(h) /\ m # i /\ new(m) = m
      BY <1>1, <1>2, <2>1
    <3>2. g[m] = h[m]
      BY <1>1, <2>1, <3>1
    <3> QED
      BY <3>1, <3>2
  <2>2. CASE ~(m < i)
    <3>1. m + 1 \in 1..Len(h) /\ m + 1 # i /\ ~(m + 1 < i) /\ (m + 1) - 1 = m
      BY <1>1, <1>2, <2>2
    <3> QED
      BY <1>1, <2>2, <3>1
  <2> QED
    BY <2>1, <2>2
<1> HIDE DEF new, S
<1>7. \A k \in 1..Len(c) : new(c[k]) \in Places(g, f) /\ g[new(c[k])] = h[c[k]]
  <2> TAKE k \in 1..Len(c)
  <2>1. c[k] \in 1..Len(h) /\ c[k] # i /\ h[c[k]].iface = f
    BY <1>2, <1>3
  <2>2. new(c[k]) \in 1..Len(g) /\ g[new(c[k])] = h[c[k]]
    BY <1>4, <2>1
  <2> QED
    BY <2>1, <2>2 DEF Places
<1>8. b \in Seq(Places(g, f)) /\ Len(b) = Len(c) /\ DOMAIN b = 1..Len(c) /\ \A k \in 1..Len(c) : b[k] = new(c[k])
  BY <1>3, <1>7
<1> HIDE DEF b
<1>9. InOrder(b, Places(g, f))
  <2>1. ASSUME NEW m \in Places(g, f) PROVE \E k \in DOMAIN b : b[k] = m
    <3>1. m \in 1..Len(g) /\ g[m].iface = f
      BY DEF Places
    <3>2. PICK j \in 1..Len(h) : j # i /\ new(j) = m /\ h[j] = g[m]
      BY <1>6, <3>1
    <3>3. PICK k \in 1..Len(c) : c[k] = j
      BY <1>2, <1>3, <3>1, <3>2
    <3> QED
      BY <1>8, <3>2, <3>3
  <2>2. \A k \in DOMAIN b : b[k] \in Places(g, f)
    BY <1>7, <1>8
  <2>3. ASSUME NEW k \in DOMAIN b, NEW m \in DOMAIN b, k < m PROVE b[k] < b[m]
    <3>1. c[k] < c[m] /\ c[k] \in 1..Len(h) /\ c[k] # i /\ c[m] \in 1..Len(h) /\ c[m] # i
      BY <1>2, <1>3, <1>8, <2>3
    <3> QED
      BY <1>5, <1>8, <3>1
  <2> QED
    BY <2>1, <2>2, <2>3 DEF InOrder
<1>10. ReportsOf(g, f) = [k \in 1..Len(b) |-> g[b[k]].seq]
  BY <1>1, <1>8, <1>9, ReportsAre
<1> QED
  BY <1>7, <1>8, <1>10 DEF g

(* A take takes the head of its interface's reports. *)
LEMMA ReportsTake ==
  ASSUME NEW h \in Seq(InPkt), NEW i \in 1..Len(h), \A j \in 1..(i - 1) : h[j].iface # h[i].iface, NEW f
  PROVE  /\ h[i].iface = f => ReportsOf(h, f) # <<>> /\ ReportsOf(RemoveAt(h, i), f) = Tail(ReportsOf(h, f))
         /\ h[i].iface # f => ReportsOf(RemoveAt(h, i), f) = ReportsOf(h, f)
<1> DEFINE S == Places(h, f)
<1>1. PICK a \in Seq(S) :
        /\ InOrder(a, S) /\ Len(a) \in Nat
        /\ ReportsOf(h, f) = [k \in 1..Len(a) |-> h[a[k]].seq]
        /\ \A k \in 1..Len(a) : a[k] \in 1..Len(h) /\ h[a[k]].iface = f /\ h[a[k]] \in InPkt
        /\ \A j \in 1..Len(h) : h[j].iface = f => \E k \in 1..Len(a) : a[k] = j
        /\ \A k, m \in 1..Len(a) : k < m => a[k] < a[m]
  BY ReportsList
<1>2. CASE h[i].iface # f
  <2>1. S \ {i} = S
    BY <1>2 DEF Places
  <2>2. a \in Seq(S \ {i}) /\ InOrder(a, S \ {i})
    BY <1>1, <2>1
  <2> HIDE DEF S
  <2>3. ReportsOf(RemoveAt(h, i), f) = [k \in 1..Len(a) |-> h[a[k]].seq]
    BY <2>2, ReportsLeft DEF S
  <2> QED
    BY <1>1, <1>2, <2>3
<1>3. CASE h[i].iface = f
  <2> DEFINE c == Tail(a)
             r == ReportsOf(h, f)
  <2>1. PICK n \in 1..Len(a) : a[n] = i
    BY <1>1, <1>3
  <2>2. n = 1
    <3>1. CASE n > 1
      <4>1. 1 \in 1..Len(a) /\ a[1] < a[n] /\ a[1] \in 1..Len(h) /\ h[a[1]].iface = f
        BY <1>1, <3>1
      <4>2. a[1] \in 1..(i - 1)
        BY <2>1, <4>1
      <4> QED
        BY <1>3, <4>1, <4>2
    <3> QED
      BY <3>1
  <2>3. Len(a) > 0 /\ a[1] = i /\ a # <<>>
    BY <1>1, <2>1, <2>2
  <2>4. /\ c \in Seq(S) /\ Len(c) = Len(a) - 1 /\ \A k \in 1..Len(c) : c[k] = a[k + 1]
    BY <2>3, HeadTailProperties
  <2> HIDE DEF c, S
  <2>5. \A k \in 1..Len(c) : k + 1 \in 1..Len(a) /\ 1 < k + 1 /\ k \in Nat
    BY <1>1, <2>3, <2>4
  <2>6. \A k \in 1..Len(c) : c[k] \in S \ {i}
    <3> TAKE k \in 1..Len(c)
    <3>1. c[k] \in S /\ c[k] = a[k + 1]
      BY <2>4
    <3>2. a[1] < a[k + 1] /\ a[k + 1] \in 1..Len(h) /\ a[1] \in 1..Len(h)
      <4>1. 1 \in 1..Len(a) /\ k + 1 \in 1..Len(a) /\ 1 < k + 1
        BY <2>1, <2>2, <2>5
      <4> QED
        BY <1>1, <4>1
    <3> QED
      BY <2>3, <3>1, <3>2
  <2>7. c \in Seq(S \ {i}) /\ DOMAIN c = 1..Len(c) /\ Len(c) \in Nat
    <3>1. Len(c) \in Nat /\ DOMAIN c = 1..Len(c) /\ c = [k \in 1..Len(c) |-> c[k]]
      BY <2>4
    <3>2. [k \in 1..Len(c) |-> c[k]] \in Seq(S \ {i})
      BY <2>6, <3>1
    <3> QED
      BY <3>1, <3>2
  <2>8. InOrder(c, S \ {i})
    <3>1. ASSUME NEW j \in S \ {i} PROVE \E k \in DOMAIN c : c[k] = j
      <4>1. j \in 1..Len(h) /\ h[j].iface = f /\ j # i
        BY DEF S, Places
      <4>2. PICK m \in 1..Len(a) : a[m] = j
        BY <1>1, <4>1
      <4>3. m # 1 /\ m - 1 \in 1..Len(c) /\ (m - 1) + 1 = m
        BY <1>1, <2>3, <2>4, <4>1, <4>2
      <4> QED
        BY <2>4, <2>7, <4>2, <4>3
    <3>2. ASSUME NEW k \in DOMAIN c, NEW m \in DOMAIN c, k < m PROVE c[k] < c[m]
      <4>1. k + 1 < m + 1 /\ k + 1 \in 1..Len(a) /\ m + 1 \in 1..Len(a)
        BY <2>5, <2>7, <3>2
      <4> QED
        BY <1>1, <2>4, <2>7, <4>1
    <3> QED
      BY <2>6, <2>7, <3>1, <3>2 DEF InOrder
  <2>9. ReportsOf(RemoveAt(h, i), f) = [k \in 1..Len(c) |-> h[c[k]].seq]
    BY <2>7, <2>8, ReportsLeft DEF S
  <2>10. r \in Seq(Nat) /\ Len(r) = Len(a) /\ \A k \in 1..Len(a) : r[k] = h[a[k]].seq
    BY SMTT(30), <1>1, ReportsType
  <2> HIDE DEF r
  <2>11. r # <<>> /\ Tail(r) \in Seq(Nat) /\ Len(Tail(r)) = Len(c) /\ \A k \in 1..Len(c) : Tail(r)[k] = r[k + 1]
    BY <2>3, <2>4, <2>10, HeadTailProperties
  <2>12. \A k \in 1..Len(c) : Tail(r)[k] = h[c[k]].seq
    BY <2>4, <2>5, <2>10, <2>11
  <2>13. Tail(r) = [k \in 1..Len(c) |-> h[c[k]].seq]
    <3> DEFINE t == Tail(r)
    <3>1. t \in Seq(Nat) /\ Len(t) = Len(c) /\ \A k \in 1..Len(c) : t[k] = h[c[k]].seq
      BY <2>11, <2>12
    <3> HIDE DEF t
    <3>2. t = [k \in 1..Len(t) |-> t[k]]
      BY <3>1
    <3>3. t = [k \in 1..Len(c) |-> h[c[k]].seq]
      BY <3>1, <3>2
    <3> QED
      BY <3>3 DEF t
  <2> QED
    BY <1>3, <2>9, <2>11, <2>13 DEF r
<1> QED
  BY <1>2, <1>3

-----------------------------------------------------------------------------
(* The deque and its counters are the endpoints of a USB key. *)

(* A ticket has been issued. *)
TicketIssued == \A c \in Callers : ticket[c] <= vendor_pushed

LEMMA IssuedNext == TypeOK /\ TicketIssued /\ [Next]_vars => TicketIssued'
<1> SUFFICES ASSUME TypeOK, TicketIssued, [Next]_vars, NEW c \in Callers PROVE ticket'[c] <= vendor_pushed'
  BY DEF TicketIssued
<1>1. ticket[c] \in Nat /\ vendor_pushed \in Nat /\ ticket[c] <= vendor_pushed /\ ticket \in [Callers -> 0..MaxVendor]
  BY BoundsAssumption DEF TypeOK, TicketIssued
<1>2. CASE vendor_pushed' = vendor_pushed /\ (ticket'[c] = ticket[c] \/ ticket'[c] = 0)
  BY <1>1, <1>2
<1>3. ASSUME NEW d \in Callers, NEW iface \in HidIfaces, NEW w \in BOOLEAN, Deliver(d, iface, w)
      PROVE  ticket'[c] <= vendor_pushed'
  BY <1>1, <1>3 DEF Deliver
<1>4. CASE Firmware \/ UNCHANGED vars
  BY <1>2, <1>4 DEF Firmware, Recv, RecvSleep, RecvTimeout, SeremuGetc, WipeHid, WipeSeremu, hostVars, vars
<1>5. ASSUME NEW d \in Callers, Notify(d) \/ Settle(d)
      PROVE  ticket'[c] <= vendor_pushed'
  BY <1>1, <1>2, <1>5 DEF Notify, Settle
<1>6. ASSUME NEW d \in Callers, DeliverSeremu(d) \/ WaitTaken(d) \/ Deadline(d)
      PROVE  ticket'[c] <= vendor_pushed'
  BY <1>2, <1>6 DEF DeliverSeremu, WaitTaken, Deadline, hostVars
<1> QED
  BY <1>3, <1>4, <1>5, <1>6 DEF Next, Host

(* What each variable of UsbOut is, thread by thread and endpoint by endpoint. *)
LEMMA UsbValues ==
  ASSUME TypeOK
  PROVE  /\ UsbSent \in [HidIfaces -> Nat] /\ \A e \in HidIfaces : UsbSent[e] = pushed[e]
         /\ UsbEndpoint \in [HidIfaces -> Seq(Nat)] /\ \A e \in HidIfaces : UsbEndpoint[e] = ReportsOf(hid_in, e)
         /\ \A e \in HidIfaces :
              \A n : (\E k \in 1..Len(UsbEndpoint[e]) : UsbEndpoint[e][k] = n) <=> Queued(e, n)
<1>1. hid_in \in Seq(InPkt) /\ \A e \in HidIfaces : pushed[e] \in Nat
  BY DEF TypeOK, Ifaces
<1>2. \A e \in HidIfaces : UsbEndpoint[e] = ReportsOf(hid_in, e) /\ ReportsOf(hid_in, e) \in Seq(Nat)
  BY <1>1, ReportsType DEF UsbEndpoint
<1>3. ASSUME NEW e \in HidIfaces, NEW n
      PROVE  (\E k \in 1..Len(UsbEndpoint[e]) : UsbEndpoint[e][k] = n) <=> Queued(e, n)
  <2>0. hid_in \in Seq(InPkt)
    BY <1>1
  <2>1. Listed(UsbEndpoint[e], n) <=> Holds(hid_in, e, n)
    BY ONLY <2>0, <1>2, ReportsHeld
  <2>2. \A i \in 1..Len(hid_in) : hid_in[i] \in InPkt
    BY <1>1
  <2>3. \A x \in InPkt : x = [iface |-> e, seq |-> n] <=> x.iface = e /\ x.seq = n
    BY DEF InPkt
  <2> QED
    BY <2>1, <2>2, <2>3 DEF Queued, Listed, Holds
<1> QED
  BY <1>1, <1>2, <1>3 DEF UsbSent, UsbEndpoint

(* A step that leaves every thread where it was, as UsbOut sees it.          *)
LEMMA SameThreads ==
  ASSUME TypeOK, UNCHANGED <<ticket, answer, waits>>,
         \A c \in Callers : pc'[c] = pc[c] \/ (pc[c] \in {"wait", "asleep"} /\ pc'[c] \in {"wait", "asleep"})
  PROVE  UsbTransfer' = UsbTransfer /\ UsbStatus' = UsbStatus
<1>1. ASSUME NEW c \in Callers
      PROVE  (InTransfer(c)' <=> InTransfer(c)) /\ (pc'[c] = "done" <=> pc[c] = "done")
  BY DEF InTransfer
<1> QED
  BY <1>1 DEF UsbTransfer, UsbStatus

LEMMA UsbInit == Init => Usb!Init
<1> SUFFICES ASSUME Init PROVE Usb!Init
  OBVIOUS
<1>1. UsbSent = [e \in HidIfaces |-> 0]
  BY DEF Init, UsbSent, Ifaces
<1>2. UsbEndpoint = [e \in HidIfaces |-> <<>>]
  <2>1. ReportsOf(hid_in, "fido") = <<>> /\ ReportsOf(hid_in, "vendor") = <<>>
    <3>1. hid_in = <<>> /\ hid_in \in Seq(InPkt) /\ Len(hid_in) = 0
      BY DEF Init
    <3>2. \A i \in 1..Len(hid_in) : FALSE
      BY <3>1
    <3>3. \A f : ReportsOf(hid_in, f) = <<>>
      BY <3>1, <3>2, ReportsType
    <3> QED
      BY <3>3
  <2> QED
    BY <2>1 DEF UsbEndpoint, HidIfaces
<1>3. \A c \in Callers : ~InTransfer(c) /\ pc[c] = "idle" /\ ticket[c] = 0
  BY DEF Init, InTransfer
<1>4. UsbTransfer = [c \in Callers |-> 0] /\ UsbStatus = [c \in Callers |-> "idle"]
  BY <1>3 DEF UsbTransfer, UsbStatus
<1> QED
  BY <1>1, <1>2, <1>4 DEF Usb!Init, Usb!Endpoints, HidIfaces

(* A take is the service of one endpoint, FIDO's first (ok_hal.cpp:909-922).  *)
LEMMA UsbTake ==
  ASSUME TypeOK, Take, UNCHANGED <<ticket, waits, answer, pushed>>
  PROVE  Usb!Next
<1>1. PICK i \in 1..Len(hid_in) :
        /\ IsNext(i)
        /\ hid_in' = RemoveAt(hid_in, i)
        /\ WakeWaiters \/ UNCHANGED pc
  BY DEF Take
<1> DEFINE e == hid_in[i].iface
<1>2. hid_in \in Seq(InPkt) /\ Len(hid_in) \in Nat /\ hid_in[i] \in InPkt
  BY DEF TypeOK
<1>3. e \in HidIfaces
  BY <1>2 DEF InPkt
<1>4. \A j \in 1..(i - 1) : hid_in[j].iface # e
  BY <1>1, <1>2 DEF IsNext
<1>5. e = "vendor" => \A j \in 1..Len(hid_in) : hid_in[j].iface # "fido"
  BY <1>1 DEF IsNext
<1> HIDE DEF e
<1>6. UsbEndpoint[e] # <<>> /\ (e = "vendor" => UsbEndpoint["fido"] = <<>>)
  <2>1. UsbEndpoint[e] = ReportsOf(hid_in, e) /\ UsbEndpoint["fido"] = ReportsOf(hid_in, "fido")
    BY <1>3, UsbValues DEF HidIfaces
  <2>2. ReportsOf(hid_in, e) # <<>>
    BY <1>2, <1>4, ReportsTake DEF e
  <2>3. e = "vendor" => ReportsOf(hid_in, "fido") = <<>>
    BY <1>2, <1>5, ReportsType
  <2> QED
    BY <2>1, <2>2, <2>3
<1>7. UsbEndpoint' = [UsbEndpoint EXCEPT ![e] = Tail(@)]
  <2>1. UsbEndpoint' = [f \in HidIfaces |-> ReportsOf(RemoveAt(hid_in, i), f)]
    BY <1>1 DEF UsbEndpoint
  <2>2. ASSUME NEW f \in HidIfaces
        PROVE  ReportsOf(RemoveAt(hid_in, i), f) = IF f = e THEN Tail(ReportsOf(hid_in, f)) ELSE ReportsOf(hid_in, f)
    BY <1>2, <1>4, ReportsTake DEF e
  <2> QED
    BY <1>3, <2>1, <2>2 DEF UsbEndpoint
<1>8. UsbTransfer' = UsbTransfer /\ UsbStatus' = UsbStatus
  BY <1>1, SameThreads DEF WakeWaiters, TypeOK
<1>9. UsbSent' = UsbSent
  BY DEF UsbSent
<1> QED
  BY <1>3, <1>6, <1>7, <1>8, <1>9 DEF Usb!Next, Usb!Serve, Usb!Endpoints, HidIfaces

(* A wipe is a reset of both endpoints (ok_hal.cpp:933-939).                  *)
LEMMA UsbWipe == ASSUME TypeOK, WipeHid PROVE Usb!Next
<1>1. hid_in' = <<>> /\ WakeWaiters /\ UNCHANGED <<ticket, waits, answer, pushed>>
  BY DEF WipeHid, FlushIn
<1>2. UsbTransfer' = UsbTransfer /\ UsbStatus' = UsbStatus
  BY <1>1, SameThreads DEF WakeWaiters, TypeOK
<1>3. UsbSent' = UsbSent
  BY <1>1 DEF UsbSent
<1>4. UsbEndpoint' = [f \in HidIfaces |-> <<>>]
  <2>1. <<>> \in Seq(InPkt) /\ \A i \in 1..Len(<<>>) : FALSE
    OBVIOUS
  <2>2. \A f : ReportsOf(<<>>, f) = <<>>
    BY <2>1, ReportsType
  <2> QED
    BY <1>1, <2>2 DEF UsbEndpoint
<1> QED
  BY <1>2, <1>3, <1>4 DEF Usb!Next, Usb!Reset, Usb!Endpoints, HidIfaces

(* A push submits the next report; the thread that is to wait begins its      *)
(* transfer (ok_hal.cpp:826-846).                                            *)
LEMMA UsbSubmit ==
  ASSUME QueueInv, NEW c \in Callers, NEW iface \in HidIfaces, NEW w \in BOOLEAN, Deliver(c, iface, w)
  PROVE  Usb!Next
<1>1. /\ TypeOK /\ hid_in \in Seq(InPkt) /\ pushed \in [Ifaces -> Nat] /\ pushed["vendor"] = vendor_pushed
      /\ ticket \in [Callers -> 0..MaxVendor] /\ waits \in [Callers -> BOOLEAN]
      /\ pc \in [Callers -> {"idle", "notify", "wait", "asleep", "done"}] /\ iface \in Ifaces
  BY DEF QueueInv, TypeOK, CountsAgree, Ifaces
<1>2. /\ pc[c] = "idle" /\ pushed' = [pushed EXCEPT ![iface] = @ + 1]
      /\ hid_in' = Append(hid_in, [iface |-> iface, seq |-> pushed[iface] + 1])
      /\ ticket' = [ticket EXCEPT ![c] = IF iface = "vendor" THEN vendor_pushed + 1 ELSE 0]
      /\ waits' = [waits EXCEPT ![c] = w] /\ pc' = [pc EXCEPT ![c] = "notify"] /\ answer' = answer
  BY DEF Deliver
<1>3. UsbSent' = [UsbSent EXCEPT ![iface] = @ + 1]
  BY <1>1, <1>2 DEF UsbSent, Ifaces
<1>4. UsbEndpoint' = [UsbEndpoint EXCEPT ![iface] = Append(@, UsbSent[iface] + 1)]
  <2> DEFINE p == [iface |-> iface, seq |-> pushed[iface] + 1]
  <2>1. p \in InPkt /\ p.iface = iface /\ p.seq = UsbSent[iface] + 1
    BY <1>1 DEF InPkt, UsbSent
  <2>2. hid_in' = Append(hid_in, p)
    BY <1>2
  <2> HIDE DEF p
  <2>3. UsbEndpoint' = [f \in HidIfaces |-> ReportsOf(Append(hid_in, p), f)]
    BY <2>2 DEF UsbEndpoint
  <2>4. ASSUME NEW f \in HidIfaces
        PROVE  ReportsOf(Append(hid_in, p), f)
                 = IF f = iface THEN Append(ReportsOf(hid_in, f), UsbSent[iface] + 1) ELSE ReportsOf(hid_in, f)
    BY <1>1, <2>1, ReportsPush
  <2> QED
    BY <2>3, <2>4 DEF UsbEndpoint
<1>5. ASSUME NEW d \in Callers, d # c
      PROVE  UsbStatus'[d] = UsbStatus[d] /\ UsbTransfer'[d] = UsbTransfer[d]
  <2>1. pc'[d] = pc[d] /\ waits'[d] = waits[d] /\ ticket'[d] = ticket[d] /\ answer'[d] = answer[d]
    BY <1>1, <1>2, <1>5
  <2> QED
    BY <2>1 DEF UsbStatus, UsbTransfer, InTransfer
<1>6. UsbStatus[c] = "idle" /\ UsbTransfer[c] = 0
  BY <1>2 DEF UsbStatus, UsbTransfer, InTransfer
<1>7. pc'[c] = "notify" /\ waits'[c] = w /\ ticket'[c] = IF iface = "vendor" THEN UsbSent[iface] + 1 ELSE 0
  BY <1>1, <1>2 DEF UsbSent
<1>8. UsbStatus'[c] = (IF w THEN "pending" ELSE "idle") /\ UsbTransfer'[c] = IF w THEN ticket'[c] ELSE 0
  BY <1>7 DEF UsbStatus, UsbTransfer, InTransfer
<1>9. UsbStatus' = [UsbStatus EXCEPT ![c] = IF w THEN "pending" ELSE "idle"]
      /\ UsbTransfer' = [UsbTransfer EXCEPT ![c] = IF w THEN ticket'[c] ELSE 0]
  <2>1. /\ UsbStatus' = [d \in Callers |-> UsbStatus'[d]] /\ UsbStatus = [d \in Callers |-> UsbStatus[d]]
        /\ UsbTransfer' = [d \in Callers |-> UsbTransfer'[d]] /\ UsbTransfer = [d \in Callers |-> UsbTransfer[d]]
    BY DEF UsbStatus, UsbTransfer
  <2> QED
    BY <1>5, <1>8, <2>1
<1>10. Usb!Submit(c, iface, w)
  <2>1. CASE w
    BY <1>3, <1>4, <1>6, <1>7, <1>9, <2>1 DEF Usb!Submit
  <2>2. CASE ~w
    <3>1. UsbStatus' = UsbStatus /\ UsbTransfer' = UsbTransfer
      <4>1. /\ UsbStatus' = [d \in Callers |-> UsbStatus'[d]] /\ UsbStatus = [d \in Callers |-> UsbStatus[d]]
            /\ UsbTransfer' = [d \in Callers |-> UsbTransfer'[d]] /\ UsbTransfer = [d \in Callers |-> UsbTransfer[d]]
        BY DEF UsbStatus, UsbTransfer
      <4>2. \A d \in Callers : UsbStatus'[d] = UsbStatus[d] /\ UsbTransfer'[d] = UsbTransfer[d]
        BY <1>5, <1>6, <1>8, <2>2
      <4> QED
        BY <4>1, <4>2
    <3> QED
      BY <1>3, <1>4, <1>6, <2>2, <3>1 DEF Usb!Submit
  <2> QED
    BY <2>1, <2>2
<1> QED
  BY <1>10 DEF Usb!Next, Usb!Endpoints, HidIfaces

(* A step of one thread changes what UsbOut sees of that thread. *)
LEMMA OneThread ==
  ASSUME NEW c \in Callers,
         \A d \in Callers : d # c => pc'[d] = pc[d] /\ waits'[d] = waits[d] /\ ticket'[d] = ticket[d] /\ answer'[d] = answer[d]
  PROVE  /\ UsbStatus' = [UsbStatus EXCEPT ![c] = UsbStatus'[c]]
         /\ UsbTransfer' = [UsbTransfer EXCEPT ![c] = UsbTransfer'[c]]
         /\ UsbStatus = [d \in Callers |-> UsbStatus[d]] /\ UsbTransfer = [d \in Callers |-> UsbTransfer[d]]
<1>1. ASSUME NEW d \in Callers, d # c
      PROVE  UsbStatus'[d] = UsbStatus[d] /\ UsbTransfer'[d] = UsbTransfer[d]
  BY <1>1 DEF UsbStatus, UsbTransfer, InTransfer
<1>2. /\ UsbStatus' = [d \in Callers |-> UsbStatus'[d]] /\ UsbStatus = [d \in Callers |-> UsbStatus[d]]
      /\ UsbTransfer' = [d \in Callers |-> UsbTransfer'[d]] /\ UsbTransfer = [d \in Callers |-> UsbTransfer[d]]
  BY DEF UsbStatus, UsbTransfer
<1> QED
  BY <1>1, <1>2

(* The end of a transfer is the predicate's, and the predicate is whether the *)
(* endpoint still holds the report (ok_hal.cpp:848-862).                      *)
LEMMA UsbHost ==
  ASSUME QueueInv, TicketIssued, NEW c \in Callers,
         DeliverSeremu(c) \/ Notify(c) \/ WaitTaken(c) \/ Deadline(c) \/ Settle(c)
  PROVE  Usb!Next \/ UNCHANGED Usb!vars
<1>1. /\ TypeOK /\ TicketTruth /\ vendor_taken \in Nat /\ vendor_pushed \in Nat /\ ticket[c] \in Nat
      /\ ticket[c] <= vendor_pushed
      /\ pc \in [Callers -> {"idle", "notify", "wait", "asleep", "done"}]
      /\ ticket \in [Callers -> 0..MaxVendor] /\ waits \in [Callers -> BOOLEAN] /\ answer \in [Callers -> BOOLEAN]
  BY DEF QueueInv, TypeOK, TicketIssued
<1>2. UsbEndpoint' = UsbEndpoint
  BY DEF DeliverSeremu, Notify, WaitTaken, Deadline, Settle, UsbEndpoint
<1>3. UsbSent' = UsbSent
  <2>1. \A e \in HidIfaces : pushed'[e] = pushed[e]
    BY <1>1 DEF DeliverSeremu, Notify, WaitTaken, Deadline, Settle, HidIfaces, TypeOK, Ifaces
  <2> QED
    BY <2>1 DEF UsbSent
<1>4. \A d \in Callers : d # c => pc'[d] = pc[d] /\ waits'[d] = waits[d] /\ ticket'[d] = ticket[d] /\ answer'[d] = answer[d]
  BY <1>1 DEF DeliverSeremu, Notify, WaitTaken, Deadline, Settle, hostVars
<1>5. /\ UsbStatus' = [UsbStatus EXCEPT ![c] = UsbStatus'[c]]
      /\ UsbTransfer' = [UsbTransfer EXCEPT ![c] = UsbTransfer'[c]]
      /\ UsbStatus = [d \in Callers |-> UsbStatus[d]] /\ UsbTransfer = [d \in Callers |-> UsbTransfer[d]]
  BY <1>4, OneThread
<1>6. ASSUME UsbStatus'[c] = UsbStatus[c], UsbTransfer'[c] = UsbTransfer[c]
      PROVE  UNCHANGED Usb!vars
  <2>1. UsbStatus' = UsbStatus /\ UsbTransfer' = UsbTransfer
    BY <1>5, <1>6
  <2> QED
    BY <1>2, <1>3, <2>1 DEF Usb!vars
<1>7. TicketReached(c) <=> (ticket[c] = 0 \/ ~Usb!Holds("vendor", ticket[c]))
  <2>1. Usb!Holds("vendor", ticket[c]) <=> Queued("vendor", ticket[c])
    BY <1>1, UsbValues DEF Usb!Holds, HidIfaces
  <2>2. ticket[c] # 0 => ticket[c] \in 1..vendor_pushed
    BY <1>1
  <2>3. ticket[c] # 0 => (Queued("vendor", ticket[c]) <=> ticket[c] > vendor_taken)
    BY <1>1, <2>2 DEF TicketTruth
  <2> QED
    BY <1>1, <2>1, <2>3 DEF TicketReached
<1>8. CASE pc[c] \in {"wait", "asleep"} /\ pc'[c] = "done" /\ ticket' = ticket /\ answer'[c] = TicketReached(c)
  <2>1. /\ UsbStatus[c] = "pending" /\ UsbTransfer[c] = ticket[c] /\ UsbTransfer'[c] = ticket[c]
        /\ UsbStatus'[c] = IF TicketReached(c) THEN "accepted" ELSE "expired"
    BY <1>8 DEF UsbStatus, UsbTransfer, InTransfer
  <2>2. UsbTransfer' = UsbTransfer
    BY <1>5, <2>1
  <2>3. CASE TicketReached(c)
    BY <1>2, <1>3, <1>5, <1>7, <2>1, <2>2, <2>3 DEF Usb!Next, Usb!Complete
  <2>4. CASE ~TicketReached(c)
    BY <1>2, <1>3, <1>5, <1>7, <2>1, <2>2, <2>4 DEF Usb!Next, Usb!Expire
  <2> QED
    BY <2>3, <2>4
<1>9. CASE DeliverSeremu(c) \/ Notify(c)
  <2>1. UsbStatus'[c] = UsbStatus[c] /\ UsbTransfer'[c] = UsbTransfer[c]
    BY <1>1, <1>9 DEF DeliverSeremu, Notify, hostVars, UsbStatus, UsbTransfer, InTransfer
  <2> QED
    BY <1>6, <2>1
<1>10. CASE WaitTaken(c)
  <2>1. CASE TicketReached(c)
    BY <1>1, <1>8, <1>10, <2>1 DEF WaitTaken
  <2>2. CASE ~TicketReached(c)
    <3>1. pc[c] = "wait" /\ pc'[c] = "asleep" /\ ticket' = ticket
      BY <1>1, <1>10, <2>2 DEF WaitTaken
    <3>2. UsbStatus'[c] = UsbStatus[c] /\ UsbTransfer'[c] = UsbTransfer[c]
      BY <3>1 DEF UsbStatus, UsbTransfer, InTransfer
    <3> QED
      BY <1>6, <3>2
  <2> QED
    BY <2>1, <2>2
<1>11. CASE Deadline(c)
  BY <1>1, <1>8, <1>11 DEF Deadline
<1>12. CASE Settle(c)
  <2>1. pc[c] = "done" /\ pc'[c] = "idle" /\ ticket'[c] = 0
    BY <1>1, <1>12 DEF Settle
  <2>2. UsbStatus[c] \in {"accepted", "expired"} /\ UsbStatus'[c] = "idle" /\ UsbTransfer'[c] = 0
    BY <2>1 DEF UsbStatus, UsbTransfer, InTransfer
  <2> QED
    BY <1>2, <1>3, <1>5, <2>2 DEF Usb!Next, Usb!Reap
<1> QED
  BY <1>9, <1>10, <1>11, <1>12

(* Every step of the queue is a step of the endpoints, or none they notice.   *)
LEMMA UsbNext ==
  ASSUME IInv, TicketIssued, [Next]_vars
  PROVE  Usb!Next \/ UNCHANGED Usb!vars
<1>1. QueueInv /\ TypeOK
  BY DEF IInv, QueueInv
<1>2. ASSUME UNCHANGED <<hid_in, pushed, pc, ticket, waits, answer>> PROVE UNCHANGED Usb!vars
  <2>1. UsbSent' = UsbSent /\ UsbEndpoint' = UsbEndpoint
    BY <1>2 DEF UsbSent, UsbEndpoint
  <2>2. UsbTransfer' = UsbTransfer /\ UsbStatus' = UsbStatus
    BY <1>2 DEF UsbTransfer, UsbStatus, InTransfer
  <2> QED
    BY <2>1, <2>2 DEF Usb!vars
<1>3. CASE Recv
  BY <1>1, <1>3, UsbTake DEF Recv
<1>4. CASE RecvTimeout
  <2>1. CASE hid_in = <<>>
    BY <1>2, <1>4, <2>1 DEF RecvTimeout
  <2>2. CASE hid_in # <<>>
    BY <1>1, <1>4, <2>2, UsbTake DEF RecvTimeout
  <2> QED
    BY <2>1, <2>2
<1>5. CASE RecvSleep \/ SeremuGetc \/ WipeSeremu \/ UNCHANGED vars
  BY <1>2, <1>5 DEF RecvSleep, SeremuGetc, WipeSeremu, hostVars, vars
<1>6. CASE WipeHid
  BY <1>1, <1>6, UsbWipe
<1>7. ASSUME NEW c \in Callers, Host(c)
      PROVE  Usb!Next \/ UNCHANGED Usb!vars
  BY <1>1, <1>7, UsbSubmit, UsbHost DEF Host
<1> QED
  BY <1>3, <1>4, <1>5, <1>6, <1>7 DEF Next, Firmware

(* The deque and its two counters implement the two endpoints of a USB key:   *)
(* a FIFO each, FIDO's served first, and a transfer that ends when its report  *)
(* has left the endpoint (ok_hal.cpp:826-939), for any threads and reports.   *)
THEOREM ActsAsUsbOutHolds == Spec => ActsAsUsbOut
<1>1. Init => TicketIssued
  BY DEF Init, TicketIssued
<1>2. IInv /\ TicketIssued /\ [Next]_vars => TicketIssued'
  BY IssuedNext DEF IInv, QueueInv
<1>3. IInv /\ TicketIssued /\ [Next]_vars => [Usb!Next]_(Usb!vars)
  BY UsbNext
<1> QED
  BY <1>1, <1>2, <1>3, IInvInit, IInvNext, UsbInit, PTL DEF Spec, ActsAsUsbOut, Usb!Spec
=============================================================================

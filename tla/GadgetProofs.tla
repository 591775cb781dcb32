---------------------------- MODULE GadgetProofs -----------------------------
(***************************************************************************)
(* Reports reach the host in order, none from before a loss the daemon has   *)
(* noticed, and a host is counted absent only after it has refused long      *)
(* enough: for queues and endpoints of any size and any number of reports.   *)
(***************************************************************************)
EXTENDS Gadget, SequenceTheorems, TLAPS

Reports == 1..MaxReports

(* A line of reports, each newer than lo and than old, none newer than hi, in *)
(* the order they were sent.                                                *)
Line(w, lo, old, hi) ==
  /\ w \in Seq(Reports)
  /\ \A i \in 1..Len(w) : lo < w[i] /\ old < w[i] /\ w[i] <= hi
  /\ \A i, j \in 1..Len(w) : i < j => w[i] < w[j]

(* A host counted absent has no queue, so what it is offered directly is the *)
(* end of the line.                                                         *)
AbsentHasNoQueue == hostAbsent => txQueue = <<>> /\ stallTries = 0

(* A detach forgets the refusals and not the tries; but it empties the       *)
(* endpoint, and the next write that is taken forgets the tries too.         *)
TriesWereRefused == ep # <<>> => stallTries <= refused

(* The endpoint of a host that is gone holds nothing.                       *)
GoneHoldsNothing == ~link => ep = <<>>

(* What is waiting is no older than this, once the daemon has found out.    *)
Floor == IF tried THEN cut ELSE 0

IInv ==
  /\ TypeOK
  /\ Line(Waiting, got, Floor, sent) /\ got <= sent /\ cut <= sent
  /\ GoneHoldsNothing
  /\ AbsentHasNoQueue /\ AbsentOnlyIfStalled
  /\ TriesWereRefused

-----------------------------------------------------------------------------
(* What a line keeps: a part of it from its head, a line with a newer report *)
(* at its end, and one that has lost a report, are lines.                    *)
LEMMA LinePrefix ==
  ASSUME NEW lo \in Nat, NEW old \in Nat, NEW hi \in Nat, NEW w, Line(w, lo, old, hi),
         NEW v \in Seq(Reports), Len(v) <= Len(w), \A i \in 1..Len(v) : v[i] = w[i]
  PROVE  Line(v, lo, old, hi)
  BY DEF Line

LEMMA LineAppend ==
  ASSUME NEW lo \in Nat, NEW old \in Nat, NEW hi \in Nat, NEW w, Line(w, lo, old, hi),
         NEW n \in Reports, lo < n, old < n, hi < n
  PROVE  Line(Append(w, n), lo, old, n)
<1>1. /\ w \in Seq(Reports) /\ Append(w, n) \in Seq(Reports)
      /\ Len(Append(w, n)) = Len(w) + 1 /\ Append(w, n)[Len(w) + 1] = n
      /\ \A i \in 1..Len(w) : Append(w, n)[i] = w[i]
  BY AppendProperties DEF Line
<1>2. \A i \in 1..Len(w) : w[i] \in Nat
  BY <1>1, ElementOfSeq, SizesAssumption DEF Reports
<1> QED BY SMTT(30), <1>1, <1>2 DEF Line, Reports

LEMMA LineDrop ==
  ASSUME NEW lo \in Nat, NEW old \in Nat, NEW hi \in Nat,
         NEW a \in Seq(Reports), NEW b \in Seq(Reports), b # <<>>, Line(a \o b, lo, old, hi)
  PROVE  Line(a \o Tail(b), lo, old, hi)
<1>1. Tail(b) \in Seq(Reports) /\ Len(Tail(b)) = Len(b) - 1 /\ \A i \in 1..Len(Tail(b)) : Tail(b)[i] = b[i + 1]
  BY HeadTailProperties
<1>2. /\ Len(a \o b) = Len(a) + Len(b)
      /\ \A i \in 1..Len(a) + Len(b) : (a \o b)[i] = IF i <= Len(a) THEN a[i] ELSE b[i - Len(a)]
  BY ConcatProperties
<1>3. /\ a \o Tail(b) \in Seq(Reports) /\ Len(a \o Tail(b)) = Len(a) + Len(b) - 1
      /\ \A i \in 1..Len(a) + Len(b) - 1 :
           (a \o Tail(b))[i] = IF i <= Len(a) THEN a[i] ELSE Tail(b)[i - Len(a)]
  BY <1>1, ConcatProperties
<1> DEFINE at(i) == IF i <= Len(a) THEN i ELSE i + 1
<1>4. \A i \in 1..Len(a) + Len(b) - 1 : at(i) \in 1..Len(a \o b) /\ (a \o Tail(b))[i] = (a \o b)[at(i)]
  BY <1>1, <1>2, <1>3
<1>5. \A i, j \in 1..Len(a) + Len(b) - 1 : i < j => at(i) < at(j)
  OBVIOUS
<1> HIDE DEF at
<1> QED BY <1>3, <1>4, <1>5 DEF Line

LEMMA LineHead ==
  ASSUME NEW lo \in Nat, NEW old \in Nat, NEW hi \in Nat,
         NEW a \in Seq(Reports), NEW b \in Seq(Reports), a # <<>>, Line(a \o b, lo, old, hi)
  PROVE  Line(Tail(a) \o b, Head(a), old, hi) /\ Head(a) \in Reports /\ Head(a) <= hi
<1>1. /\ Tail(a) \in Seq(Reports) /\ Len(Tail(a)) = Len(a) - 1 /\ Len(a) > 0
      /\ \A i \in 1..Len(Tail(a)) : Tail(a)[i] = a[i + 1]
      /\ Head(a) = a[1] /\ Head(a) \in Reports
  BY HeadTailProperties
<1>2. /\ Len(a \o b) = Len(a) + Len(b)
      /\ \A i \in 1..Len(a) + Len(b) : (a \o b)[i] = IF i <= Len(a) THEN a[i] ELSE b[i - Len(a)]
  BY ConcatProperties
<1>3. /\ Tail(a) \o b \in Seq(Reports) /\ Len(Tail(a) \o b) = Len(a) + Len(b) - 1
      /\ \A i \in 1..Len(a) + Len(b) - 1 :
           (Tail(a) \o b)[i] = IF i <= Len(a) - 1 THEN Tail(a)[i] ELSE b[i - (Len(a) - 1)]
  BY <1>1, ConcatProperties
<1>4. \A i \in 1..Len(a) + Len(b) - 1 : i + 1 \in 1..Len(a \o b) /\ (Tail(a) \o b)[i] = (a \o b)[i + 1]
  BY <1>1, <1>2, <1>3
<1>5. (a \o b)[1] = Head(a) /\ 1 \in 1..Len(a \o b)
  BY <1>1, <1>2
<1> QED BY <1>1, <1>3, <1>4, <1>5 DEF Line, Reports
-----------------------------------------------------------------------------
USE SizesAssumption DEF cable, device

LEMMA InitInv == Init => IInv
<1> SUFFICES ASSUME Init PROVE IInv
  OBVIOUS
<1>1. Waiting = <<>> /\ Len(Waiting) = 0 /\ Waiting \in Seq(Reports)
  BY ConcatEmptySeq, EmptySeq DEF Init, Waiting
<1>2. TypeOK
  <2>1. <<>> \in Seq(1..MaxReports) /\ Len(<<>>) = 0
    BY EmptySeq
  <2>2. txQueue \in Seq(1..MaxReports) /\ Len(txQueue) <= MaxQueue
        /\ ep \in Seq(1..MaxReports) /\ Len(ep) <= EpDepth
    BY <2>1 DEF Init
  <2>3. /\ got \in 0..MaxReports /\ sent \in 0..MaxReports /\ cut \in 0..MaxReports
        /\ refused \in 0..MinTries /\ judged \in 0..MinTries /\ stallTries \in 0..MinTries /\ timers \in Nat
    BY DEF Init
  <2>4. /\ alive \in BOOLEAN /\ bridge \in BOOLEAN /\ udc \in BOOLEAN /\ link \in BOOLEAN
        /\ opened \in BOOLEAN /\ retryPending \in BOOLEAN /\ hostAbsent \in BOOLEAN /\ thrown \in BOOLEAN
        /\ tried \in BOOLEAN
        /\ stalled \in {"no", "young", "old"}
    BY DEF Init
  <2> QED BY <2>2, <2>3, <2>4 DEF TypeOK
<1> QED BY <1>1, <1>2 DEF Init, IInv, Line, Floor, GoneHoldsNothing, AbsentHasNoQueue, AbsentOnlyIfStalled, TriesWereRefused

(* The loop of _drain takes some of the queue from its head, and no more than *)
(* the endpoint has room for.                                               *)
LEMMA Taken ==
  ASSUME TypeOK, NEW q \in Seq(Reports)
  PROVE  /\ Fits(q) \in 0..Len(q)
         /\ Fits(q) = Len(q) <=> SubSeq(q, Fits(q) + 1, Len(q)) = <<>>
         /\ SubSeq(q, 1, Fits(q)) \in Seq(Reports) /\ Len(SubSeq(q, 1, Fits(q))) = Fits(q)
         /\ \A i \in 1..Fits(q) : SubSeq(q, 1, Fits(q))[i] = q[i]
         /\ SubSeq(q, Fits(q) + 1, Len(q)) \in Seq(Reports)
         /\ Len(SubSeq(q, Fits(q) + 1, Len(q))) = Len(q) - Fits(q)
         /\ \A i \in 1..(Len(q) - Fits(q)) : SubSeq(q, Fits(q) + 1, Len(q))[i] = q[i + Fits(q)]
         /\ Len(ep) + Fits(q) <= EpDepth
<1> DEFINE k == Fits(q)
<1>1. k \in 0..Len(q) /\ Len(ep) + k <= EpDepth
  BY DEF TypeOK, Fits, UpTo
<1> HIDE DEF k
<1>2. \A i \in 1..Len(q) : q[i] \in Reports
  BY ElementOfSeq
<1>3. /\ SubSeq(q, 1, k) \in Seq(Reports) /\ Len(SubSeq(q, 1, k)) = k
      /\ \A i \in 1..k : SubSeq(q, 1, k)[i] = q[i]
  BY <1>1, <1>2, SubSeqProperties
<1>4. /\ SubSeq(q, k + 1, Len(q)) \in Seq(Reports)
      /\ Len(SubSeq(q, k + 1, Len(q))) = Len(q) - k
      /\ \A i \in 1..(Len(q) - k) : SubSeq(q, k + 1, Len(q))[i] = q[i + k]
  BY <1>1, <1>2, SubSeqProperties
<1>5. k = Len(q) <=> SubSeq(q, k + 1, Len(q)) = <<>>
  <2>1. Len(q) \in Nat
    BY LenProperties
  <2>2. k = Len(q) => SubSeq(q, k + 1, Len(q)) = <<>>
    BY <1>1, <2>1, SubSeqEmpty
  <2>3. SubSeq(q, k + 1, Len(q)) = <<>> => Len(SubSeq(q, k + 1, Len(q))) = 0
    BY EmptySeq
  <2> QED BY <1>1, <1>4, <2>1, <2>2, <2>3
<1> QED BY <1>1, <1>3, <1>4, <1>5 DEF k

(* What it leaves waiting is the line, or the line from its head to some      *)
(* report when the rest is given up or discarded.                           *)
LEMMA DrainLine ==
  ASSUME TypeOK, NEW q \in Seq(Reports), NEW t, Drain(q, t),
         NEW lo \in Nat, NEW old \in Nat, NEW hi \in Nat, Line(ep \o q, lo, old, hi)
  PROVE  Line(Waiting', lo, old, hi)
<1> DEFINE k == Fits(q)
           head == SubSeq(q, 1, k)
           rest == SubSeq(q, k + 1, Len(q))
<1>1. /\ k \in 0..Len(q)
      /\ head \in Seq(Reports) /\ Len(head) = k /\ \A i \in 1..k : head[i] = q[i]
      /\ rest \in Seq(Reports) /\ Len(rest) = Len(q) - k /\ \A i \in 1..(Len(q) - k) : rest[i] = q[i + k]
  BY Taken
<1>2. ep' = ep \o head /\ (txQueue' = <<>> \/ txQueue' = rest)
  BY DEF Drain, Discard, GiveUp, Retry
<1> HIDE DEF k, head, rest
<1>3. ep \in Seq(Reports) /\ Len(ep) \in Nat /\ Len(q) \in Nat
  BY LenProperties DEF TypeOK, Reports
<1>4. /\ ep \o q \in Seq(Reports) /\ Len(ep \o q) = Len(ep) + Len(q)
      /\ \A i \in 1..Len(ep) + Len(q) : (ep \o q)[i] = IF i <= Len(ep) THEN ep[i] ELSE q[i - Len(ep)]
  BY <1>3, ConcatProperties
<1>5. /\ ep \o head \in Seq(Reports) /\ Len(ep \o head) = Len(ep) + k
      /\ \A i \in 1..Len(ep) + k : (ep \o head)[i] = (ep \o q)[i]
  <2>1. /\ ep \o head \in Seq(Reports) /\ Len(ep \o head) = Len(ep) + k
        /\ \A i \in 1..Len(ep) + k : (ep \o head)[i] = IF i <= Len(ep) THEN ep[i] ELSE head[i - Len(ep)]
    BY <1>1, <1>3, ConcatProperties
  <2> QED BY <1>1, <1>3, <1>4, <2>1
<1>6. CASE txQueue' = <<>>
  <2>1. Waiting' = ep \o head
    BY <1>2, <1>5, <1>6, ConcatEmptySeq DEF Waiting
  <2>2. Len(ep \o head) <= Len(ep \o q) /\ \A i \in 1..Len(ep \o head) : (ep \o head)[i] = (ep \o q)[i]
    BY <1>1, <1>3, <1>4, <1>5
  <2>3. Line(ep \o head, lo, old, hi)
    BY <1>5, <2>2, LinePrefix
  <2> QED BY <2>1, <2>3
<1>7. CASE txQueue' = rest
  <2>1. Waiting' = (ep \o head) \o rest
    BY <1>2, <1>7 DEF Waiting
  <2>2. /\ Waiting' \in Seq(Reports) /\ Len(Waiting') = (Len(ep) + k) + (Len(q) - k)
        /\ \A i \in 1..(Len(ep) + k) + (Len(q) - k) :
             Waiting'[i] = IF i <= Len(ep) + k THEN (ep \o head)[i] ELSE rest[i - (Len(ep) + k)]
    <3>1. ep \o head \in Seq(Reports) /\ Len(ep \o head) = Len(ep) + k /\ rest \in Seq(Reports) /\ Len(rest) = Len(q) - k
      BY <1>1, <1>5
    <3> DEFINE front == ep \o head
    <3> HIDE DEF front
    <3>2. front \in Seq(Reports) /\ rest \in Seq(Reports)
      BY <3>1 DEF front
    <3>3. /\ front \o rest \in Seq(Reports) /\ Len(front \o rest) = Len(front) + Len(rest)
          /\ \A i \in 1..Len(front) + Len(rest) :
               (front \o rest)[i] = IF i <= Len(front) THEN front[i] ELSE rest[i - Len(front)]
      BY <3>2, ConcatProperties
    <3>4. Len(front) = Len(ep) + k /\ Len(rest) = Len(q) - k /\ Waiting' = front \o rest
      BY <2>1, <3>1 DEF front
    <3> QED BY <3>3, <3>4 DEF front
  <2>3. Len(Waiting') = Len(ep \o q)
    BY <1>1, <1>3, <1>4, <2>2
  <2>4. ASSUME NEW i \in 1..Len(Waiting') PROVE Waiting'[i] = (ep \o q)[i]
    <3>1. CASE i <= Len(ep) + k
      BY SMTT(30), <1>1, <1>3, <1>5, <2>2, <3>1
    <3>2. CASE ~(i <= Len(ep) + k)
      <4> DEFINE e == Len(ep)
                 n == Len(q)
                 j == i - (e + k)
      <4>1. e \in Nat /\ n \in Nat /\ k \in 0..n /\ i \in 1..(e + n)
        BY <1>1, <1>3, <1>4, <2>3
      <4>2. ~(i <= e) /\ i - e \in 1..n /\ j \in 1..(n - k) /\ j + k = i - e
            /\ i \in 1..((e + k) + (n - k))
        BY <3>2, <4>1
      <4>3. Waiting'[i] = rest[j]
        BY <2>2, <3>2, <4>2
      <4>4. rest[j] = q[i - e]
        BY <1>1, <4>2
      <4>5. (ep \o q)[i] = q[i - e]
        BY <1>4, <4>1, <4>2
      <4> QED BY <4>3, <4>4, <4>5
    <3> QED BY <3>1, <3>2
  <2>5. Len(Waiting') <= Len(ep \o q)
    BY <1>3, <1>4, <2>3
  <2> HIDE DEF Line
  <2> QED BY <2>2, <2>5, <2>4, LinePrefix
<1> QED BY <1>2, <1>6, <1>7

(* A host is given up only on a try that is the MinTries-th refusal in a row. *)
LEMMA DrainCounts ==
  ASSUME TypeOK, AbsentHasNoQueue, AbsentOnlyIfStalled, TriesWereRefused,
         NEW q \in Seq(Reports), Len(q) <= MaxQueue, hostAbsent => q = <<>>,
         NEW t \in Nat, Drain(q, t)
  PROVE  /\ AbsentHasNoQueue' /\ AbsentOnlyIfStalled' /\ TriesWereRefused'
         /\ txQueue' \in Seq(Reports) /\ Len(txQueue') <= MaxQueue
         /\ ep' \in Seq(Reports) /\ Len(ep') <= EpDepth
         /\ retryPending' \in BOOLEAN /\ timers' \in Nat /\ stalled' \in {"no", "young", "old"}
         /\ stallTries' \in 0..MinTries /\ refused' \in 0..MinTries /\ judged' \in 0..MinTries
         /\ hostAbsent' \in BOOLEAN /\ UNCHANGED <<opened, thrown>>
<1> DEFINE k == Fits(q)
           head == SubSeq(q, 1, k)
           rest == SubSeq(q, k + 1, Len(q))
<1>1. /\ k \in 0..Len(q) /\ Len(ep) + k <= EpDepth /\ (k = Len(q) <=> rest = <<>>)
      /\ head \in Seq(Reports) /\ Len(head) = k
      /\ rest \in Seq(Reports) /\ Len(rest) = Len(q) - k
  BY Taken
<1>2. ep \in Seq(Reports) /\ ep' = ep \o head /\ UNCHANGED <<opened, thrown>>
  BY DEF Drain, TypeOK, Reports
<1>3. ep' \in Seq(Reports) /\ Len(ep') = Len(ep) + k /\ Len(ep') <= EpDepth
  BY <1>1, <1>2, ConcatProperties
<1>4. k = 0 => ep' = ep
  <2>1. ASSUME k = 0 PROVE head = <<>>
    BY <1>1, <2>1
  <2> QED BY <1>2, <2>1, ConcatEmptySeq
<1>5. rest # <<>> /\ link /\ k = 0 => ep # <<>>
  <2>1. ASSUME link, k = 0, rest # <<>> PROVE Len(ep) # 0
    <3>1. Len(q) \in Nat /\ Len(q) # 0 /\ Len(ep) \in Nat
      BY <1>1, <1>2, <2>1, LenProperties
    <3>2. UpTo(EpDepth - Len(ep), Len(q)) = 0
      BY <2>1 DEF Fits
    <3> QED BY <3>1, <3>2 DEF UpTo
  <2> QED BY <2>1, EmptySeq
<1>6. CASE rest = <<>> \/ ~link
  <2>1. /\ txQueue' = <<>> /\ retryPending' = FALSE /\ timers' = t /\ UNCHANGED <<hostAbsent, judged>>
        /\ stalled' = (IF k > 0 THEN "no" ELSE stalled)
        /\ stallTries' = (IF k > 0 THEN 0 ELSE stallTries)
        /\ refused' = (IF k > 0 THEN 0 ELSE refused)
    BY <1>6 DEF Drain, Discard
  <2> HIDE DEF k, head, rest
  <2>2. AbsentHasNoQueue' /\ AbsentOnlyIfStalled'
    BY <1>1, <2>1 DEF AbsentHasNoQueue, AbsentOnlyIfStalled, TypeOK
  <2>3. TriesWereRefused'
    BY <1>1, <1>4, <2>1 DEF TriesWereRefused, TypeOK
  <2>4. txQueue' \in Seq(Reports) /\ Len(txQueue') <= MaxQueue
    BY <2>1, EmptySeq
  <2>5. stalled' \in {"no", "young", "old"}
    BY <2>1 DEF TypeOK
  <2>6. retryPending' \in BOOLEAN /\ hostAbsent' \in BOOLEAN
    BY <2>1 DEF TypeOK
  <2>7. /\ timers' \in Nat
        /\ stallTries' \in 0..MinTries /\ refused' \in 0..MinTries /\ judged' \in 0..MinTries
    BY <1>1, <2>1 DEF TypeOK
  <2> QED BY <1>2, <1>3, <2>2, <2>3, <2>4, <2>5, <2>6, <2>7
<1>7. CASE rest # <<>> /\ link
  <2>1. refused' = UpTo(MinTries, (IF k > 0 THEN 0 ELSE refused) + 1)
    BY <1>7 DEF Drain
  <2>2. q # <<>> /\ ~hostAbsent
    BY <1>1, <1>7
  <2>3. k = 0 => stallTries <= refused
    BY <1>5, <1>7 DEF TriesWereRefused
  <2>4. Tries(k) \in 0..MinTries /\ Tries(k) <= refused' /\ refused' \in 0..MinTries
    <3> HIDE DEF k
    <3> QED BY <1>1, <2>1, <2>3 DEF Tries, UpTo, TypeOK
  <2>5. CASE Hopeless(k)
    <3>1. GiveUp(rest) /\ timers' = t /\ judged' = refused'
      BY <1>7, <2>5 DEF Drain
    <3>2. refused' = MinTries
      BY <2>4, <2>5 DEF Hopeless
    <3> HIDE DEF k, head, rest
    <3>3. /\ txQueue' = <<>> /\ hostAbsent' = TRUE /\ stalled' = "no" /\ stallTries' = 0
          /\ retryPending' = FALSE /\ timers' = t /\ judged' = MinTries
      BY <3>1, <3>2 DEF GiveUp
    <3>4. AbsentHasNoQueue' /\ AbsentOnlyIfStalled'
      BY <3>3 DEF AbsentHasNoQueue, AbsentOnlyIfStalled
    <3>5. TriesWereRefused'
      BY <2>4, <3>3 DEF TriesWereRefused
    <3>6. txQueue' \in Seq(Reports) /\ Len(txQueue') <= MaxQueue
      BY <3>3, EmptySeq
    <3>7. stalled' \in {"no", "young", "old"} /\ retryPending' \in BOOLEAN /\ hostAbsent' \in BOOLEAN
      BY <3>3
    <3>8. timers' \in Nat /\ stallTries' \in 0..MinTries /\ refused' \in 0..MinTries /\ judged' \in 0..MinTries
      BY <2>4, <3>3
    <3> QED BY <1>2, <1>3, <3>4, <3>5, <3>6, <3>7, <3>8
  <2>6. CASE ~Hopeless(k)
    <3>1. Retry(rest, k) /\ timers' = t + 1 /\ UNCHANGED judged
      BY <1>7, <2>6 DEF Drain
    <3> HIDE DEF k, head, rest
    <3>2. Stalled(k) \in {"no", "young", "old"}
      BY DEF Stalled, TypeOK
    <3> QED BY <1>1, <1>2, <1>3, <2>2, <2>4, <3>1, <3>2
        DEF Retry, AbsentHasNoQueue, AbsentOnlyIfStalled, TriesWereRefused, TypeOK
  <2> QED BY <2>5, <2>6
<1> QED BY <1>6, <1>7

(* The floor is one of the reports sent, or none. *)
LEMMA FloorBound == IInv => Floor \in 0..MaxReports /\ Floor <= sent
  BY DEF IInv, TypeOK, Floor

(* A try with the host gone discards everything; any other leaves the floor. *)
LEMMA DrainFloor ==
  ASSUME TypeOK, GoneHoldsNothing, NEW q \in Seq(Reports), NEW t, Drain(q, t),
         UNCHANGED <<link, cut>>,
         NEW lo \in Nat, NEW hi \in Nat, Line(ep \o q, lo, Floor, hi)
  PROVE  Line(Waiting', lo, Floor', hi) /\ GoneHoldsNothing' /\ tried' \in BOOLEAN
<1>1. tried' = (tried \/ ~link) /\ tried \in BOOLEAN /\ Floor \in Nat
  BY DEF Drain, TypeOK, Floor
<1>2. CASE link
  <2>1. Floor' = Floor
    BY <1>1, <1>2 DEF Floor
  <2>2. Line(Waiting', lo, Floor, hi)
    BY <1>1, DrainLine
  <2> QED BY <1>1, <1>2, <2>1, <2>2 DEF GoneHoldsNothing
<1>3. CASE ~link
  <2>1. Fits(q) = 0 /\ ep = <<>> /\ txQueue' = <<>> /\ ep' = ep \o SubSeq(q, 1, Fits(q))
    BY <1>3 DEF Fits, GoneHoldsNothing, Drain, Discard
  <2>2. SubSeq(q, 1, Fits(q)) \in Seq(Reports) /\ Len(SubSeq(q, 1, Fits(q))) = 0
    BY <2>1, Taken
  <2>3. <<>> \in Seq(Reports) /\ Len(<<>>) = 0
    BY EmptySeq
  <2>4. ep' = <<>>
    <3>1. SubSeq(q, 1, Fits(q)) = <<>>
      BY <2>2, EmptySeq
    <3> QED BY <2>1, <2>3, <3>1, ConcatEmptySeq
  <2>5. Waiting' = <<>>
    BY <2>1, <2>3, <2>4, ConcatEmptySeq DEF Waiting
  <2> QED BY <1>1, <2>3, <2>4, <2>5 DEF Line, GoneHoldsNothing
<1> QED BY <1>2, <1>3

LEMMA LineLater ==
  ASSUME NEW lo \in Nat, NEW old \in Nat, NEW hi \in Nat, NEW w, Line(w, lo, old, hi), NEW n \in Nat, hi <= n
  PROVE  Line(w, lo, old, n)
<1>1. \A i \in 1..Len(w) : w[i] \in Nat
  BY ElementOfSeq DEF Line, Reports
<1> QED BY <1>1 DEF Line

(* Appending to the second of two sequences appends to both.                 *)
LEMMA ConcatAppend ==
  ASSUME NEW S, NEW s \in Seq(S), NEW t \in Seq(S), NEW e \in S
  PROVE  s \o Append(t, e) = Append(s \o t, e)
<1> DEFINE one == <<e>>
<1>1. one \in Seq(S)
  OBVIOUS
<1>2. s \o t \in Seq(S)
  BY ConcatProperties
<1>3. Append(t, e) = t \o one
  BY AppendIsConcat
<1>4. Append(s \o t, e) = (s \o t) \o one
  BY <1>2, AppendIsConcat
<1> HIDE DEF one
<1>5. (s \o t) \o one = s \o (t \o one)
  BY <1>1, ConcatAssociative
<1> QED BY <1>3, <1>4, <1>5

(* A report that is queued goes to the end of the line, which may lose its    *)
(* oldest queued report for it.                                             *)
LEMMA EnqueuedLine ==
  ASSUME IInv, sent < MaxReports
  PROVE  /\ Enqueued(sent + 1) \in Seq(Reports) /\ Len(Enqueued(sent + 1)) <= MaxQueue
         /\ Line(ep \o Enqueued(sent + 1), got, Floor, sent + 1)
<1> DEFINE n == sent + 1
           kept == IF Len(txQueue) >= MaxQueue THEN Tail(txQueue) ELSE txQueue
<1>1. /\ ep \in Seq(Reports) /\ txQueue \in Seq(Reports) /\ Len(txQueue) \in Nat /\ Len(txQueue) <= MaxQueue
      /\ got \in Nat /\ Floor \in Nat /\ Floor <= sent /\ sent \in Nat
  BY LenProperties, FloorBound DEF IInv, TypeOK, Reports
<1>2. n \in Reports /\ sent < n /\ got < n /\ Floor < n
  BY <1>1 DEF IInv, Reports
<1>3. /\ kept \in Seq(Reports) /\ Len(kept) + 1 <= MaxQueue
      /\ Line(ep \o kept, got, Floor, sent)
  <2>1. CASE Len(txQueue) >= MaxQueue
    <3>1. txQueue # <<>>
      BY <1>1, <2>1, EmptySeq
    <3>2. Tail(txQueue) \in Seq(Reports) /\ Len(Tail(txQueue)) = Len(txQueue) - 1
      BY <1>1, <3>1, HeadTailProperties
    <3>3. Line(ep \o Tail(txQueue), got, Floor, sent)
      BY <1>1, <3>1, LineDrop DEF IInv, Waiting
    <3> QED BY <1>1, <2>1, <3>2, <3>3
  <2>2. CASE ~(Len(txQueue) >= MaxQueue)
    BY <1>1, <2>2 DEF IInv, Waiting
  <2> QED BY <2>1, <2>2
<1>4. Enqueued(n) = Append(kept, n)
  BY DEF Enqueued
<1> HIDE DEF n, kept
<1>5. Append(kept, n) \in Seq(Reports) /\ Len(Append(kept, n)) = Len(kept) + 1
  BY <1>2, <1>3, AppendProperties
<1>6. ep \o Append(kept, n) = Append(ep \o kept, n)
  BY <1>1, <1>2, <1>3, ConcatAppend
<1>7. Line(Append(ep \o kept, n), got, Floor, n)
  BY <1>1, <1>2, <1>3, LineAppend
<1> QED BY <1>3, <1>4, <1>5, <1>6, <1>7 DEF n

LEMMA SendInv == ASSUME IInv, Send PROVE IInv'
<1>1. /\ sent < MaxReports /\ sent' = sent + 1 /\ UNCHANGED <<udc, link, got, cut>>
      /\ sent \in Nat /\ got \in Nat /\ Floor \in Nat /\ Floor <= sent /\ sent' \in 0..MaxReports
      /\ got <= sent' /\ cut' <= sent' /\ GoneHoldsNothing
  BY FloorBound DEF Send, IInv, TypeOK
<1>2. CASE UNCHANGED <<alive, bridge, device, ep, tried, refused, judged>> /\ thrown' \in BOOLEAN
  <2>1. Line(Waiting', got', Floor', sent')
    BY <1>1, <1>2, LineLater DEF IInv, Waiting, Floor
  <2>2. TypeOK'
    BY <1>1, <1>2 DEF IInv, TypeOK
  <2> QED BY <1>1, <1>2, <2>1, <2>2 DEF IInv, AbsentHasNoQueue, AbsentOnlyIfStalled, TriesWereRefused, GoneHoldsNothing
<1>3. CASE opened /\ hostAbsent /\ Offer(sent + 1) /\ UNCHANGED judged
  <2>1. txQueue = <<>> /\ stallTries = 0 /\ Waiting = ep
    BY <1>3, ConcatEmptySeq DEF IInv, TypeOK, AbsentHasNoQueue, Waiting
  <2>2. CASE /\ link /\ Len(ep) < EpDepth /\ ep' = Append(ep, sent + 1) /\ hostAbsent' = FALSE /\ refused' = 0
             /\ UNCHANGED <<alive, bridge, opened, txQueue, retryPending, timers, stalled, stallTries, tried, thrown>>
    <3>1. sent + 1 \in Reports /\ ep \in Seq(Reports)
      BY <1>1 DEF IInv, TypeOK, Reports
    <3>2. ep' \in Seq(Reports) /\ Len(ep') = Len(ep) + 1
      BY <2>2, <3>1, AppendProperties
    <3>3. Waiting' = Append(Waiting, sent + 1)
      BY <2>1, <2>2, <3>2, ConcatEmptySeq DEF Waiting
    <3>4. Line(Waiting', got', Floor', sent')
      <4>1. got < sent + 1 /\ Floor < sent + 1 /\ sent < sent + 1
        BY <1>1 DEF IInv
      <4>2. Floor' = Floor
        BY <1>1, <2>2 DEF Floor
      <4> QED BY <1>1, <3>1, <3>3, <4>1, <4>2, LineAppend DEF IInv
    <3>5. TypeOK'
      <4>1. ep' \in Seq(1..MaxReports) /\ Len(ep') <= EpDepth
        BY <2>2, <3>1, <3>2, LenProperties DEF Reports
      <4>2. refused' \in 0..MinTries
        BY <2>2
      <4> QED BY <1>1, <1>3, <2>2, <4>1, <4>2 DEF IInv, TypeOK
    <3> QED BY <1>1, <1>3, <2>1, <2>2, <3>4, <3>5
        DEF IInv, AbsentHasNoQueue, AbsentOnlyIfStalled, TriesWereRefused, GoneHoldsNothing
  <2>3. CASE /\ ~link
             /\ Crash \/ UNCHANGED <<alive, bridge, device>>
             /\ thrown' = TRUE /\ tried' = TRUE /\ UNCHANGED <<ep, refused>>
    <3>1. txQueue' = <<>> /\ ep' = <<>> /\ Waiting' = Waiting
      BY <1>1, <2>1, <2>3 DEF Crash, Fresh, Waiting, GoneHoldsNothing
    <3>2. Waiting' = <<>> /\ <<>> \in Seq(Reports) /\ Len(<<>>) = 0
      BY <3>1, EmptySeq, ConcatEmptySeq DEF Waiting
    <3>3. Line(Waiting', got', Floor', sent')
      BY <3>2 DEF Line
    <3>4. TypeOK'
      <4>1. /\ alive' \in BOOLEAN /\ bridge' \in BOOLEAN /\ opened' \in BOOLEAN /\ hostAbsent' \in BOOLEAN
            /\ retryPending' \in BOOLEAN /\ thrown' \in BOOLEAN /\ tried' \in BOOLEAN
            /\ stalled' \in {"no", "young", "old"}
        BY <2>3 DEF Crash, Fresh, IInv, TypeOK
      <4>2. /\ timers' \in Nat /\ stallTries' \in 0..MinTries /\ refused' \in 0..MinTries
            /\ judged' \in 0..MinTries
        <5>1. timers' \in {0, timers} /\ stallTries' \in {0, stallTries} /\ UNCHANGED <<refused, judged>>
          BY <1>3, <2>3 DEF Crash, Fresh
        <5> QED BY <5>1 DEF IInv, TypeOK
      <4>3. txQueue' \in Seq(1..MaxReports) /\ Len(txQueue') <= MaxQueue
            /\ ep' \in Seq(1..MaxReports) /\ Len(ep') <= EpDepth
        BY <3>1, <3>2 DEF Reports
      <4> QED BY <1>1, <4>1, <4>2, <4>3 DEF IInv, TypeOK
    <3> QED BY <1>1, <1>3, <2>1, <2>3, <3>1, <3>3, <3>4
        DEF Crash, Fresh, IInv, AbsentHasNoQueue, AbsentOnlyIfStalled, TriesWereRefused, GoneHoldsNothing, TypeOK
  <2>4. thrown \in BOOLEAN
    BY DEF IInv, TypeOK
  <2> QED BY <1>2, <1>3, <2>2, <2>3, <2>4 DEF Offer
<1>4. CASE opened /\ ~hostAbsent /\ Drain(Enqueued(sent + 1), timers) /\ UNCHANGED <<alive, bridge>>
  <2> DEFINE q == Enqueued(sent + 1)
  <2>1. q \in Seq(Reports) /\ Len(q) <= MaxQueue /\ Line(ep \o q, got, Floor, sent + 1)
    BY <1>1, EnqueuedLine
  <2> HIDE DEF q
  <2>2. TypeOK /\ AbsentHasNoQueue /\ AbsentOnlyIfStalled /\ TriesWereRefused /\ timers \in Nat /\ sent + 1 \in Nat
    BY <1>1 DEF IInv, TypeOK
  <2>3. Drain(q, timers)
    BY <1>4 DEF q
  <2>4. Line(Waiting', got, Floor', sent + 1) /\ GoneHoldsNothing' /\ tried' \in BOOLEAN
    BY <1>1, <2>1, <2>2, <2>3, DrainFloor
  <2>5. /\ AbsentHasNoQueue' /\ AbsentOnlyIfStalled' /\ TriesWereRefused'
        /\ txQueue' \in Seq(Reports) /\ Len(txQueue') <= MaxQueue
        /\ ep' \in Seq(Reports) /\ Len(ep') <= EpDepth
        /\ retryPending' \in BOOLEAN /\ timers' \in Nat /\ stalled' \in {"no", "young", "old"}
        /\ stallTries' \in 0..MinTries /\ refused' \in 0..MinTries /\ judged' \in 0..MinTries
        /\ hostAbsent' \in BOOLEAN /\ UNCHANGED <<opened, thrown>>
    BY <1>4, <2>1, <2>2, <2>3, DrainCounts
  <2>6. TypeOK'
    BY <1>1, <1>4, <2>2, <2>4, <2>5 DEF TypeOK, Reports
  <2> QED BY <1>1, <2>4, <2>5, <2>6 DEF IInv
<1>5. CASE /\ opened /\ ~hostAbsent /\ txQueue' = Enqueued(sent + 1)
           /\ UNCHANGED <<alive, bridge, opened, retryPending, timers, stalled, stallTries,
                          hostAbsent, ep, tried, refused, judged, thrown>>
  <2>1. txQueue' \in Seq(Reports) /\ Len(txQueue') <= MaxQueue /\ Line(Waiting', got', Floor', sent')
    BY <1>1, <1>5, EnqueuedLine DEF Waiting, Floor
  <2>2. TypeOK'
    BY <1>1, <1>5, <2>1 DEF IInv, TypeOK, Reports
  <2> QED BY <1>1, <1>5, <2>1, <2>2 DEF IInv, AbsentHasNoQueue, AbsentOnlyIfStalled, TriesWereRefused, GoneHoldsNothing
<1>6. thrown \in BOOLEAN
  BY DEF IInv, TypeOK
<1> QED BY <1>2, <1>3, <1>4, <1>5, <1>6 DEF Send

LEMMA RetryTimerInv == ASSUME IInv, RetryTimer PROVE IInv'
<1>1. /\ TypeOK /\ AbsentHasNoQueue /\ AbsentOnlyIfStalled /\ TriesWereRefused
      /\ txQueue \in Seq(Reports) /\ Len(txQueue) <= MaxQueue /\ (hostAbsent => txQueue = <<>>)
      /\ got \in Nat /\ cut \in Nat /\ sent \in Nat /\ Line(ep \o txQueue, got, Floor, sent)
      /\ GoneHoldsNothing
  BY DEF IInv, TypeOK, AbsentHasNoQueue, Waiting, Reports
<1>2. Drain(txQueue, timers - 1) /\ timers - 1 \in Nat /\ UNCHANGED <<alive, bridge, udc, link, got, sent, cut>>
  BY DEF RetryTimer, IInv, TypeOK
<1>3. Line(Waiting', got, Floor', sent) /\ GoneHoldsNothing' /\ tried' \in BOOLEAN
  BY <1>1, <1>2, DrainFloor
<1>4. /\ AbsentHasNoQueue' /\ AbsentOnlyIfStalled' /\ TriesWereRefused'
      /\ txQueue' \in Seq(Reports) /\ Len(txQueue') <= MaxQueue
      /\ ep' \in Seq(Reports) /\ Len(ep') <= EpDepth
      /\ retryPending' \in BOOLEAN /\ timers' \in Nat /\ stalled' \in {"no", "young", "old"}
      /\ stallTries' \in 0..MinTries /\ refused' \in 0..MinTries /\ judged' \in 0..MinTries
      /\ hostAbsent' \in BOOLEAN /\ UNCHANGED <<opened, thrown>>
  BY <1>1, <1>2, DrainCounts
<1>5. TypeOK'
  BY <1>1, <1>2, <1>3, <1>4 DEF TypeOK, Reports
<1> QED BY <1>1, <1>2, <1>3, <1>4, <1>5 DEF IInv

(* The daemon's end is gone, and what the endpoint holds with it or not: what *)
(* is left of the line is the endpoint's.                                   *)
LEMMA CutOff ==
  ASSUME IInv, txQueue' = <<>>, hostAbsent' = FALSE, stallTries' = 0, stalled' = "no",
         timers' = 0, refused' \in {0, refused}, UNCHANGED <<got, sent, judged, thrown>>,
         alive' \in BOOLEAN, bridge' \in BOOLEAN, udc' \in BOOLEAN, link' \in BOOLEAN,
         opened' \in BOOLEAN, retryPending' \in BOOLEAN,
         (ep' = <<>> /\ cut' = sent /\ tried' = TRUE) \/ UNCHANGED <<link, ep, cut, tried>>
  PROVE  IInv'
<1>1. /\ ep \in Seq(Reports) /\ txQueue \in Seq(Reports) /\ Len(ep) \in Nat /\ Len(txQueue) \in Nat
      /\ got \in Nat /\ Floor \in Nat /\ sent \in Nat
  BY LenProperties, FloorBound DEF IInv, TypeOK, Reports
<1>2. <<>> \in Seq(Reports) /\ Len(<<>>) = 0
  BY EmptySeq
<1>3. Line(Waiting', got', Floor', sent')
  <2>1. CASE ep' = <<>>
    <3>1. Waiting' = <<>>
      BY <1>2, <2>1, ConcatEmptySeq DEF Waiting
    <3> QED BY <1>2, <3>1 DEF Line
  <2>2. CASE UNCHANGED <<link, ep, cut, tried>>
    <3>1. Waiting' = ep
      BY <1>1, <2>2, ConcatEmptySeq DEF Waiting
    <3>2. /\ Len(Waiting) = Len(ep) + Len(txQueue)
          /\ \A i \in 1..Len(ep) + Len(txQueue) :
               Waiting[i] = IF i <= Len(ep) THEN ep[i] ELSE txQueue[i - Len(ep)]
      BY <1>1, ConcatProperties DEF Waiting
    <3>3. Len(ep) <= Len(Waiting) /\ \A i \in 1..Len(ep) : ep[i] = Waiting[i]
      BY <1>1, <3>2
    <3>4. Line(ep, got, Floor, sent)
      BY <1>1, <3>3, LinePrefix DEF IInv
    <3>5. Floor' = Floor
      BY <2>2 DEF Floor
    <3> QED BY <2>2, <3>1, <3>4, <3>5
  <2> QED BY <2>1, <2>2
<1>4. /\ ep' \in Seq(Reports) /\ Len(ep') <= EpDepth /\ cut' \in 0..MaxReports /\ cut' <= sent
      /\ tried' \in BOOLEAN /\ GoneHoldsNothing'
  <2>1. tried \in BOOLEAN /\ GoneHoldsNothing /\ Len(ep) <= EpDepth /\ cut \in 0..MaxReports /\ cut <= sent /\ sent \in 0..MaxReports
    BY DEF IInv, TypeOK
  <2>2. CASE ep' = <<>> /\ cut' = sent /\ tried' = TRUE
    BY <1>2, <2>1, <2>2 DEF GoneHoldsNothing
  <2>3. CASE UNCHANGED <<link, ep, cut, tried>>
    BY <1>1, <2>1, <2>3 DEF GoneHoldsNothing
  <2> QED BY <2>2, <2>3
<1>5. TypeOK'
  <2>1. txQueue' \in Seq(1..MaxReports) /\ Len(txQueue') <= MaxQueue
    BY <1>2 DEF Reports
  <2>2. ep' \in Seq(1..MaxReports) /\ Len(ep') <= EpDepth
    BY <1>4 DEF Reports
  <2>3. /\ cut' \in 0..MaxReports /\ tried' \in BOOLEAN /\ timers' \in Nat /\ stallTries' \in 0..MinTries /\ refused' \in 0..MinTries
        /\ got' \in 0..MaxReports /\ sent' \in 0..MaxReports /\ judged' \in 0..MinTries
    BY SMTT(30), <1>4 DEF IInv, TypeOK
  <2>4. hostAbsent' \in BOOLEAN /\ thrown' \in BOOLEAN /\ stalled' \in {"no", "young", "old"}
    BY DEF IInv, TypeOK
  <2> QED BY <2>1, <2>2, <2>3, <2>4 DEF TypeOK
<1>6. AbsentHasNoQueue' /\ AbsentOnlyIfStalled' /\ TriesWereRefused'
  BY DEF AbsentHasNoQueue, AbsentOnlyIfStalled, TriesWereRefused, IInv, TypeOK
<1> QED BY <1>3, <1>4, <1>5, <1>6 DEF IInv

LEMMA UnplugInv == ASSUME IInv, NEW unbound \in BOOLEAN, Unplug(unbound) PROVE IInv'
<1>1. /\ txQueue' = <<>> /\ hostAbsent' = FALSE /\ stallTries' = 0 /\ stalled' = "no" /\ timers' = 0
      /\ refused' = 0 /\ opened' = FALSE /\ retryPending' = FALSE /\ UNCHANGED <<alive, bridge, got, sent, judged, thrown>>
  BY DEF Unplug, Fresh
<1>2. \/ ep' = <<>> /\ cut' = sent /\ tried' = TRUE /\ udc' = FALSE /\ link' = FALSE
      \/ UNCHANGED <<ep, cut, tried, udc, link>>
  BY DEF Unplug, Unbound
<1>3. alive' \in BOOLEAN /\ bridge' \in BOOLEAN /\ udc' \in BOOLEAN /\ link' \in BOOLEAN
  BY <1>1, <1>2 DEF IInv, TypeOK
<1> QED BY <1>1, <1>2, <1>3, CutOff

LEMMA ShutdownInv == ASSUME IInv, NEW unbound \in BOOLEAN, Shutdown(unbound) PROVE IInv'
<1>1. /\ txQueue' = <<>> /\ hostAbsent' = FALSE /\ stallTries' = 0 /\ stalled' = "no" /\ timers' = 0
      /\ refused' = 0 /\ opened' = FALSE /\ retryPending' = FALSE /\ alive' = FALSE /\ bridge' = FALSE
      /\ UNCHANGED <<got, sent, judged, thrown>>
  BY DEF Shutdown, Crash, Fresh
<1>2. \/ ep' = <<>> /\ cut' = sent /\ tried' = TRUE /\ udc' = FALSE /\ link' = FALSE
      \/ UNCHANGED <<ep, cut, tried, udc, link>>
  BY DEF Shutdown, Unbound
<1>3. udc' \in BOOLEAN /\ link' \in BOOLEAN
  BY <1>2 DEF IInv, TypeOK
<1> QED BY <1>1, <1>2, <1>3, CutOff

(* What touches neither the line nor the counts. *)
LEMMA Untouched ==
  ASSUME IInv, UNCHANGED <<txQueue, ep, got, sent, cut, tried, hostAbsent, stallTries, retryPending, timers, refused, judged, thrown>>,
         alive' \in BOOLEAN, bridge' \in BOOLEAN, udc' \in BOOLEAN, link' \in {link, TRUE}, opened' \in BOOLEAN,
         stalled' \in {"no", "young", "old"}
  PROVE  IInv'
<1>1. TypeOK'
  BY DEF IInv, TypeOK
<1> QED BY <1>1 DEF IInv, Waiting, Floor, GoneHoldsNothing, AbsentHasNoQueue, AbsentOnlyIfStalled, TriesWereRefused

(* New objects start with nothing queued. *)
LEMMA PlugInv ==
  ASSUME IInv, NEW bound \in BOOLEAN, NEW isOpen \in BOOLEAN, Plug(bound, isOpen) \/ Respawn(bound, isOpen)
  PROVE  IInv'
<1>1. /\ txQueue' = <<>> /\ hostAbsent' = FALSE /\ stallTries' = 0 /\ stalled' = "no" /\ timers' = 0
      /\ retryPending' = FALSE /\ opened' = isOpen
      /\ UNCHANGED <<link, ep, got, sent, cut, tried, refused, judged, thrown>>
  BY DEF Plug, Respawn, Attach, Fresh
<1>2. alive' \in BOOLEAN /\ bridge' \in BOOLEAN /\ udc' \in BOOLEAN
  BY DEF Plug, Respawn, IInv, TypeOK
<1>3. link' \in BOOLEAN /\ opened' \in BOOLEAN
  BY <1>1 DEF IInv, TypeOK
<1> QED BY <1>1, <1>2, <1>3, CutOff

LEMMA HostAttachInv == ASSUME IInv, HostAttach \/ StallAges PROVE IInv'
<1>1. /\ UNCHANGED <<txQueue, ep, got, sent, cut, tried, hostAbsent, stallTries, retryPending, timers, refused, judged, thrown>>
      /\ UNCHANGED <<alive, bridge, udc, opened>>
  BY DEF HostAttach, StallAges
<1>2. link' \in {link, TRUE} /\ stalled' \in {"no", "young", "old"}
  BY DEF HostAttach, StallAges, IInv, TypeOK
<1>3. alive' \in BOOLEAN /\ bridge' \in BOOLEAN /\ udc' \in BOOLEAN /\ opened' \in BOOLEAN
  BY <1>1 DEF IInv, TypeOK
<1> QED BY <1>1, <1>2, <1>3, Untouched

LEMMA HostReadInv == ASSUME IInv, HostRead PROVE IInv'
<1>1. /\ ep # <<>> /\ got' = Head(ep) /\ ep' = Tail(ep)
      /\ UNCHANGED <<cable, device, sent, cut, tried, refused, judged, thrown>>
  BY DEF HostRead
<1>2. /\ ep \in Seq(Reports) /\ txQueue \in Seq(Reports) /\ got \in Nat /\ Floor \in Nat /\ sent \in Nat
      /\ Line(ep \o txQueue, got, Floor, sent) /\ link
  BY FloorBound DEF IInv, TypeOK, Waiting, Reports, HostRead
<1>3. Line(Waiting', got', Floor', sent') /\ got' \in Reports /\ got' <= sent'
  <2>1. Floor' = Floor
    BY <1>1 DEF Floor
  <2> QED BY <1>1, <1>2, <2>1, LineHead DEF Waiting
<1>4. ep' \in Seq(Reports) /\ Len(ep') <= EpDepth
  BY <1>1, <1>2, HeadTailProperties, LenProperties DEF IInv, TypeOK
<1>5. TypeOK'
  BY <1>1, <1>3, <1>4 DEF IInv, TypeOK, Reports
<1> QED BY <1>1, <1>2, <1>3, <1>5 DEF IInv, GoneHoldsNothing, AbsentHasNoQueue, AbsentOnlyIfStalled, TriesWereRefused

(* The host leaves the bus, and what its endpoint held is lost: the queue is  *)
(* what is left of the line.                                                *)
LEMMA HostDetachInv == ASSUME IInv, HostDetach PROVE IInv'
<1>1. /\ link' = FALSE /\ ep' = <<>> /\ refused' = 0 /\ cut' = sent /\ tried' = FALSE
      /\ UNCHANGED <<alive, bridge, udc, device, got, sent, judged, thrown>>
  BY DEF HostDetach
<1>2. /\ ep \in Seq(Reports) /\ txQueue \in Seq(Reports) /\ Len(ep) \in Nat /\ Len(txQueue) \in Nat
      /\ Line(ep \o txQueue, got, Floor, sent) /\ Floor' = 0
      /\ sent \in 0..MaxReports /\ got \in Nat
  BY <1>1, LenProperties DEF IInv, TypeOK, Waiting, Reports, Floor
<1>3. <<>> \in Seq(Reports) /\ Len(<<>>) = 0
  BY EmptySeq
<1>4. Waiting' = txQueue
  BY <1>1, <1>2, ConcatEmptySeq DEF Waiting
<1>5. /\ Len(ep \o txQueue) = Len(ep) + Len(txQueue)
      /\ \A i \in 1..Len(txQueue) : i + Len(ep) \in 1..Len(ep \o txQueue) /\ (ep \o txQueue)[i + Len(ep)] = txQueue[i]
  BY <1>2, ConcatProperties
<1>6. Line(txQueue, got, 0, sent)
  <2>1. \A i \in 1..Len(txQueue) : got < txQueue[i] /\ 0 < txQueue[i] /\ txQueue[i] <= sent
    <3>1. \A i \in 1..Len(txQueue) : txQueue[i] \in Reports
      BY <1>2, ElementOfSeq
    <3>2. \A i \in 1..Len(txQueue) : got < txQueue[i] /\ txQueue[i] <= sent
      BY <1>2, <1>5 DEF Line
    <3>3. \A n \in Reports : 0 < n
      BY DEF Reports
    <3> QED BY <3>1, <3>2, <3>3
  <2>2. ASSUME NEW i \in 1..Len(txQueue), NEW j \in 1..Len(txQueue), i < j
        PROVE  txQueue[i] < txQueue[j]
    <3>1. i + Len(ep) < j + Len(ep)
      BY <1>2, <2>2
    <3> QED BY <1>2, <1>5, <3>1 DEF Line
  <2> QED BY <1>2, <2>1, <2>2 DEF Line
<1>7. TypeOK'
  <2>1. ep' \in Seq(1..MaxReports) /\ Len(ep') <= EpDepth
    BY <1>1, <1>3 DEF Reports
  <2>2. link' \in BOOLEAN
    BY <1>1
  <2>3. cut' \in 0..MaxReports
    BY <1>1, <1>2
  <2>4. refused' \in 0..MinTries
    BY <1>1
  <2>5. tried' \in BOOLEAN
    BY <1>1
  <2> QED BY <2>4, <2>5, <1>1, <2>1, <2>2, <2>3 DEF IInv, TypeOK
<1> QED BY <1>1, <1>2, <1>4, <1>6, <1>7 DEF IInv, GoneHoldsNothing, AbsentHasNoQueue, AbsentOnlyIfStalled, TriesWereRefused

LEMMA StepInv == IInv /\ [Next]_vars => IInv'
<1> SUFFICES ASSUME IInv, [Next]_vars PROVE IInv'
  OBVIOUS
<1>1. CASE UNCHANGED vars
  <2>1. /\ UNCHANGED <<txQueue, ep, got, sent, cut, tried, hostAbsent, stallTries, retryPending, timers, refused, judged, thrown>>
        /\ UNCHANGED <<alive, bridge, udc, link, opened, stalled>>
    BY <1>1 DEF vars
  <2>2. /\ alive' \in BOOLEAN /\ bridge' \in BOOLEAN /\ udc' \in BOOLEAN /\ link' \in {link, TRUE} /\ opened' \in BOOLEAN
        /\ stalled' \in {"no", "young", "old"}
    BY <2>1 DEF IInv, TypeOK
  <2> QED BY <2>1, <2>2, Untouched
<1> QED
  BY <1>1, SendInv, RetryTimerInv, UnplugInv, ShutdownInv, PlugInv, HostAttachInv, HostReadInv, HostDetachInv
  DEF Next

LEMMA Invariance == Spec => []IInv
  BY InitInv, StepInv, PTL DEF Spec

(* The queue and the endpoint stay within their limits, and the tries within  *)
(* what is tested of them.                                                  *)
THEOREM TypeCorrect == Spec => []TypeOK
<1>1. IInv => TypeOK
  BY DEF IInv
<1> QED BY <1>1, Invariance, PTL

(* A report reaches the host after every one sent before it that is to reach  *)
(* it, and once: neither the retries nor the direct write of a host counted   *)
(* absent reorders or repeats.                                               *)
THEOREM HostOrderHolds == Spec => []HostOrder
<1>1. IInv => HostOrder
  BY DEF IInv, HostOrder, Line
<1> QED BY <1>1, Invariance, PTL

(* "Stale reports must not surface on re-plug" (gadget-bridge.js:232-233):   *)
(* once a write was tried after the host was lost, by a detach, an unplug or *)
(* a shutdown, nothing sent before the loss is on its way any more.          *)
THEOREM CableIsCleanHolds == Spec => []CableIsClean
<1>1. IInv => CableIsClean
  <2>1. ASSUME IInv, tried, NEW i \in 1..Len(Waiting) PROVE Waiting[i] > cut
    <3>1. Waiting \in Seq(Reports) /\ cut < Waiting[i]
      BY <2>1 DEF IInv, Line, Floor
    <3> QED BY <3>1
  <2> QED BY <2>1 DEF CableIsClean
<1> QED BY <1>1, Invariance, PTL

(* A host is counted absent only after its endpoint refused MinTries writes   *)
(* in a row with no detach between them.                                     *)
THEOREM AbsentOnlyIfStalledHolds == Spec => []AbsentOnlyIfStalled
<1>1. IInv => AbsentOnlyIfStalled
  BY DEF IInv
<1> QED BY <1>1, Invariance, PTL
=============================================================================

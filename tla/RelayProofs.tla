----------------------------- MODULE RelayProofs -----------------------------
(***************************************************************************)
(* The relay has one firmware at a time, its cable is out when it has none  *)
(* (unless the kernel refuses), nobody but that firmware pulls it, and the  *)
(* firmware's bridge ends up believing what the cable is: for any number of *)
(* connections, commands and faults.                                        *)
(***************************************************************************)
EXTENDS Relay, TLAPS

FarStates == {"no", "new", "refused", "firm", "closing"}

(* The relay's end, as far as the properties need it.  A relay that does not *)
(* run has no firmware, no connection and no started bridge.                 *)
RelayInv ==
  /\ far \in [Conns -> FarStates]
  /\ client \in Conns \cup {None}
  /\ started \in BOOLEAN /\ bound \in BOOLEAN
  /\ served => bound
  /\ ~relayUp => client = None /\ ~started /\ \A c \in Conns : far[c] = "no"

IInv == RelayInv /\ OneFirmware /\ CableNeedsFirmware

USE DEF FarStates, RelayInv, OneFirmware, CableNeedsFirmware, IInv

(* A plug or an unplug leaves the types alone; an unplug leaves no cable in  *)
(* but one that is stuck, and no node open.                                  *)
LEMMA PlugTypes ==
  ASSUME IInv, NEW want \in BOOLEAN, NEW fate \in Fates, Plug(want, fate)
  PROVE  /\ started' \in BOOLEAN /\ bound' \in BOOLEAN /\ (served' => bound')
         /\ ~want /\ started' => ~served' /\ (bound' => jammed')
         /\ want /\ started /\ bound => bound'
<1>1. started' \in BOOLEAN /\ bound' \in BOOLEAN
  BY DEF Plug, Fates, gadget
<1>2. served' => bound'
  BY DEF Plug, Fates, gadget
<1>3. ~want /\ started' => ~served' /\ (bound' => jammed')
  BY DEF Plug, Fates, gadget
<1>4. want /\ started /\ bound => bound'
  BY DEF Plug, Fates, gadget
<1> QED BY <1>1, <1>2, <1>3, <1>4

(* Destroying the superseded connection leaves c the only accepted one.      *)
LEMMA OnlyFirm ==
  ASSUME IInv, NEW c \in Conns,
         far' = Destroyed([far EXCEPT ![c] = "firm"], Superseded(c))
  PROVE  /\ far' \in [Conns -> FarStates]
         /\ \A d \in Conns : far'[d] = "firm" => d = c
  BY NoneAssumption DEF Destroyed, Superseded

LEMMA InitInv == Init => IInv
  BY DEF Init

(* The daemon's steps leave the relay's end alone, or open one that is new.  *)
LEMMA DaemonInv ==
  ASSUME IInv,
         DaemonStep \/ DeviceReport \/ DaemonRestart \/ \E b \in BOOLEAN : SetPlugged(b)
  PROVE  IInv' /\ UNCHANGED gadget
<1>1. UNCHANGED <<relay, gadget, far>>
  <2>1. CASE DaemonStep
    BY <2>1 DEF DaemonStep, OnReady, OnHost, OnRefused, OnClose, OnPlugged, Heard, Closed, NearClosed
  <2>2. CASE DeviceReport
    BY <2>2 DEF DeviceReport
  <2>3. CASE DaemonRestart
    BY <2>3 DEF DaemonRestart, NearClosed, net
  <2>4. CASE \E b \in BOOLEAN : SetPlugged(b)
    BY <2>4 DEF SetPlugged
  <2> QED BY <2>1, <2>2, <2>3, <2>4
<1> QED BY <1>1 DEF relay, gadget

LEMMA DialInv == ASSUME IInv, NEW c \in Conns, Dial(c) PROVE IInv' /\ UNCHANGED gadget
  BY DEF Dial, relay, gadget

LEMMA OnHelloInv ==
  ASSUME IInv, NEW c \in Conns, NEW fate \in Fates, OnHello(c, fate)
  PROVE  IInv' /\ (started /\ bound => bound')
<1>1. /\ client' = c /\ UNCHANGED relayUp
      /\ relayUp
      /\ far' = Destroyed([far EXCEPT ![c] = "firm"], Superseded(c))
      /\ Plug(TRUE, fate)
  BY DEF OnHello, RelayReads, NextFor
<1>2. started' \in BOOLEAN /\ bound' \in BOOLEAN /\ (served' => bound') /\ (started /\ bound => bound')
  BY <1>1, PlugTypes
<1>3. far' \in [Conns -> FarStates] /\ \A d \in Conns : far'[d] = "firm" => d = c
  BY <1>1, OnlyFirm
<1> QED BY <1>1, <1>2, <1>3, NoneAssumption

LEMMA OnPlugInv ==
  ASSUME IInv, NEW c \in Conns, NEW want \in BOOLEAN, NEW fate \in Fates,
         OnPlug(c, want, fate)
  PROVE  IInv' /\ (started /\ bound /\ ~bound' => Asked)
<1>1. /\ far[c] = "firm" /\ relayUp
      /\ up[c] # <<>> /\ Head(up[c]) = (IF want THEN "plug" ELSE "unplug")
      /\ Plug(want, fate)
      /\ UNCHANGED <<relayUp, client, far>>
  BY DEF OnPlug, RelayReads, NextFor
<1>2. client = c /\ client # None
  BY <1>1, NoneAssumption
<1>3. started' \in BOOLEAN /\ bound' \in BOOLEAN /\ (served' => bound') /\ (want /\ started /\ bound => bound')
  BY <1>1, PlugTypes
<1>4. started /\ bound /\ ~bound' => Asked
  BY <1>1, <1>2, <1>3 DEF Asked
<1> QED BY <1>1, <1>2, <1>3, <1>4

LEMMA RelayCloseInv ==
  ASSUME IInv, NEW c \in Conns, NEW fate \in Fates, RelayClose(c, fate)
  PROVE  IInv' /\ (bound /\ ~bound' => \A d \in Conns : far'[d] # "firm")
<1>1. relayUp /\ far' = [far EXCEPT ![c] = "no"] /\ UNCHANGED relayUp /\ Gone(c, fate)
  BY DEF RelayClose, Closing, FarClosed
<1>2. CASE client = c
  <2>1. client' = None /\ Plug(FALSE, fate)
    BY <1>1, <1>2 DEF Gone
  <2>2. /\ started' \in BOOLEAN /\ bound' \in BOOLEAN /\ (served' => bound')
        /\ started' => ~served' /\ (bound' => jammed')
    BY <2>1, PlugTypes
  <2>3. \A d \in Conns : far'[d] # "firm"
    BY <1>1, <1>2
  <2> QED BY <1>1, <2>1, <2>2, <2>3
<1>3. CASE client # c
  <2>1. UNCHANGED <<client, started, bound, served, jammed>>
    BY <1>1, <1>3 DEF Gone, gadget
  <2>2. far' \in [Conns -> FarStates] /\ \A d \in Conns : far'[d] = "firm" => d = client
    BY <1>1
  <2> QED BY <1>1, <2>1, <2>2
<1> QED BY <1>2, <1>3

(* What else happens to one of the relay's connections. *)
LEMMA ConnectionInv ==
  ASSUME IInv, NEW c \in Conns, OnBadHello(c) \/ OnReport(c) \/ HelloTimeout(c) \/ Break(c)
  PROVE  IInv' /\ UNCHANGED gadget
<1>1. CASE OnBadHello(c)
  BY <1>1 DEF OnBadHello, RelayReads, NextFor, relay, gadget
<1>2. CASE OnReport(c)
  BY <1>2 DEF OnReport, relay, gadget
<1>3. CASE HelloTimeout(c)
  BY <1>3 DEF HelloTimeout, relay, gadget
<1>4. CASE Break(c)
  BY <1>4 DEF Break, relay, gadget
<1> QED BY <1>1, <1>2, <1>3, <1>4

LEMMA ProcessInv ==
  ASSUME IInv, HostReport \/ RelayStart \/ \E killed \in BOOLEAN : RelayExit(killed)
  PROVE  IInv' /\ (UNCHANGED gadget \/ ~relayUp')
<1>1. CASE HostReport
  BY <1>1 DEF HostReport, relay, gadget
<1>2. CASE RelayStart
  BY <1>2 DEF RelayStart, gadget, net
<1>3. CASE \E killed \in BOOLEAN : RelayExit(killed)
  BY <1>3 DEF RelayExit
<1> QED BY <1>1, <1>2, <1>3

(* What the cable's property says of one step. *)
Held == started /\ bound /\ ~bound' /\ relayUp' => Asked \/ \A c \in Conns : far'[c] # "firm"

(* Every step preserves the invariant and holds the cable. *)
LEMMA StepInv == IInv /\ [Next]_vars => IInv' /\ [Held]_vars
<1> SUFFICES ASSUME IInv, [Next]_vars PROVE IInv' /\ Held
  OBVIOUS
<1> USE DEF Held
<1>1. CASE UNCHANGED vars
  BY <1>1 DEF vars, relay, gadget, net
<1>2. CASE DaemonStep \/ DeviceReport \/ DaemonRestart \/ \E b \in BOOLEAN : SetPlugged(b)
  BY <1>2, DaemonInv DEF gadget
<1>3. CASE HostReport \/ RelayStart \/ \E killed \in BOOLEAN : RelayExit(killed)
  BY <1>3, ProcessInv DEF gadget
<1>4. ASSUME NEW c \in Conns, Dial(c) \/ HelloTimeout(c) \/ Break(c) PROVE IInv' /\ Held
  BY <1>4, DialInv, ConnectionInv DEF gadget
<1>5. ASSUME NEW c \in Conns, RelayStep(c) PROVE IInv' /\ Held
  <2>1. CASE OnBadHello(c) \/ OnReport(c)
    BY <2>1, ConnectionInv DEF gadget
  <2>2. ASSUME NEW fate \in Fates, RelayClose(c, fate) PROVE IInv' /\ Held
    BY <2>2, RelayCloseInv
  <2>3. ASSUME NEW fate \in Fates, OnHello(c, fate) PROVE IInv' /\ Held
    BY <2>3, OnHelloInv
  <2>4. ASSUME NEW want \in BOOLEAN, NEW fate \in Fates, OnPlug(c, want, fate) PROVE IInv' /\ Held
    BY <2>4, OnPlugInv
  <2> QED BY <1>5, <2>1, <2>2, <2>3, <2>4 DEF RelayStep
<1> QED BY <1>1, <1>2, <1>3, <1>4, <1>5 DEF Next

LEMMA Inductive == Spec => []IInv
  BY InitInv, StepInv, PTL DEF Spec

(* The relay listens to one accepted connection, its client's (relay.js:75). *)
THEOREM RelayOneFirmware == Spec => []OneFirmware
<1>1. IInv => OneFirmware  OBVIOUS
<1> QED BY <1>1, Inductive, PTL

(* With no firmware connected nobody reads the Pi's computer and the cable   *)
(* is out, unless the kernel refused to let it go (relay.js:13, :61).        *)
THEOREM RelayCableNeedsFirmware == Spec => []CableNeedsFirmware
<1>1. IInv => CableNeedsFirmware  OBVIOUS
<1> QED BY <1>1, Inductive, PTL

(* A relay that has started its gadget bridge takes the cable out only for a *)
(* firmware that asked, or when none is left; never for the late close of    *)
(* another (relay.js:88-93).                                                 *)
THEOREM RelayCableHeld == Spec => CableHeld
<1>1. IInv /\ [Next]_vars => [started /\ bound /\ ~bound' /\ relayUp' => Asked \/ \A c \in Conns : far'[c] # "firm"]_vars
  BY StepInv DEF Held
<1> QED BY <1>1, Inductive, PTL DEF Spec, CableHeld
-----------------------------------------------------------------------------
(* What the bridge believes of the cable.                                    *)

WireTypes ==
  /\ sock \in Conns \cup {None} /\ ready \in BOOLEAN /\ cable \in BOOLEAN
  /\ near \in [Conns -> BOOLEAN]
  /\ up \in [Conns -> Seq(Ups)] /\ down \in [Conns -> Seq(Downs)]

(* The bridge's socket is open, and so is the relay's to its client.         *)
Ends ==
  /\ sock # None => near[sock]
  /\ ready => sock # None
  /\ client # None => far[client] = "firm"

(* What a channel to the daemon says of the cable: its last word on it, no   *)
(* word, or that the connection ends; and whether one to the relay asks for  *)
(* a plug or an unplug.                                                      *)
Word(b) == IF b THEN "in" ELSE "out"
SaysLast(d, b) ==
  \E k \in 1..Len(d) : d[k] = Word(b) /\ \A m \in 1..Len(d) : m > k => d[m] \notin {"in", "out"}
Silent(d) == \A k \in 1..Len(d) : d[k] \notin {"in", "out"}
Ending(d) == \E k \in 1..Len(d) : d[k] = "fin"
Asking(u) == \E k \in 1..Len(u) : u[k] \in {"plug", "unplug"}

(* The relay's last word to its client is what the cable is.  Once the       *)
(* bridge has heard it, it believes so too, unless it has asked since and    *)
(* the relay has yet to answer.                                              *)
CableTold ==
  client # None /\ client = sock /\ started =>
    \/ Ending(down[client])
    \/ SaysLast(down[client], bound)
    \/ Silent(down[client]) /\ (cable = bound \/ Asking(up[client]))

CableInv == WireTypes /\ Ends /\ CableTold

(* Sending keeps what a channel says, or has the last word.                  *)
LEMMA Sending ==
  ASSUME NEW S, NEW d \in Seq(S), NEW ms \in Seq(S), NEW b \in BOOLEAN
  PROVE  /\ Ending(d) => Ending(d \o ms)
         /\ SaysLast(ms, b) => SaysLast(d \o ms, b)
         /\ Silent(ms) => (SaysLast(d, b) => SaysLast(d \o ms, b)) /\ (Silent(d) => Silent(d \o ms))
         /\ Asking(d) \/ Asking(ms) => Asking(d \o ms)
         /\ d \o ms \in Seq(S)
<1> DEFINE e == d \o ms
<1>1. /\ e \in Seq(S) /\ Len(d) \in Nat /\ Len(ms) \in Nat /\ Len(e) = Len(d) + Len(ms)
      /\ \A k \in 1..Len(d) : e[k] = d[k]
      /\ \A k \in 1..Len(ms) : e[Len(d) + k] = ms[k]
      /\ \A k \in 1..Len(e) : k > Len(d) => k - Len(d) \in 1..Len(ms) /\ e[k] = ms[k - Len(d)]
  OBVIOUS
<1> HIDE DEF e
<1>2. Ending(d) => Ending(e)
  BY <1>1 DEF Ending
<1>3. Asking(d) \/ Asking(ms) => Asking(e)
  <2>1. CASE Asking(d)
    BY <1>1, <2>1 DEF Asking
  <2>2. CASE Asking(ms)
    <3>1. PICK k \in 1..Len(ms) : ms[k] \in {"plug", "unplug"}
      BY <2>2 DEF Asking
    <3>2. Len(d) + k \in 1..Len(e) /\ e[Len(d) + k] = ms[k]
      BY <1>1
    <3> QED BY <3>1, <3>2 DEF Asking
  <2> QED BY <2>1, <2>2
<1>4. ASSUME SaysLast(ms, b) PROVE SaysLast(e, b)
  <2>1. PICK k \in 1..Len(ms) :
          ms[k] = Word(b) /\ \A m \in 1..Len(ms) : m > k => ms[m] \notin {"in", "out"}
    BY <1>4 DEF SaysLast
  <2>2. Len(d) + k \in 1..Len(e) /\ e[Len(d) + k] = Word(b)
    BY <1>1, <2>1
  <2>3. ASSUME NEW m \in 1..Len(e), m > Len(d) + k PROVE e[m] \notin {"in", "out"}
    <3>1. m - Len(d) \in 1..Len(ms) /\ m - Len(d) > k /\ e[m] = ms[m - Len(d)]
      BY <1>1, <2>3
    <3> QED BY <2>1, <3>1
  <2> QED BY <2>2, <2>3 DEF SaysLast
<1>5. ASSUME Silent(ms) PROVE (SaysLast(d, b) => SaysLast(e, b)) /\ (Silent(d) => Silent(e))
  <2>1. \A m \in 1..Len(e) : m > Len(d) => e[m] \notin {"in", "out"}
    BY <1>1, <1>5 DEF Silent
  <2>2. \A m \in 1..Len(e) : m \in 1..Len(d) \/ m > Len(d)
    BY <1>1
  <2>3. Silent(d) => Silent(e)
    BY <1>1, <2>1, <2>2 DEF Silent
  <2>4. ASSUME SaysLast(d, b) PROVE SaysLast(e, b)
    <3>1. PICK k \in 1..Len(d) : d[k] = Word(b) /\ \A m \in 1..Len(d) : m > k => d[m] \notin {"in", "out"}
      BY <2>4 DEF SaysLast
    <3>2. k \in 1..Len(e) /\ e[k] = Word(b)
      BY <1>1, <3>1
    <3>3. \A m \in 1..Len(e) : m > k => e[m] \notin {"in", "out"}
      BY <1>1, <2>1, <2>2, <3>1
    <3> QED BY <3>2, <3>3 DEF SaysLast
  <2> QED BY <2>3, <2>4
<1> QED BY <1>1, <1>2, <1>3, <1>4, <1>5 DEF e

(* Reading takes one message from the front.                                 *)
LEMMA Reading ==
  ASSUME NEW S, NEW d \in Seq(S), d # <<>>, NEW b \in BOOLEAN
  PROVE  /\ Ending(d) /\ Head(d) # "fin" => Ending(Tail(d))
         /\ Silent(d) => Silent(Tail(d))
         /\ SaysLast(d, b) => SaysLast(Tail(d), b) \/ (Silent(Tail(d)) /\ Head(d) = Word(b))
         /\ Asking(d) /\ Head(d) \notin {"plug", "unplug"} => Asking(Tail(d))
         /\ Tail(d) \in Seq(S)
<1> DEFINE t == Tail(d)
<1>1. /\ t \in Seq(S) /\ Len(d) \in Nat /\ Len(d) > 0 /\ Len(t) = Len(d) - 1 /\ Len(t) \in Nat
      /\ \A k \in 1..Len(t) : k + 1 \in 1..Len(d) /\ t[k] = d[k + 1]
      /\ Head(d) = d[1]
  OBVIOUS
<1> HIDE DEF t
<1>2. \A k \in 1..Len(d) : k = 1 \/ (k - 1 \in 1..Len(t) /\ t[k - 1] = d[k])
  <2>1. ASSUME NEW k \in 1..Len(d), k # 1 PROVE k - 1 \in 1..Len(t) /\ t[k - 1] = d[k]
    <3>1. k - 1 \in 1..Len(t) /\ (k - 1) + 1 = k
      BY <1>1, <2>1
    <3> QED BY <1>1, <3>1
  <2> QED BY <2>1
<1>3. Ending(d) /\ Head(d) # "fin" => Ending(t)
  BY <1>1, <1>2 DEF Ending
<1>4. Asking(d) /\ Head(d) \notin {"plug", "unplug"} => Asking(t)
  BY <1>1, <1>2 DEF Asking
<1>5. Silent(d) => Silent(t)
  BY <1>1 DEF Silent
<1>6. ASSUME SaysLast(d, b) PROVE SaysLast(t, b) \/ (Silent(t) /\ Head(d) = Word(b))
  <2>1. PICK k \in 1..Len(d) : d[k] = Word(b) /\ \A m \in 1..Len(d) : m > k => d[m] \notin {"in", "out"}
    BY <1>6 DEF SaysLast
  <2>2. \A m \in 1..Len(t) : m + 1 > k => t[m] \notin {"in", "out"}
    BY <1>1, <2>1
  <2>3. CASE k = 1
    BY <1>1, <2>1, <2>2, <2>3 DEF Silent
  <2>4. CASE k # 1
    <3>1. k - 1 \in 1..Len(t) /\ t[k - 1] = Word(b)
      BY <1>2, <2>1, <2>4
    <3>2. \A m \in 1..Len(t) : m > k - 1 => m + 1 > k
      BY <1>1
    <3> QED BY <2>2, <3>1, <3>2 DEF SaysLast
  <2> QED BY <2>3, <2>4
<1> QED BY <1>1, <1>3, <1>4, <1>5, <1>6 DEF t

LEMMA CableInit == Init => CableInv
<1> SUFFICES ASSUME Init PROVE CableInv
  OBVIOUS
<1>1. <<>> \in Seq(Ups) /\ <<>> \in Seq(Downs)
  OBVIOUS
<1>2. WireTypes
  BY <1>1 DEF Init, WireTypes
<1>3. Ends /\ CableTold
  BY DEF Init, Ends, CableTold
<1> QED BY <1>2, <1>3 DEF CableInv

(* What is not sent to the bridge, read by it or asked of its relay leaves   *)
(* the agreement alone; so does every step that ends it.                     *)
LEMMA Untouched ==
  ASSUME CableTold, UNCHANGED <<client, sock, started, bound, cable>>,
         client # None => down'[client] = down[client] /\ up'[client] = up[client]
  PROVE  CableTold'
  BY DEF CableTold

LEMMA DialCable == ASSUME IInv, CableInv, NEW c \in Conns, Dial(c) PROVE CableInv'
<1>1. /\ sock' = c /\ near' = [near EXCEPT ![c] = TRUE] /\ far' = [far EXCEPT ![c] = "new"]
      /\ UNCHANGED <<ready, cable, client>> /\ far[c] = "no"
      /\ down' = [down EXCEPT ![c] = <<>>]
      /\ \E m \in Ups : up' = [up EXCEPT ![c] = <<m>>]
  BY DEF Dial, relay, Ups
<1>2. client # c /\ client' # sock'
  BY <1>1, NoneAssumption DEF CableInv, Ends
<1>3. WireTypes'
  BY <1>1 DEF CableInv, WireTypes
<1>4. Ends'
  BY <1>1, <1>2, NoneAssumption DEF CableInv, WireTypes, Ends
<1> QED BY <1>2, <1>3, <1>4 DEF CableInv, CableTold

(* The daemon reads a message which is not the connection's end.             *)
LEMMA HearsCable ==
  ASSUME IInv, CableInv, NEW m \in Downs \ {"fin"}, Hears(m), Heard,
         UNCHANGED <<relay, gadget, sock>>, ready' \in BOOLEAN,
         cable' = IF m = "in" THEN TRUE ELSE IF m = "out" THEN FALSE ELSE cable
  PROVE  CableInv'
<1>1. /\ sock # None /\ sock \in Conns /\ down[sock] \in Seq(Downs)
      /\ down[sock] # <<>> /\ Head(down[sock]) = m
      /\ down' = [down EXCEPT ![sock] = Tail(down[sock])] /\ UNCHANGED <<near, far, up, client, started, bound>>
  BY DEF Hears, Heard, CableInv, WireTypes, relay, gadget
<1>2. /\ Tail(down[sock]) \in Seq(Downs)
      /\ Ending(down[sock]) => Ending(Tail(down[sock]))
      /\ Silent(down[sock]) => Silent(Tail(down[sock]))
      /\ SaysLast(down[sock], bound) =>
           SaysLast(Tail(down[sock]), bound) \/ (Silent(Tail(down[sock])) /\ m = Word(bound))
  BY <1>1, Reading
<1>3. WireTypes' /\ down'[sock] = Tail(down[sock])
  BY <1>1, <1>2 DEF CableInv, WireTypes
<1>4. Ends'
  BY <1>1 DEF CableInv, Ends
<1>5. Silent(down[sock]) => cable' = cable
  <2>1. Head(down[sock]) = down[sock][1] /\ 1 \in 1..Len(down[sock])
    BY <1>1
  <2> QED BY <1>1, <2>1 DEF Silent
<1>6. m = Word(bound) => cable' = bound
  BY DEF Word
<1>7. ASSUME client # None, client = sock, started
      PROVE  \/ Ending(down'[client]) \/ SaysLast(down'[client], bound)
             \/ Silent(down'[client]) /\ (cable' = bound \/ Asking(up[client]))
  <2>1. \/ Ending(down[client]) \/ SaysLast(down[client], bound)
        \/ Silent(down[client]) /\ (cable = bound \/ Asking(up[client]))
    BY <1>7 DEF CableInv, CableTold
  <2> QED BY <1>2, <1>3, <1>5, <1>6, <1>7, <2>1
<1>8. CableTold'
  BY <1>1, <1>7 DEF CableTold
<1> QED BY <1>3, <1>4, <1>8 DEF CableInv

(* The daemon's end closes: it believes nothing of the cable.                *)
LEMMA NearClosedCable ==
  ASSUME IInv, CableInv, UNCHANGED relay, sock' = None, ready' = FALSE, cable' = FALSE,
         IF sock # None THEN NearClosed(sock) ELSE UNCHANGED net
  PROVE  CableInv'
<1>1. CASE sock = None
  BY <1>1 DEF CableInv, WireTypes, Ends, CableTold, net, relay
<1>2. CASE sock # None
  <2>1. NearClosed(sock) /\ sock \in Conns
    BY <1>2 DEF CableInv, WireTypes
  <2>2. up[sock] \o <<"fin">> \in Seq(Ups)
    BY <2>1 DEF CableInv, WireTypes, Ups
  <2>3. <<>> \in Seq(Downs)
    OBVIOUS
  <2>4. up' = up \/ up' = [up EXCEPT ![sock] = up[sock] \o <<"fin">>]
    BY <2>1 DEF NearClosed, Sent
  <2>5. WireTypes'
    <3>1. up' \in [Conns -> Seq(Ups)]
      BY <2>2, <2>4 DEF CableInv, WireTypes
    <3>2. near' \in [Conns -> BOOLEAN] /\ down' \in [Conns -> Seq(Downs)]
      BY <2>1, <2>3 DEF CableInv, WireTypes, NearClosed
    <3> QED BY <3>1, <3>2 DEF CableInv, WireTypes
  <2>6. Ends' /\ CableTold'
    BY <2>1 DEF CableInv, Ends, CableTold, NearClosed, relay
  <2> QED BY <2>5, <2>6 DEF CableInv
<1> QED BY <1>1, <1>2

(* The daemon asks for a plug or an unplug: its belief is ahead of the cable, *)
(* and the question is on its way.                                           *)
LEMMA SetPluggedCable == ASSUME IInv, CableInv, NEW want \in BOOLEAN, SetPlugged(want) PROVE CableInv'
<1> DEFINE m == IF want THEN "plug" ELSE "unplug"
<1>1. /\ ready /\ sock # None /\ sock \in Conns /\ cable' = want
      /\ up' = Sent(up, sock, <<m>>, far[sock] \notin {"no", "closing"})
      /\ UNCHANGED <<sock, ready, client, started, bound, near, far, down>>
  BY DEF SetPlugged, CableInv, WireTypes, Ends, relay, gadget
<1>2. <<m>> \in Seq(Ups) /\ Asking(<<m>>)
  BY DEF Ups, Asking
<1>3. up[sock] \in Seq(Ups)
  BY <1>1 DEF CableInv, WireTypes
<1> HIDE DEF m
<1>4. up[sock] \o <<m>> \in Seq(Ups) /\ Asking(up[sock] \o <<m>>)
  BY <1>2, <1>3, Sending
<1>5. WireTypes'
  BY <1>1, <1>4 DEF CableInv, WireTypes, Sent
<1>6. Ends'
  BY <1>1 DEF CableInv, Ends
<1>7. client # None /\ client = sock => Asking(up'[client])
  <2>1. client # None /\ client = sock => up' = [up EXCEPT ![sock] = up[sock] \o <<m>>]
    BY <1>1 DEF Sent, CableInv, Ends
  <2>2. up \in [Conns -> Seq(Ups)]
    BY DEF CableInv, WireTypes
  <2> QED BY <1>1, <1>4, <2>1, <2>2
<1>8. CableTold'
  BY <1>1, <1>7 DEF CableInv, CableTold
<1> QED BY <1>5, <1>6, <1>8 DEF CableInv

LEMMA DeviceReportCable == ASSUME IInv, CableInv, DeviceReport PROVE CableInv'
<1>1. /\ sock # None /\ sock \in Conns
      /\ up' = Sent(up, sock, <<"report">>, far[sock] \notin {"no", "closing"})
      /\ UNCHANGED <<sock, ready, cable, client, started, bound, near, far, down>>
  BY DEF DeviceReport, CableInv, WireTypes, Ends, daemon, relay, gadget
<1>2. up[sock] \in Seq(Ups) /\ <<"report">> \in Seq(Ups)
  BY <1>1 DEF CableInv, WireTypes, Ups
<1>3. up[sock] \o <<"report">> \in Seq(Ups) /\ (Asking(up[sock]) => Asking(up[sock] \o <<"report">>))
  BY <1>2, Sending
<1>4. WireTypes' /\ (client # None /\ Asking(up[client]) => Asking(up'[client]))
  BY <1>1, <1>3, NoneAssumption DEF CableInv, WireTypes, Sent
<1> QED BY <1>1, <1>4 DEF CableInv, Ends, CableTold

(* The relay's answer to a plug or an unplug: the cable as it is now.        *)
LEMMA ReplySays ==
  ASSUME IInv, NEW want \in BOOLEAN, NEW fate \in Fates, Plug(want, fate)
  PROVE  /\ Reply(want, fate) \in Seq(Downs)
         /\ started' => Reply(want, fate) = <<Word(bound')>> /\ SaysLast(Reply(want, fate), bound')
<1>1. Reply(want, fate) = <<Word(bound')>> \/ (Reply(want, fate) = <<>> /\ ~started')
  BY DEF Reply, Word, Plug, gadget
<1>2. <<Word(bound')>> \in Seq(Downs) /\ <<>> \in Seq(Downs)
  BY DEF Word, Downs
<1>3. SaysLast(<<Word(bound')>>, bound')
  BY DEF SaysLast
<1> QED BY <1>1, <1>2, <1>3

LEMMA OnHelloCable ==
  ASSUME IInv, CableInv, NEW c \in Conns, NEW fate \in Fates, OnHello(c, fate)
  PROVE  CableInv'
<1> DEFINE ms == <<"ready">> \o Reply(TRUE, fate)
           sent == Sent(down, c, ms, near[c])
           other == Superseded(c)
<1>1. /\ client' = c /\ Plug(TRUE, fate) /\ up[c] # <<>>
      /\ far' = Destroyed([far EXCEPT ![c] = "firm"], other)
      /\ up' = Unread([up EXCEPT ![c] = Tail(@)], other)
      /\ down' = Farewell(sent, other)
      /\ UNCHANGED <<sock, ready, cable, near>>
  BY DEF OnHello, RelayReads, NextFor, daemon
<1>2. other \in Conns \cup {None} /\ other # c
  BY NoneAssumption DEF Superseded
<1>3. /\ up \in [Conns -> Seq(Ups)] /\ down \in [Conns -> Seq(Downs)] /\ near \in [Conns -> BOOLEAN]
  BY DEF CableInv, WireTypes
<1>4. ms \in Seq(Downs) /\ (started' => SaysLast(ms, bound'))
  <2> DEFINE re == Reply(TRUE, fate)
  <2>1. re \in Seq(Downs) /\ (started' => SaysLast(re, bound')) /\ bound' \in BOOLEAN
    BY <1>1, ReplySays, PlugTypes
  <2> DEFINE first == <<"ready">>
  <2>2. first \in Seq(Downs)
    BY DEF Downs
  <2> HIDE DEF re, first
  <2>3. first \o re \in Seq(Downs)
    BY <2>1, <2>2
  <2>4. started' => SaysLast(first \o re, bound')
    BY <2>1, <2>2, Sending
  <2> QED BY <2>3, <2>4 DEF re, first
<1> HIDE DEF ms, other
<1>5. down[c] \o ms \in Seq(Downs) /\ (started' => SaysLast(down[c] \o ms, bound'))
  <2>1. down[c] \in Seq(Downs) /\ (started' => bound' \in BOOLEAN)
    BY <1>1, <1>3, PlugTypes
  <2>2. down[c] \o ms \in Seq(Downs)
    BY <1>4, <2>1
  <2> QED BY <1>4, <2>1, <2>2, Sending
<1>6. sent \in [Conns -> Seq(Downs)] /\ (near[c] => sent[c] = down[c] \o ms)
  BY <1>3, <1>5 DEF Sent
<1> HIDE DEF sent
<1>7. down' \in [Conns -> Seq(Downs)] /\ down'[c] = sent[c]
  <2>1. \A d \in Conns : Append(sent[d], "fin") \in Seq(Downs)
    BY <1>6 DEF Downs
  <2> QED BY <1>1, <1>2, <1>6, <2>1 DEF Farewell
<1>8. up' \in [Conns -> Seq(Ups)]
  <2>1. Tail(up[c]) \in Seq(Ups) /\ <<>> \in Seq(Ups)
    BY <1>1, <1>3
  <2> QED BY <1>1, <1>2, <1>3, <2>1 DEF Unread
<1>9. WireTypes'
  BY <1>1, <1>7, <1>8 DEF CableInv, WireTypes
<1>10. Ends'
  <2>1. far'[c] = "firm"
    BY <1>1, <1>2 DEF Destroyed
  <2> QED BY <1>1, <2>1 DEF CableInv, Ends
<1>11. CableTold'
  <2>1. ASSUME c = sock, started' PROVE SaysLast(down'[c], bound')
    <3>1. near[c]
      BY <2>1, NoneAssumption DEF CableInv, Ends
    <3> QED BY <1>5, <1>6, <1>7, <2>1, <3>1
  <2> QED BY <1>1, <2>1 DEF CableTold
<1> QED BY <1>9, <1>10, <1>11 DEF CableInv

LEMMA OnPlugCable ==
  ASSUME IInv, CableInv, NEW c \in Conns, NEW want \in BOOLEAN, NEW fate \in Fates,
         OnPlug(c, want, fate)
  PROVE  CableInv'
<1> DEFINE ms == Reply(want, fate)
<1>1. /\ client = c /\ Plug(want, fate) /\ up[c] # <<>>
      /\ up' = [up EXCEPT ![c] = Tail(@)]
      /\ down' = Sent(down, c, ms, near[c])
      /\ UNCHANGED <<sock, ready, cable, near, far, client>>
  BY NoneAssumption DEF OnPlug, RelayReads, NextFor, daemon
<1>2. /\ up \in [Conns -> Seq(Ups)] /\ down \in [Conns -> Seq(Downs)]
  BY DEF CableInv, WireTypes
<1>3. ms \in Seq(Downs) /\ (started' => SaysLast(ms, bound') /\ bound' \in BOOLEAN)
  BY <1>1, ReplySays, PlugTypes
<1> HIDE DEF ms
<1>4. down[c] \o ms \in Seq(Downs) /\ (started' => SaysLast(down[c] \o ms, bound'))
  <2>1. down[c] \in Seq(Downs) /\ down[c] \o ms \in Seq(Downs)
    BY <1>2, <1>3
  <2> QED BY <1>3, <2>1, Sending
<1>5. down' \in [Conns -> Seq(Downs)] /\ (near[c] => down'[c] = down[c] \o ms)
  BY <1>1, <1>2, <1>4 DEF Sent
<1>6. up' \in [Conns -> Seq(Ups)]
  <2>1. Tail(up[c]) \in Seq(Ups)
    BY <1>1, <1>2
  <2> QED BY <1>1, <1>2, <2>1
<1>7. WireTypes' /\ Ends'
  BY <1>1, <1>5, <1>6 DEF CableInv, WireTypes, Ends
<1>8. CableTold'
  <2>1. ASSUME c = sock, started' PROVE SaysLast(down'[c], bound')
    <3>1. near[c]
      BY <2>1, NoneAssumption DEF CableInv, Ends
    <3> QED BY <1>4, <1>5, <2>1, <3>1
  <2> QED BY <1>1, <2>1 DEF CableTold
<1> QED BY <1>7, <1>8 DEF CableInv

(* A connection that is not the client's, or that breaks: none of its        *)
(* messages is between the two.                                              *)
LEMMA OtherCable ==
  ASSUME IInv, CableInv, NEW c \in Conns,
         OnBadHello(c) \/ (\E fate \in Fates : RelayClose(c, fate)) \/ HelloTimeout(c) \/ Break(c)
  PROVE  CableInv'
<1>1. /\ up \in [Conns -> Seq(Ups)] /\ down \in [Conns -> Seq(Downs)]
      /\ <<>> \in Seq(Ups) /\ <<"fin">> \in Seq(Ups) /\ <<"fin">> \in Seq(Downs)
      /\ <<"refused", "fin">> \in Seq(Downs)
  BY DEF CableInv, WireTypes, Ups, Downs
<1>2. /\ \A s \in Seq(Downs) : s \o <<"fin">> \in Seq(Downs) /\ Append(s, "fin") \in Seq(Downs)
      /\ \A s \in Seq(Downs) : s \o <<"refused", "fin">> \in Seq(Downs)
      /\ \A s \in Seq(Ups) : s # <<>> => Tail(s) \in Seq(Ups)
  BY <1>1 DEF Downs
<1>3. CASE OnBadHello(c)
  <2>1. /\ up[c] # <<>> /\ far[c] = "new" /\ up' = [up EXCEPT ![c] = Tail(up[c])]
        /\ down' = down \/ down' = [down EXCEPT ![c] = down[c] \o <<"refused", "fin">>]
        /\ far' = [far EXCEPT ![c] = "refused"]
        /\ UNCHANGED <<sock, ready, cable, near, client, started, bound>>
    BY <1>3 DEF OnBadHello, RelayReads, NextFor, Sent, daemon, relay, gadget
  <2>2. client # c
    BY <2>1, NoneAssumption DEF CableInv, Ends
  <2>3. up' \in [Conns -> Seq(Ups)]
    BY <1>1, <1>2, <2>1
  <2>4. down' \in [Conns -> Seq(Downs)]
    BY <1>1, <1>2, <2>1
  <2>5. WireTypes'
    BY <2>1, <2>3, <2>4 DEF CableInv, WireTypes
  <2>6. Ends'
    BY <2>1, <2>2, NoneAssumption DEF CableInv, Ends
  <2>7. CableTold'
    BY <1>1, <2>1, <2>2, Untouched DEF CableInv
  <2> QED BY <2>5, <2>6, <2>7 DEF CableInv
<1>4. CASE HelloTimeout(c)
  <2>1. /\ far[c] = "new" /\ up' = [up EXCEPT ![c] = <<>>]
        /\ down' = down \/ down' = [down EXCEPT ![c] = Append(down[c], "fin")]
        /\ far' = [far EXCEPT ![c] = "closing"]
        /\ UNCHANGED <<sock, ready, cable, near, client, started, bound>>
    BY <1>4, NoneAssumption DEF HelloTimeout, Unread, Farewell, daemon, relay, gadget
  <2>2. client # c
    BY <2>1, NoneAssumption DEF CableInv, Ends
  <2>3. up' \in [Conns -> Seq(Ups)]
    BY <1>1, <1>2, <2>1
  <2>4. down' \in [Conns -> Seq(Downs)]
    BY <1>1, <1>2, <2>1
  <2>5. WireTypes'
    BY <2>1, <2>3, <2>4 DEF CableInv, WireTypes
  <2>6. Ends'
    BY <2>1, <2>2, NoneAssumption DEF CableInv, Ends
  <2>7. CableTold'
    BY <1>1, <2>1, <2>2, Untouched DEF CableInv
  <2> QED BY <2>5, <2>6, <2>7 DEF CableInv
<1>5. CASE \E fate \in Fates : RelayClose(c, fate)
  <2>1. /\ up' = [up EXCEPT ![c] = <<>>]
        /\ down' = down \/ down' = [down EXCEPT ![c] = down[c] \o <<"fin">>]
        /\ far' = [far EXCEPT ![c] = "no"]
        /\ UNCHANGED <<sock, ready, cable, near>>
        /\ client' # c /\ (client' # None => UNCHANGED <<client, started, bound>>)
    BY <1>5, NoneAssumption DEF RelayClose, FarClosed, Gone, Sent, daemon, gadget
  <2>2. up' \in [Conns -> Seq(Ups)]
    BY <1>1, <2>1
  <2>3. down' \in [Conns -> Seq(Downs)]
    <3>1. down[c] \o <<"fin">> \in Seq(Downs)
      BY <1>1, <1>2
    <3> QED BY <1>1, <2>1, <3>1
  <2>4. WireTypes'
    BY <2>1, <2>2, <2>3 DEF CableInv, WireTypes
  <2>5. Ends'
    BY <2>1, NoneAssumption DEF CableInv, Ends
  <2>6. ASSUME client' # None PROVE CableTold'
    BY <1>1, <2>1, <2>6, Untouched DEF CableInv
  <2>7. CableTold'
    BY <2>6 DEF CableTold
  <2> QED BY <2>4, <2>5, <2>7 DEF CableInv
<1>6. CASE Break(c)
  <2>1. /\ up' = [up EXCEPT ![c] = <<"fin">>] /\ down' = [down EXCEPT ![c] = <<"fin">>]
        /\ UNCHANGED <<sock, ready, cable, near, far, client, started, bound>>
    BY <1>6 DEF Break, daemon, relay, gadget
  <2>2. WireTypes' /\ Ends'
    BY <1>1, <2>1 DEF CableInv, WireTypes, Ends
  <2>3. client = c => Ending(down'[client])
    BY <1>1, <2>1 DEF Ending
  <2>4. ASSUME client # c PROVE CableTold'
    BY <1>1, <2>1, <2>4, Untouched DEF CableInv
  <2>5. CableTold'
    BY <2>1, <2>3, <2>4 DEF CableTold
  <2> QED BY <2>2, <2>5 DEF CableInv
<1> QED BY <1>3, <1>4, <1>5, <1>6

(* The messages to the relay that are no question, and to the daemon that    *)
(* are no word on the cable.                                                 *)
LEMMA OnReportCable == ASSUME IInv, CableInv, NEW c \in Conns, OnReport(c) PROVE CableInv'
<1>1. /\ up[c] # <<>> /\ Head(up[c]) = "report" /\ up' = [up EXCEPT ![c] = Tail(up[c])]
      /\ UNCHANGED <<sock, ready, cable, near, far, down, client, started, bound>>
  BY DEF OnReport, RelayReads, NextFor, daemon, relay, gadget
<1>2. up \in [Conns -> Seq(Ups)]
  BY DEF CableInv, WireTypes
<1>3. Tail(up[c]) \in Seq(Ups) /\ (Asking(up[c]) => Asking(Tail(up[c])))
  BY <1>1, <1>2, Reading
<1>4. WireTypes' /\ \A d \in Conns : Asking(up[d]) => Asking(up'[d])
  BY <1>1, <1>2, <1>3 DEF CableInv, WireTypes
<1> QED BY <1>1, <1>4 DEF CableInv, Ends, CableTold

LEMMA HostReportCable == ASSUME IInv, CableInv, HostReport PROVE CableInv'
<1>1. /\ client # None /\ down' = Sent(down, client, <<"host">>, near[client])
      /\ UNCHANGED <<sock, ready, cable, near, far, up, client, started, bound>>
  BY DEF HostReport, daemon, relay, gadget
<1> DEFINE d == down[client]
           ms == <<"host">>
<1>2. down \in [Conns -> Seq(Downs)] /\ ms \in Seq(Downs) /\ Silent(ms)
  BY DEF CableInv, WireTypes, Downs, Silent
<1>3. d \in Seq(Downs) /\ client \in Conns /\ bound \in BOOLEAN
  BY <1>1, <1>2
<1>4. down' = down \/ down' = [down EXCEPT ![client] = d \o ms]
  BY <1>1 DEF Sent
<1> HIDE DEF d, ms
<1>5. /\ d \o ms \in Seq(Downs)
      /\ Ending(d) => Ending(d \o ms)
      /\ SaysLast(d, bound) => SaysLast(d \o ms, bound)
      /\ Silent(d) => Silent(d \o ms)
  BY <1>2, <1>3, Sending
<1>6. down' \in [Conns -> Seq(Downs)] /\ (down'[client] = down[client] \/ down'[client] = d \o ms)
  BY <1>2, <1>3, <1>4, <1>5
<1>7. WireTypes' /\ Ends'
  BY <1>1, <1>6 DEF CableInv, WireTypes, Ends
<1>8. CableTold'
  BY <1>1, <1>5, <1>6 DEF CableInv, CableTold, d
<1> QED BY <1>7, <1>8 DEF CableInv

LEMMA RelayProcessCable ==
  ASSUME IInv, CableInv, RelayStart \/ \E killed \in BOOLEAN : RelayExit(killed)
  PROVE  CableInv'
<1>1. CASE RelayStart
  BY <1>1 DEF RelayStart, daemon, gadget, net, CableInv, WireTypes, Ends, CableTold
<1>2. ASSUME NEW killed \in BOOLEAN, RelayExit(killed) PROVE CableInv'
  <2>1. /\ client' = None /\ up' = [c \in Conns |-> <<>>]
        /\ UNCHANGED <<sock, ready, cable, near>>
        /\ down' = [c \in Conns |-> IF near[c] /\ far[c] \notin {"no", "closing"}
                                    THEN Append(down[c], "fin") ELSE down[c]]
    BY <1>2 DEF RelayExit, daemon
  <2>2. \A c \in Conns : down[c] \in Seq(Downs) /\ Append(down[c], "fin") \in Seq(Downs)
    <3>1. "fin" \in Downs
      BY DEF Downs
    <3>2. \A c \in Conns : down[c] \in Seq(Downs)
      BY DEF CableInv, WireTypes
    <3>3. \A s \in Seq(Downs) : Append(s, "fin") \in Seq(Downs)
      BY <3>1
    <3> QED BY <3>2, <3>3
  <2>3. down' \in [Conns -> Seq(Downs)]
    BY <2>1, <2>2
  <2>4. up' \in [Conns -> Seq(Ups)]
    BY <2>1
  <2> QED BY <2>1, <2>3, <2>4 DEF CableInv, WireTypes, Ends, CableTold
<1> QED BY <1>1, <1>2

LEMMA DaemonCable == ASSUME IInv, CableInv, DaemonStep \/ DaemonRestart PROVE CableInv'
<1>1. CASE OnReady
  BY <1>1, HearsCable DEF OnReady, Downs, CableInv
<1>2. CASE OnHost
  BY <1>2, HearsCable DEF OnHost, Downs, daemon, CableInv, WireTypes
<1>3. ASSUME NEW state \in BOOLEAN, OnPlugged(state) PROVE CableInv'
  <2>1. ready' = ready /\ ready \in BOOLEAN
    BY <1>3 DEF OnPlugged, CableInv, WireTypes
  <2>2. Hears(Word(state)) /\ Heard /\ cable' = state /\ UNCHANGED <<relay, gadget, sock>>
    BY <1>3 DEF OnPlugged, Word
  <2>3. /\ Word(state) \in Downs \ {"fin"}
        /\ state = IF Word(state) = "in" THEN TRUE ELSE IF Word(state) = "out" THEN FALSE ELSE cable
    BY DEF Word, Downs
  <2> QED BY <2>1, <2>2, <2>3, HearsCable
<1>4. CASE OnRefused \/ OnClose \/ DaemonRestart
  BY <1>4, NearClosedCable DEF OnRefused, OnClose, DaemonRestart, Closed, Hears
<1> QED BY <1>1, <1>2, <1>3, <1>4 DEF DaemonStep

LEMMA CableStep == IInv /\ CableInv /\ [Next]_vars => CableInv'
<1> SUFFICES ASSUME IInv, CableInv, [Next]_vars PROVE CableInv'
  OBVIOUS
<1>1. CASE UNCHANGED vars
  BY <1>1 DEF vars, daemon, relay, gadget, net, CableInv, WireTypes, Ends, CableTold
<1>2. CASE DaemonStep \/ DaemonRestart
  BY <1>2, DaemonCable
<1>3. CASE DeviceReport \/ \E want \in BOOLEAN : SetPlugged(want)
  BY <1>3, DeviceReportCable, SetPluggedCable
<1>4. CASE HostReport \/ RelayStart \/ \E killed \in BOOLEAN : RelayExit(killed)
  BY <1>4, HostReportCable, RelayProcessCable
<1>5. ASSUME NEW c \in Conns, Dial(c) \/ HelloTimeout(c) \/ Break(c) PROVE CableInv'
  BY <1>5, DialCable, OtherCable
<1>6. ASSUME NEW c \in Conns, RelayStep(c) PROVE CableInv'
  BY <1>6, OtherCable, OnReportCable, OnHelloCable, OnPlugCable DEF RelayStep
<1> QED BY <1>1, <1>2, <1>3, <1>4, <1>5, <1>6 DEF Next

(* When nothing is on its way between a bridge and its relay, the bridge's   *)
(* idea of the cable is what the gadget's is, whatever became of the plugs   *)
(* asked for (remote-gadget-bridge.js:105, relay.js's answer in `finally`).  *)
THEOREM RelayCableAgrees == Spec => []CableAgrees
<1>1. IInv /\ CableInv => CableAgrees
  <2> SUFFICES ASSUME CableInv, Quiet, started PROVE cable = bound
    BY DEF CableAgrees
  <2>1. client # None /\ client = sock /\ down[client] = <<>> /\ up[client] = <<>>
    BY DEF Quiet, CableInv, Ends
  <2>2. ~Ending(<<>>) /\ ~SaysLast(<<>>, bound) /\ ~Asking(<<>>)
    BY DEF Ending, SaysLast, Asking
  <2> QED BY <2>1, <2>2 DEF CableInv, CableTold
<1>2. (IInv /\ CableInv) /\ [Next]_vars => (IInv /\ CableInv)'
  BY StepInv, CableStep
<1>3. Init => IInv /\ CableInv
  BY InitInv, CableInit
<1> QED BY <1>1, <1>2, <1>3, PTL DEF Spec
=============================================================================

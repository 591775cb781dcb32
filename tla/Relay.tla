-------------------------------- MODULE Relay --------------------------------
(***************************************************************************)
(* The device on another machine's USB port: a daemon's remote bridge       *)
(* (emulator/lib/remote-gadget-bridge.js) dials the relay on a Pi           *)
(* (emulator/bin/relay.js), which plugs that Pi's gadget for the one        *)
(* firmware connected to it and out for none.                               *)
(*                                                                          *)
(* Both are event loops, an event handler is one action.  Between them is a *)
(* TCP connection: an end closes by itself or finds the other's FIN behind  *)
(* what was sent before it; when the line breaks, what was on its way is    *)
(* lost and each end finds out in its own time.  The gadget under the relay *)
(* is Gadget's, down to the two things a plug decides: is it bound to the   *)
(* controller, and are its nodes open.                                      *)
(***************************************************************************)
EXTENDS Naturals, Sequences

CONSTANTS
  Conns,         (* connections there can be at once                         *)
  None,          (* no connection                                            *)
  MaxCommands,   (* bound: set-plugged commands in one behaviour             *)
  MaxFaults,     (* bound: breaks, exits, timeouts, failed plugs and unplugs *)
  MaxOnWire      (* bound: reports are sent onto shorter channels only       *)

ASSUME NoneAssumption == None \notin Conns
ASSUME BoundsAssumption == MaxCommands \in Nat /\ MaxFaults \in Nat /\ MaxOnWire \in Nat

VARIABLES
  tokenOk,   (* the daemon's machine has this relay's token                  *)
  sock,      (* the bridge's socket                                          *)
  waiting,   (* its dial or redial is due                                    *)
  ready,
  cable,
  stopped,   (* refused: no more dialling                                    *)
  relayUp,   (* the relay process runs                                       *)
  client,    (* the one firmware                                             *)
  started,   (* its gadget bridge has started                                *)
  bound,     (* the gadget is bound to the port: `plugged`                   *)
  served,    (* the relay has the gadget's nodes open                        *)
  jammed,    (* history: the last unplug could not take the cable out        *)
  near,      (* per connection, the daemon's end: is it open                 *)
  far,       (* ... the relay's: no, new (no hello yet), refused, firm       *)
             (* (accepted), closing (destroyed, its close event to come)     *)
  up, down,  (* ... messages to the relay, and to the daemon                 *)
  commands, faults

daemon == <<tokenOk, sock, waiting, ready, cable, stopped>>
relay == <<relayUp, client, started>>
gadget == <<bound, served, jammed>>
net == <<near, far, up, down>>
vars == <<daemon, relay, gadget, net, commands, faults>>

Ups == {"hello", "badhello", "plug", "unplug", "report", "fin"}
Downs == {"ready", "refused", "in", "out", "host", "fin"}

TypeOK ==
  /\ tokenOk \in BOOLEAN /\ sock \in Conns \cup {None} /\ waiting \in BOOLEAN
  /\ ready \in BOOLEAN /\ cable \in BOOLEAN /\ stopped \in BOOLEAN
  /\ relayUp \in BOOLEAN /\ client \in Conns \cup {None} /\ started \in BOOLEAN
  /\ bound \in BOOLEAN /\ served \in BOOLEAN /\ jammed \in BOOLEAN
  /\ near \in [Conns -> BOOLEAN]
  /\ far \in [Conns -> {"no", "new", "refused", "firm", "closing"}]
  /\ up \in [Conns -> Seq(Ups)] /\ down \in [Conns -> Seq(Downs)]
  /\ commands \in 0..MaxCommands /\ faults \in 0..MaxFaults

(* The daemon's bridge has just been started.  The gadget may be bound       *)
(* already: by its setup, or by a relay that was killed.                     *)
Init ==
  /\ tokenOk \in BOOLEAN /\ sock = None /\ waiting = TRUE
  /\ ready = FALSE /\ cable = FALSE /\ stopped = FALSE
  /\ relayUp \in BOOLEAN /\ client = None /\ started = FALSE
  /\ bound \in BOOLEAN /\ served = FALSE /\ jammed = FALSE
  /\ near = [c \in Conns |-> FALSE] /\ far = [c \in Conns |-> "no"]
  /\ up = [c \in Conns |-> <<>>] /\ down = [c \in Conns |-> <<>>]
  /\ commands = 0 /\ faults = 0

Fault == faults < MaxFaults /\ faults' = faults + 1

(* send(): nothing to a socket whose other end is closed. *)
Sent(channel, c, ms, toOpen) ==
  IF toOpen THEN [channel EXCEPT ![c] = @ \o ms] ELSE channel

(* The daemon's end of c closes; what was on its way to it is lost. *)
NearClosed(c) ==
  /\ near' = [near EXCEPT ![c] = FALSE]
  /\ up' = Sent(up, c, <<"fin">>, far[c] \notin {"no", "closing"})
  /\ down' = [down EXCEPT ![c] = <<>>]
  /\ UNCHANGED far

-----------------------------------------------------------------------------
(* The daemon: RemoteGadgetBridge *)

(* _dial, and its `connect` event: the hello.  With no relay listening the   *)
(* dial ends in `close` and the next timer: this state again.                *)
Dial(c) ==
  /\ waiting /\ ~stopped /\ relayUp
  /\ ~near[c] /\ far[c] = "no"
  /\ waiting' = FALSE
  /\ sock' = c
  /\ near' = [near EXCEPT ![c] = TRUE]
  /\ far' = [far EXCEPT ![c] = "new"]
  /\ up' = [up EXCEPT ![c] = <<IF tokenOk THEN "hello" ELSE "badhello">>]
  /\ down' = [down EXCEPT ![c] = <<>>]
  /\ UNCHANGED <<tokenOk, ready, cable, stopped, relay, gadget, commands, faults>>

(* The `close` event; RETRY_MS later the bridge dials again. *)
ClosedIfReady ==
  /\ waiting' = (ready /\ ~stopped')
  /\ ready' = FALSE /\ cable' = FALSE /\ sock' = None
  /\ NearClosed(sock)
Closed ==
  /\ waiting' = ~stopped'
  /\ ready' = FALSE /\ cable' = FALSE /\ sock' = None
  /\ NearClosed(sock)

Hears(m) == sock # None /\ down[sock] # <<>> /\ Head(down[sock]) = m
Heard == down' = [down EXCEPT ![sock] = Tail(@)] /\ UNCHANGED <<near, far, up>>

OnReady ==
  /\ Hears("ready")
  /\ ready' = TRUE
  /\ Heard
  /\ UNCHANGED <<tokenOk, sock, waiting, cable, stopped, relay, gadget, commands, faults>>

(* The relay's word on the cable. *)
OnPlugged(state) ==
  /\ Hears(IF state THEN "in" ELSE "out")
  /\ cable' = state
  /\ Heard
  /\ UNCHANGED <<tokenOk, sock, waiting, ready, stopped, relay, gadget, commands, faults>>

(* A host's report, for the firmware (HidQueue). *)
OnHost ==
  /\ Hears("host")
  /\ Heard
  /\ UNCHANGED <<daemon, relay, gadget, commands, faults>>

OnRefused ==
  /\ Hears("refused")
  /\ stopped' = TRUE
  /\ Closed
  /\ UNCHANGED <<tokenOk, relay, gadget, commands, faults>>

OnClose ==
  /\ Hears("fin")
  /\ UNCHANGED stopped
  /\ Closed
  /\ UNCHANGED <<tokenOk, relay, gadget, commands, faults>>

(* set-plugged: plug() and unplug() take the state at once; with no ready    *)
(* relay, or nothing to change, they do nothing.                             *)
SetPlugged(want) ==
  /\ commands < MaxCommands /\ commands' = commands + 1
  /\ ready /\ cable # want
  /\ cable' = want
  /\ up' = Sent(up, sock, <<IF want THEN "plug" ELSE "unplug">>, far[sock] \notin {"no", "closing"})
  /\ UNCHANGED <<tokenOk, sock, waiting, ready, stopped, relay, gadget, near, far, down, faults>>

(* The firmware sends a report: the bridge's stream listener. *)
DeviceReport ==
  /\ ready /\ Len(up[sock]) < MaxOnWire
  /\ up' = Sent(up, sock, <<"report">>, far[sock] \notin {"no", "closing"})
  /\ UNCHANGED <<daemon, relay, gadget, near, far, down, commands, faults>>

(* The daemon's process ends and pm2 starts it again; its machine may have   *)
(* been given the token meanwhile, or have lost it.                          *)
DaemonRestart ==
  /\ Fault
  /\ tokenOk' \in BOOLEAN
  /\ sock' = None /\ waiting' = TRUE /\ ready' = FALSE /\ cable' = FALSE /\ stopped' = FALSE
  /\ IF sock # None THEN NearClosed(sock) ELSE UNCHANGED net
  /\ UNCHANGED <<relay, gadget, commands>>

-----------------------------------------------------------------------------
(* The relay *)

(* What a plug or an unplug comes to.  A plug may fail to bind a controller  *)
(* ("noBus": the first one, to the real port, may by then have unbound it    *)
(* from another), or bind it and never get to open the nodes ("noNodes").    *)
(* The kernel may refuse an unplug's unbinding ("stuck"), when the nodes are *)
(* closed already.  Each is an exception that is logged, with the gadget     *)
(* left as it is.                                                            *)
Fates == {"done", "noBus", "noNodes", "stuck"}

Plug(want, fate) ==
  \/ /\ want /\ ~started
     /\ IF fate = "noBus" THEN bound' \in {bound, FALSE} ELSE bound' = TRUE
     /\ served' = (fate = "done")
     /\ started' = (fate = "done")
     /\ UNCHANGED jammed
  \/ /\ want /\ started /\ ~bound
     /\ bound' = (fate # "noBus")
     /\ served' = (fate = "done")
     /\ UNCHANGED <<started, jammed>>
  \/ /\ ~want /\ started /\ bound
     /\ bound' = (fate = "stuck") /\ jammed' = (fate = "stuck")
     /\ served' = FALSE
     /\ UNCHANGED started
  \/ /\ IF want THEN started /\ bound ELSE started => ~bound
     /\ UNCHANGED <<gadget, started>>

Failures(want) ==
  IF want /\ (started => ~bound) THEN {"noBus", "noNodes"}
  ELSE IF ~want /\ started /\ bound THEN {"stuck"} ELSE {}

Fated(want, fate) ==
  \/ fate = "done" /\ UNCHANGED faults
  \/ fate \in Failures(want) /\ Fault

(* The answer, sent also when that failed; only an unplug before the first   *)
(* plug has none.                                                            *)
ReplyIfDone(want, fate) ==
  IF fate = "done" /\ (started \/ want) THEN <<IF bound' THEN "in" ELSE "out">> ELSE <<>>
Reply(want, fate) ==
  IF started \/ want THEN <<IF bound' THEN "in" ELSE "out">> ELSE <<>>

(* The relay destroys socket c: what it has not read is lost, and its close  *)
(* event comes later.                                                        *)
Destroyed(f, c) == IF c = None THEN f ELSE [f EXCEPT ![c] = "closing"]
Unread(u, c) == IF c = None THEN u ELSE [u EXCEPT ![c] = <<>>]
Farewell(d, c) == IF c = None \/ ~near[c] THEN d ELSE [d EXCEPT ![c] = Append(@, "fin")]

NextFor(c) == relayUp /\ up[c] # <<>>
RelayReads(c, m) == NextFor(c) /\ Head(up[c]) = m

(* Whom a hello from c takes over from: "a second one is the first one       *)
(* back".                                                                    *)
Nobody(c) == None
Superseded(c) == IF client # c THEN client ELSE None

OnHello(c, fate) ==
  /\ far[c] = "new" /\ RelayReads(c, "hello")
  /\ client' = c
  /\ Plug(TRUE, fate) /\ Fated(TRUE, fate)
  /\ far' = Destroyed([far EXCEPT ![c] = "firm"], Superseded(c))
  /\ up' = Unread([up EXCEPT ![c] = Tail(@)], Superseded(c))
  /\ down' = Farewell(Sent(down, c, <<"ready">> \o Reply(TRUE, fate), near[c]), Superseded(c))
  /\ UNCHANGED <<daemon, relayUp, near, commands>>

(* Not this relay's token: told so, and the relay's half is ended. *)
OnBadHello(c) ==
  /\ far[c] = "new" /\ RelayReads(c, "badhello")
  /\ far' = [far EXCEPT ![c] = "refused"]
  /\ up' = [up EXCEPT ![c] = Tail(@)]
  /\ down' = Sent(down, c, <<"refused", "fin">>, near[c])
  /\ UNCHANGED <<daemon, relay, gadget, near, commands, faults>>

OnPlug(c, want, fate) ==
  /\ far[c] = "firm" /\ RelayReads(c, IF want THEN "plug" ELSE "unplug")
  /\ Plug(want, fate) /\ Fated(want, fate)
  /\ up' = [up EXCEPT ![c] = Tail(@)]
  /\ down' = IF client = None THEN down
             ELSE Sent(down, client, Reply(want, fate), near[client])
  /\ UNCHANGED <<daemon, relayUp, client, near, far, commands>>

(* A device report, for the gadget's queue (Gadget). *)
OnReport(c) ==
  /\ far[c] = "firm" /\ RelayReads(c, "report")
  /\ up' = [up EXCEPT ![c] = Tail(@)]
  /\ UNCHANGED <<daemon, relay, gadget, near, far, down, commands, faults>>

(* The `close` event of c, its own doing or the firmware's: the cable comes  *)
(* out, unless another firmware has taken over.                              *)
Closing(c) == relayUp /\ (far[c] = "closing" \/ (far[c] # "no" /\ RelayReads(c, "fin")))

FarClosed(c) ==
  /\ far' = [far EXCEPT ![c] = "no"]
  /\ up' = [up EXCEPT ![c] = <<>>]
  /\ down' = IF far[c] = "closing" THEN down ELSE Sent(down, c, <<"fin">>, near[c])
  /\ UNCHANGED near

GoneKeepingCable(c, fate) ==
  /\ fate = "done"
  /\ client' = IF client = c THEN None ELSE client
  /\ UNCHANGED <<gadget, started, faults>>
GoneUnchecked(c, fate) == client' = None /\ Plug(FALSE, fate) /\ Fated(FALSE, fate)
Gone(c, fate) ==
  \/ client = c /\ client' = None /\ Plug(FALSE, fate) /\ Fated(FALSE, fate)
  \/ client # c /\ fate = "done" /\ UNCHANGED <<client, gadget, started, faults>>

RelayClose(c, fate) ==
  /\ Closing(c)
  /\ FarClosed(c)
  /\ Gone(c, fate)
  /\ UNCHANGED <<daemon, relayUp, commands>>

(* No hello within 5 s. *)
HelloTimeout(c) ==
  /\ relayUp /\ far[c] = "new"
  /\ Fault
  /\ far' = [far EXCEPT ![c] = "closing"]
  /\ up' = Unread(up, c)
  /\ down' = Farewell(down, c)
  /\ UNCHANGED <<daemon, relay, gadget, near, commands>>

(* The Pi's computer writes a report: it goes to the connected firmware. *)
HostReport ==
  /\ relayUp /\ served /\ client # None /\ Len(down[client]) < MaxOnWire
  /\ down' = Sent(down, client, <<"host">>, near[client])
  /\ UNCHANGED <<daemon, relay, gadget, near, far, up, commands, faults>>

(* bye(), on a signal - or a kill, which leaves the gadget bound, as does an *)
(* unplug the kernel refuses.                                                *)
RelayExit(killed) ==
  /\ relayUp /\ Fault
  /\ relayUp' = FALSE /\ client' = None /\ started' = FALSE
  /\ bound' = (bound /\ (killed \/ ~started))
  /\ served' = FALSE /\ jammed' = FALSE
  /\ far' = [c \in Conns |-> "no"]
  /\ up' = [c \in Conns |-> <<>>]
  /\ down' = [c \in Conns |-> IF near[c] /\ far[c] \notin {"no", "closing"}
                              THEN Append(down[c], "fin") ELSE down[c]]
  /\ UNCHANGED <<daemon, near, commands>>

RelayStart ==
  /\ ~relayUp
  /\ relayUp' = TRUE
  /\ UNCHANGED <<daemon, client, started, gadget, net, commands, faults>>

(* The line breaks (external). *)
Break(c) ==
  /\ near[c] /\ far[c] \in {"new", "refused", "firm"}
  /\ Fault
  /\ up' = [up EXCEPT ![c] = <<"fin">>]
  /\ down' = [down EXCEPT ![c] = <<"fin">>]
  /\ UNCHANGED <<daemon, relay, gadget, near, far, commands>>

-----------------------------------------------------------------------------
DaemonStep == OnReady \/ OnHost \/ OnRefused \/ OnClose \/ \E s \in BOOLEAN : OnPlugged(s)

RelayStep(c) ==
  \/ OnBadHello(c) \/ OnReport(c)
  \/ \E fate \in Fates : OnHello(c, fate) \/ RelayClose(c, fate)
  \/ \E fate \in Fates, want \in BOOLEAN : OnPlug(c, want, fate)

Next ==
  \/ DaemonStep
  \/ DeviceReport \/ HostReport
  \/ DaemonRestart \/ RelayStart
  \/ \E b \in BOOLEAN : SetPlugged(b) \/ RelayExit(b)
  \/ \E c \in Conns : Dial(c) \/ RelayStep(c) \/ HelloTimeout(c) \/ Break(c)

Spec == Init /\ [][Next]_vars

(* Both event loops serve their events, and the redial timer expires.        *)
(* Nobody restarts the relay.                                                *)
FairSpec ==
  /\ Spec
  /\ WF_vars(DaemonStep)
  /\ WF_vars(\E c \in Conns : Dial(c))
  /\ \A c \in Conns : WF_vars(RelayStep(c))

-----------------------------------------------------------------------------
(* Properties *)

(* With no firmware connected, once the gadget bridge has started, whoever   *)
(* left and in whatever way: nobody reads the Pi's computer, and the cable   *)
(* is out - but for the one way it is left in, the kernel refusing to unbind *)
(* it when its firmware went (gadget-bridge.js:435, relay.js:61).  Nothing   *)
(* else does: no late close, takeover, failed plug or restart.               *)
CableNeedsFirmware ==
  relayUp /\ started /\ client = None => ~served /\ (bound => jammed)

(* "One firmware at a time" (relay.js:75): the relay listens to no accepted  *)
(* connection but its client's.  Its plugs, unplugs and reports are not      *)
(* otherwise told from the client's.                                         *)
OneFirmware == \A c \in Conns : far[c] = "firm" => c = client

(* When nothing is on its way, the bridge's idea of the cable is the Pi's,   *)
(* whatever became of the plugs and unplugs before: "its `plugged` corrects  *)
(* it if the Pi could not" (remote-gadget-bridge.js:105).  So a gadget bound *)
(* with its nodes closed can still be pulled, which is its only way out.     *)
Quiet == relayUp /\ ready /\ client = sock /\ up[sock] = <<>> /\ down[sock] = <<>>

CableAgrees == Quiet /\ started => cable = bound

(* A relay whose gadget bridge has started takes the cable out because its   *)
(* firmware asked, or when it has none: the late close of a superseded       *)
(* connection does not.                                                      *)
Asked == client # None /\ up[client] # <<>> /\ Head(up[client]) = "unplug"
CableHeld ==
  [][started /\ bound /\ ~bound' /\ relayUp' => Asked \/ \A c \in Conns : far'[c] # "firm"]_vars

(* "Dialled again every RETRY_MS until it is back" (remote-gadget-bridge.js: *)
(* 16): if the relay runs on and does not refuse, the bridge ends up as its  *)
(* client, however the connections before were lost.                         *)
ComesBack == <>[](~relayUp \/ stopped \/ (ready /\ client = sock))
=============================================================================

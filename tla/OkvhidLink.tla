----------------------------- MODULE OkvhidLink ------------------------------
(***************************************************************************)
(* The emulator's end of a Windows driver pipe: one Link of emulator/lib/   *)
(* okvhid-bridge.js, with the daemon's commands to it, over WinPipe.        *)
(*                                                                          *)
(* JavaScript runs one handler at a time: a handler is one action.  A       *)
(* socket's `connect` and `close` are events of their own; a Link may have  *)
(* more sockets than the one it knows of, and all of them call its          *)
(* handlers.  A connect to a busy pipe waits for its instance (libuv), for  *)
(* 30 s at most.                                                            *)
(***************************************************************************)
EXTENDS WinPipe

VARIABLES
  bridge,      (* the daemon's bridge has started                            *)
  sock,        (* _sock                                                      *)
  connected,
  timer,       (* _timer                                                     *)
  closed,      (* _closed                                                    *)
  ss           (* per socket: free, pending (the pipe is busy), linked (its  *)
               (* connect event to come), open, closing (close event to come)*)

link == <<bridge, sock, connected, timer, closed, ss>>
vars == <<driver, link>>

TypeOK ==
  /\ PipeTypeOK
  /\ bridge \in BOOLEAN /\ sock \in Socks \cup {None}
  /\ connected \in BOOLEAN /\ timer \in BOOLEAN /\ closed \in BOOLEAN
  /\ ss \in [Socks -> {"free", "pending", "linked", "open", "closing"}]

(* The daemon is about to start its bridge. *)
Init ==
  /\ PipeInit
  /\ bridge = FALSE /\ sock = None /\ connected = FALSE /\ timer = FALSE /\ closed = FALSE
  /\ ss = [s \in Socks |-> "free"]

(* net.connect on the pipe's path: no such name, connected, or busy. *)
Dialled(s) ==
  /\ s \in bounds.socks /\ ss[s] = "free"
  /\ IF inst # None /\ peer = None
     THEN peer' = s /\ ss' = [ss EXCEPT ![s] = "linked"]
     ELSE /\ ss' = [ss EXCEPT ![s] = IF inst = None THEN "closing" ELSE "pending"]
          /\ UNCHANGED peer

(* A socket is destroyed: what it wrote can still be read, nothing sent to   *)
(* it will be.                                                               *)
HungUp(s) ==
  IF peer = s
  THEN /\ peer' = Gone /\ out' = <<>>
       /\ to' = [to EXCEPT ![Gone] = to[s], ![s] = <<>>]
  ELSE /\ to' = [to EXCEPT ![s] = <<>>]
       /\ UNCHANGED <<peer, out>>

-----------------------------------------------------------------------------
(* Link *)

(* _connect *)
Connect(s) ==
  /\ Dialled(s)
  /\ sock' = s
  /\ UNCHANGED <<pnp, conn, pc, inst, out, to>>

RetryTimer(s) ==
  /\ timer
  /\ timer' = FALSE
  /\ Connect(s)
  /\ UNCHANGED <<bridge, connected, closed>>

(* The `connect` event. *)
OnConnect(s) ==
  /\ ss[s] = "linked"
  /\ ss' = [ss EXCEPT ![s] = "open"]
  /\ connected' = TRUE
  /\ UNCHANGED <<driver, bridge, sock, timer, closed>>

(* Data: _feed and _dispatch; a report goes to the firmware (HidQueue). *)
OnData(s) ==
  /\ ss[s] = "open" /\ peer = s /\ out # <<>>
  /\ out' = Tail(out)
  /\ UNCHANGED <<pnp, conn, pc, inst, peer, to, link>>

(* The `close` event, after an error, a server's end or a destroy: retry, if *)
(* none is pending.                                                          *)
Over(s) == ss[s] = "closing" \/ (ss[s] = "open" /\ peer # s)

RetryIfUp == timer' = (timer \/ (connected /\ ~closed))
ScheduleRetry == timer' = (timer \/ ~closed)

OnClose(s) ==
  /\ Over(s)
  /\ ss' = [ss EXCEPT ![s] = "free"]
  /\ connected' = FALSE
  /\ sock' = None
  /\ ScheduleRetry
  /\ UNCHANGED <<driver, bridge, closed>>

(* libuv's wait for a busy pipe: the instance is free, or it gives up. *)
PendingConnects(s) ==
  /\ ss[s] = "pending"
  /\ inst # None /\ peer = None
  /\ peer' = s
  /\ ss' = [ss EXCEPT ![s] = "linked"]
  /\ UNCHANGED <<pnp, conn, pc, inst, out, to, bridge, sock, connected, timer, closed>>

PendingFails(s) ==
  /\ ss[s] = "pending"
  /\ ss' = [ss EXCEPT ![s] = "closing"]
  /\ UNCHANGED <<driver, bridge, sock, connected, timer, closed>>

(* send and sendUnplug, to the socket the Link knows of. *)
Write(frame) ==
  /\ connected /\ sock # None /\ \A c \in Clients : to[c] = <<>>
  /\ ss[sock] \in {"pending", "linked"} \/ (ss[sock] = "open" /\ peer = sock)
  /\ to' = [to EXCEPT ![sock] = <<frame>>]
  /\ UNCHANGED <<pnp, conn, pc, inst, peer, out, link>>

-----------------------------------------------------------------------------
(* OkvhidBridge, at the daemon's command *)

(* start(): it throws when there is no pipe of any interface, and the daemon *)
(* goes on without a bridge.                                                 *)
StartBridge(s) ==
  /\ ~bridge
  /\ bridge' = TRUE /\ closed' = FALSE
  /\ Connect(s)
  /\ UNCHANGED <<connected, timer>>

(* unplug(): close(). *)
Unplug ==
  /\ bridge
  /\ connected \/ sock # None
  /\ closed' = TRUE /\ timer' = FALSE /\ connected' = FALSE /\ sock' = None
  /\ IF sock = None THEN UNCHANGED <<ss, peer, out, to>>
     ELSE ss' = [ss EXCEPT ![sock] = "closing"] /\ HungUp(sock)
  /\ UNCHANGED <<pnp, conn, pc, inst, bridge>>

(* plug(): start(), with whatever timer is pending left so. *)
Plug(s) ==
  /\ bridge
  /\ closed \/ (~connected /\ sock = None)
  /\ closed' = FALSE
  /\ Connect(s)
  /\ UNCHANGED <<bridge, connected, timer>>

(* The daemon is killed; pm2 starts it again. *)
Killed ==
  /\ bridge' = FALSE /\ sock' = None /\ connected' = FALSE /\ timer' = FALSE /\ closed' = FALSE
  /\ ss' = [s \in Socks |-> "free"]
  /\ IF peer \in Socks THEN HungUp(peer) ELSE UNCHANGED <<peer, out, to>>
  /\ UNCHANGED <<pnp, conn, pc, inst>>

-----------------------------------------------------------------------------
LinkStep(s) == OnConnect(s) \/ OnData(s) \/ OnClose(s)

Next ==
  \/ DriverNext /\ UNCHANGED link
  \/ \E s \in Socks :
       \/ LinkStep(s) \/ RetryTimer(s) \/ PendingConnects(s) \/ PendingFails(s)
       \/ StartBridge(s) \/ Plug(s)
  \/ \E frame \in {"input", "unplug"} : Write(frame)
  \/ Unplug \/ Killed

Spec == Init /\ [][Next]_vars

(* The driver's threads run (WinPipe); the event loop serves its events and  *)
(* timers, and libuv's wait ends.                                            *)
FairSpec ==
  /\ Spec
  /\ DriverFairness
  /\ \A s \in Socks : WF_vars(LinkStep(s)) /\ WF_vars(PendingConnects(s) \/ PendingFails(s))
  /\ WF_vars(\E s \in Socks : RetryTimer(s))

-----------------------------------------------------------------------------
(* Properties *)

(* "This reconnects on its own when it comes back" (okvhid-bridge.js:31): a  *)
(* device that stays, with the link not unplugged and no delivery that never *)
(* ends, has a client again and again, so what the host writes reaches the   *)
(* firmware.                                                                 *)
Settled(d) == present[d] = "yes" /\ thread[d] /\ bridge /\ ~closed
Reconnects ==
  \A d \in Devs :
    <>[]Settled(d) /\ []<>(pc[d] # "deliver") => []<>(inst = d /\ peer \in Socks)
=============================================================================

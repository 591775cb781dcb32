------------------------------ MODULE IpcLink -------------------------------
(***************************************************************************)
(* The socket between the emulator daemon and its GUI.  The GUI listens     *)
(* (lib/ipc-host.js) and the daemon dials (lib/ipc-peer.js), because the    *)
(* daemon is the process that keeps being restarted; what the device says   *)
(* while nobody is attached is held back and flushed on the next connect.   *)
(*                                                                          *)
(* Both programs are event loops: an event handler is one action.  Between  *)
(* them a connection has an end on each side and messages on the wire; an   *)
(* end learns of the other's closing by an event of its own, later, and may *)
(* be superseded before that.  A message is its number, `ready` included.   *)
(***************************************************************************)
EXTENDS Naturals, Sequences

CONSTANTS
  Conns,        (* connections there can be at once                          *)
  MaxPending,   (* IpcPeer.MAX_PENDING                                       *)
  MaxSaid       (* bound: messages in one behaviour                          *)

ASSUME SizesAssumption == MaxPending \in Nat \ {0} /\ MaxSaid \in Nat

CONSTANT None   (* no connection *)
ASSUME NoneAssumption == None \notin Conns

VARIABLES
  alive,      (* the daemon runs                                             *)
  sock,       (* the peer's socket                                           *)
  connected,  (* its `connect` event has come                                *)
  writable,   (* ... and not yet its end                                     *)
  pending,    (* what is held back                                           *)
  timers,     (* reconnect timers outstanding                                *)
  hostUp,     (* the GUI runs and listens                                    *)
  device,     (* the host's idea of the connected emulator                   *)
  backlog,    (* the listening socket's: connections to accept, in order     *)
  peerEnd,    (* per connection: free, dialing, refused, open, closed        *)
  hostEnd,    (* ... queued (to be accepted), open, closing (destroyed, its  *)
              (* `close` event to come), closed                              *)
  wire,       (* per connection: messages on their way to the host           *)
  said,       (* history: messages sent so far                               *)
  heard       (* history: the last message the host received                 *)

peer == <<alive, sock, connected, writable, pending, timers>>
gui == <<hostUp, device, backlog>>
net == <<peerEnd, hostEnd, wire>>
ipcVars == <<peer, gui, net, said, heard>>

IpcTypeOK ==
  /\ alive \in BOOLEAN
  /\ sock \in Conns \cup {None}
  /\ connected \in BOOLEAN
  /\ writable \in BOOLEAN
  /\ pending \in Seq(1..MaxSaid) /\ Len(pending) <= MaxPending
  /\ timers \in Nat
  /\ hostUp \in BOOLEAN
  /\ device \in Conns \cup {None}
  /\ backlog \in Seq(Conns)
  /\ peerEnd \in [Conns -> {"free", "dialing", "refused", "open", "closed"}]
  /\ hostEnd \in [Conns -> {"free", "queued", "open", "closing", "closed"}]
  /\ wire \in [Conns -> Seq(1..MaxSaid)]
  /\ said \in 0..MaxSaid
  /\ heard \in 0..MaxSaid

(* The daemon starts dialling; the GUI may or may not be there. *)
IpcInit ==
  /\ alive = TRUE
  /\ sock = None /\ connected = FALSE /\ writable = FALSE
  /\ pending = <<>>
  /\ timers = 1
  /\ hostUp \in BOOLEAN
  /\ device = None
  /\ backlog = <<>>
  /\ peerEnd = [c \in Conns |-> "free"]
  /\ hostEnd = [c \in Conns |-> "free"]
  /\ wire = [c \in Conns |-> <<>>]
  /\ said = 0 /\ heard = 0

(* A connection both ends have closed is forgotten; what was on its wire is  *)
(* lost as soon as the host's end is.                                        *)
NetBecomes(p, h, w) ==
  LET over(c) == p[c] \in {"free", "closed"} /\ h[c] \in {"free", "closed"}
  IN /\ peerEnd' = [c \in Conns |-> IF over(c) THEN "free" ELSE p[c]]
     /\ hostEnd' = [c \in Conns |-> IF over(c) THEN "free" ELSE h[c]]
     /\ wire' = [c \in Conns |-> IF h[c] \in {"queued", "open"} THEN w[c] ELSE <<>>]

FarEndGone(c) == hostEnd[c] \in {"closing", "closed"}

-----------------------------------------------------------------------------
(* The daemon: IpcPeer *)

(* _open.  With nobody listening the connection is refused. *)
Open(c) ==
  /\ alive /\ timers > 0
  /\ peerEnd[c] = "free" /\ hostEnd[c] = "free"
  /\ timers' = timers - 1
  /\ sock' = c
  /\ peerEnd' = [peerEnd EXCEPT ![c] = IF hostUp THEN "dialing" ELSE "refused"]
  /\ hostEnd' = [hostEnd EXCEPT ![c] = IF hostUp THEN "queued" ELSE "closed"]
  /\ backlog' = IF hostUp THEN Append(backlog, c) ELSE backlog
  /\ UNCHANGED <<alive, connected, writable, pending, hostUp, device, wire, said, heard>>

(* What a connection starts with: what was held back, then `ready` (which    *)
(* is left out once MaxSaid messages have been counted).                     *)
Ready == IF said < MaxSaid THEN <<said + 1>> ELSE <<>>
ReadyFirst == Ready \o pending
Greeting == pending \o Ready

(* The `connect` event.  The far end may be gone by then, and with it what   *)
(* is written now.                                                           *)
Connect(c) ==
  /\ alive /\ sock = c
  /\ peerEnd[c] = "dialing"
  /\ connected' = TRUE /\ writable' = TRUE
  /\ pending' = <<>>
  /\ said' = said + Len(Ready)
  /\ peerEnd' = [peerEnd EXCEPT ![c] = "open"]
  /\ wire' = IF FarEndGone(c) THEN wire ELSE [wire EXCEPT ![c] = @ \o Greeting]
  /\ UNCHANGED <<alive, sock, timers, gui, hostEnd, heard>>

(* What is held back is bounded by dropping the NEWEST. *)
Hold(n) ==
  pending' = IF Len(pending) < MaxPending THEN Append(pending, n) ELSE pending

(* _send.  A write to a connection whose far end is gone is lost; the peer   *)
(* does not know yet.                                                        *)
Say ==
  /\ alive /\ said < MaxSaid
  /\ said' = said + 1
  /\ IF sock # None /\ connected /\ writable
     THEN /\ wire' = IF FarEndGone(sock) THEN wire
                     ELSE [wire EXCEPT ![sock] = Append(@, said + 1)]
          /\ UNCHANGED pending
     ELSE /\ Hold(said + 1)
          /\ UNCHANGED wire
  /\ UNCHANGED <<alive, sock, connected, writable, timers, gui, peerEnd, hostEnd, heard>>

(* The far end's FIN: the socket stops being writable before it closes. *)
PeerEnded(c) ==
  /\ alive /\ sock = c /\ writable
  /\ FarEndGone(c)
  /\ writable' = FALSE
  /\ UNCHANGED <<alive, sock, connected, pending, timers, gui, net, said, heard>>

(* The `close` event, after a refusal too: dial again, later. *)
PeerClosed(c) ==
  /\ alive /\ sock = c /\ ~writable
  /\ peerEnd[c] \in {"refused", "open"} /\ FarEndGone(c)
  /\ connected' = FALSE
  /\ sock' = None
  /\ timers' = timers + 1
  /\ NetBecomes([peerEnd EXCEPT ![c] = "closed"], hostEnd, wire)
  /\ UNCHANGED <<alive, writable, pending, gui, said, heard>>

(* The daemon dies - close() and SIGKILL, or a crash - and is respawned. *)
Die ==
  /\ alive
  /\ alive' = FALSE
  /\ sock' = None /\ connected' = FALSE /\ writable' = FALSE
  /\ pending' = <<>>
  /\ timers' = 0
  /\ NetBecomes([c \in Conns |-> IF c = sock THEN "closed" ELSE peerEnd[c]], hostEnd, wire)
  /\ UNCHANGED <<gui, said, heard>>

Respawn ==
  /\ ~alive
  /\ alive' = TRUE
  /\ timers' = 1
  /\ UNCHANGED <<sock, connected, writable, pending, gui, net, said, heard>>

-----------------------------------------------------------------------------
(* The GUI: IpcHost *)

(* _onDevice: one emulator at a time, a new connection supersedes the old. *)
Supersede(c) ==
  [d \in Conns |-> IF d = c THEN "open" ELSE IF d = device THEN "closing" ELSE hostEnd[d]]

Accept(c) ==
  /\ hostUp /\ backlog # <<>> /\ c = Head(backlog)
  /\ backlog' = Tail(backlog)
  /\ device' = c
  /\ NetBecomes(peerEnd, Supersede(c), wire)
  /\ UNCHANGED <<peer, hostUp, said, heard>>

(* `data`: a whole frame (a partial one dies with its socket). *)
Frame(c) ==
  /\ hostUp /\ hostEnd[c] = "open" /\ wire[c] # <<>>
  /\ heard' = Head(wire[c])
  /\ wire' = [wire EXCEPT ![c] = Tail(@)]
  /\ UNCHANGED <<peer, gui, peerEnd, hostEnd, said>>

(* `close` (or `error`) on a socket whose far end went away or that was      *)
(* superseded: only the current device's counts as a disconnect.             *)
DropAny(c) == None
Drop(c) == IF device = c THEN None ELSE device

HostClosed(c) ==
  /\ hostUp
  /\ \/ hostEnd[c] = "closing"
     \/ hostEnd[c] = "open" /\ peerEnd[c] = "closed" /\ wire[c] = <<>>
  /\ device' = Drop(c)
  /\ NetBecomes(peerEnd, [hostEnd EXCEPT ![c] = "closed"], wire)
  /\ UNCHANGED <<peer, hostUp, backlog, said, heard>>

(* The GUI is closed, and opened again. *)
HostQuit ==
  /\ hostUp
  /\ hostUp' = FALSE
  /\ device' = None
  /\ backlog' = <<>>
  /\ NetBecomes(peerEnd, [c \in Conns |-> IF hostEnd[c] = "free" THEN "free" ELSE "closed"], wire)
  /\ UNCHANGED <<peer, said, heard>>

HostStart ==
  /\ ~hostUp
  /\ hostUp' = TRUE
  /\ UNCHANGED <<peer, device, backlog, net, said, heard>>

-----------------------------------------------------------------------------
PeerStep == \E c \in Conns : Open(c) \/ Connect(c) \/ PeerEnded(c) \/ PeerClosed(c)
HostStep == \E c \in Conns : Accept(c) \/ Frame(c) \/ HostClosed(c)

IpcNext == PeerStep \/ HostStep \/ Say \/ Die \/ Respawn \/ HostQuit \/ HostStart

IpcSpec == IpcInit /\ [][IpcNext]_ipcVars

(* Both event loops run.  Nothing makes anybody speak, die or come back.     *)
IpcFairSpec == IpcSpec /\ WF_ipcVars(PeerStep) /\ WF_ipcVars(HostStep)

-----------------------------------------------------------------------------
(* Properties *)

(* Whatever is dropped, superseded, restarted or buffered, the GUI never     *)
(* hears an older message after a newer one; so `ready` and the LED state in *)
(* it are newer than everything flushed before them (ipc-peer.js:63-77).     *)
HeardInOrder == [][heard' # heard => heard' > heard]_ipcVars

(* With the GUI up and the daemon alive for good, they end up attached to    *)
(* each other, on the same connection.                                       *)
Reattached ==
  <>[](hostUp /\ alive) => <>[](connected /\ sock # None /\ device = sock)
=============================================================================

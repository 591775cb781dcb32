------------------------------- MODULE Gadget -------------------------------
(***************************************************************************)
(* One interface of the USB gadget bridge, emulator/lib/gadget-bridge.js:   *)
(* reports the firmware sends are queued in the daemon, written to a        *)
(* non-blocking /dev/hidgN, and retried from a timer while the kernel's     *)
(* endpoint is full.  A host that takes nothing for long enough is counted  *)
(* absent, and then gets no queue at all.  Under the queue is a cable:      *)
(* unplug() and plug() unbind and bind the gadget, the host may drop off    *)
(* the bus by itself, and the daemon may be shut down and respawned.        *)
(*                                                                          *)
(* JavaScript runs one handler at a time, so a handler is one action; the   *)
(* kernel and the host (external) run between handlers.  A report is its    *)
(* number.                                                                  *)
(***************************************************************************)
EXTENDS Naturals, Sequences

CONSTANTS
  MaxQueue,    (* MAX_TX_QUEUE                                               *)
  MinTries,    (* STALL_MIN_TRIES                                            *)
  EpDepth,     (* reports the kernel's IN endpoint holds                     *)
  MaxReports   (* bound: reports sent in one behaviour                       *)

ASSUME SizesAssumption ==
  /\ MaxQueue \in Nat \ {0}
  /\ MinTries \in Nat \ {0}
  /\ EpDepth \in Nat \ {0}
  /\ MaxReports \in Nat

VARIABLES
  alive,         (* the daemon process runs                                  *)
  bridge,        (* it has a bridge: the bridge's start() did not throw        *)
  udc,           (* the gadget is bound: `plugged`                           *)
  link,          (* the host has the device configured                       *)
  opened,        (* the bridge has an open GadgetDevice for the interface    *)
  txQueue,       (* its queue                                                *)
  retryPending,  (* its timer guard                                          *)
  timers,        (* its timers outstanding in the event loop                 *)
  stalled,       (* stalledSince: no, young, or old - over STALL_DROP_MS ago *)
  stallTries,    (* counted up to MinTries, which is all that is tested      *)
  hostAbsent,
  ep,            (* the kernel endpoint: reports the host has yet to read    *)
  got,           (* history: the last report the host read; 0: none          *)
  sent,          (* history: reports sent so far                             *)
  cut,           (* history: `sent` when the host was last lost              *)
  tried,         (* history: the daemon has tried a write, or let go, since  *)
  refused,       (* history: writes refused in a row (up to MinTries)        *)
  judged,        (* history: `refused` when the host was counted absent      *)
  thrown         (* history: an exception has left send()                    *)

device == <<opened, txQueue, retryPending, timers, stalled, stallTries, hostAbsent>>
cable == <<alive, bridge, udc, link>>
vars == <<cable, device, ep, got, sent, cut, tried, refused, judged, thrown>>

TypeOK ==
  /\ alive \in BOOLEAN
  /\ bridge \in BOOLEAN
  /\ udc \in BOOLEAN
  /\ link \in BOOLEAN
  /\ opened \in BOOLEAN
  /\ txQueue \in Seq(1..MaxReports) /\ Len(txQueue) <= MaxQueue
  /\ retryPending \in BOOLEAN
  /\ timers \in Nat
  /\ stalled \in {"no", "young", "old"}
  /\ stallTries \in 0..MinTries
  /\ hostAbsent \in BOOLEAN
  /\ ep \in Seq(1..MaxReports) /\ Len(ep) <= EpDepth
  /\ got \in 0..MaxReports
  /\ sent \in 0..MaxReports
  /\ cut \in 0..MaxReports
  /\ tried \in BOOLEAN
  /\ refused \in 0..MinTries
  /\ judged \in 0..MinTries
  /\ thrown \in BOOLEAN

(* The daemon has started, bound the gadget and opened the node. *)
Init ==
  /\ alive = TRUE /\ bridge = TRUE /\ udc = TRUE /\ link = FALSE
  /\ opened = TRUE
  /\ txQueue = <<>>
  /\ retryPending = FALSE
  /\ timers = 0
  /\ stalled = "no"
  /\ stallTries = 0
  /\ hostAbsent = FALSE
  /\ ep = <<>>
  /\ got = 0
  /\ sent = 0
  /\ cut = 0
  /\ tried = TRUE
  /\ refused = 0
  /\ judged = 0
  /\ thrown = FALSE

UpTo(limit, n) == IF n < limit THEN n ELSE limit

-----------------------------------------------------------------------------
(* Sending *)

(* How many of q's reports the loop of _drain writes before the endpoint is  *)
(* full; with the host gone the first write fails with ESHUTDOWN.            *)
Fits(q) == IF link THEN UpTo(EpDepth - Len(ep), Len(q)) ELSE 0

(* A write was refused (EAGAIN) after k were taken: the try is counted, and  *)
(* either the host is given up, queue and all, or the one timer is armed.    *)
Stalled(k) == IF k > 0 \/ stalled = "no" THEN "young" ELSE stalled
TriesUnreset(k) == UpTo(MinTries, stallTries + 1)
Tries(k) == UpTo(MinTries, (IF k > 0 THEN 0 ELSE stallTries) + 1)
Hopeless(k) == Stalled(k) = "old" /\ Tries(k) >= MinTries

GiveUpKeeping(rest) ==
  /\ txQueue' = rest
  /\ hostAbsent' = TRUE
  /\ stalled' = "no"
  /\ stallTries' = 0
  /\ retryPending' = FALSE
GiveUp(rest) ==
  /\ txQueue' = <<>>
  /\ hostAbsent' = TRUE
  /\ stalled' = "no"
  /\ stallTries' = 0
  /\ retryPending' = FALSE

Retry(rest, k) ==
  /\ txQueue' = rest
  /\ stalled' = Stalled(k)
  /\ stallTries' = Tries(k)
  /\ retryPending' = TRUE
  /\ UNCHANGED hostAbsent

(* All is written, or the host is gone and the rest is discarded. *)
DiscardNothing(rest) == txQueue' = rest
Discard(rest) == txQueue' = <<>>

(* _drain over queue q with t timers outstanding and none guarding it. *)
Drain(q, t) ==
  LET k == Fits(q)
      rest == SubSeq(q, k + 1, Len(q))
  IN /\ ep' = ep \o SubSeq(q, 1, k)
     /\ IF rest = <<>> \/ ~link
        THEN /\ Discard(rest)
             /\ stalled' = IF k > 0 THEN "no" ELSE stalled
             /\ stallTries' = IF k > 0 THEN 0 ELSE stallTries
             /\ refused' = IF k > 0 THEN 0 ELSE refused
             /\ retryPending' = FALSE
             /\ timers' = t
             /\ UNCHANGED <<hostAbsent, judged>>
        ELSE /\ refused' = UpTo(MinTries, (IF k > 0 THEN 0 ELSE refused) + 1)
             /\ IF Hopeless(k)
                THEN GiveUp(rest) /\ timers' = t /\ judged' = refused'
                ELSE Retry(rest, k) /\ timers' = t + 1 /\ UNCHANGED judged
     /\ tried' = (tried \/ ~link)
     /\ UNCHANGED <<opened, thrown>>

(* The report's place in the queue; a full queue loses its oldest. *)
Enqueued(n) ==
  Append(IF Len(txQueue) >= MaxQueue THEN Tail(txQueue) ELSE txQueue, n)

(* destroy(), and what a new GadgetDevice starts with; a timer of the old     *)
(* object finds its fd null and does nothing.                                *)
Fresh ==
  /\ txQueue' = <<>>
  /\ retryPending' = FALSE
  /\ timers' = 0
  /\ stalled' = "no"
  /\ stallTries' = 0
  /\ hostAbsent' = FALSE

(* The process dies, and its memory with it. *)
Crash ==
  /\ alive' = FALSE
  /\ bridge' = FALSE
  /\ opened' = FALSE
  /\ Fresh

(* With the host counted absent a report is offered once.  A refusal drops   *)
(* it; any other error leaves send() as an exception nothing in the daemon   *)
(* catches.  The addon's callback then ends: newer runtimes only warn, older *)
(* ones end the process.                                                     *)
Offer(n) ==
  \/ /\ link /\ Len(ep) < EpDepth
     /\ ep' = Append(ep, n)
     /\ hostAbsent' = FALSE
     /\ refused' = 0
     /\ UNCHANGED <<alive, bridge, opened, txQueue, retryPending, timers, stalled, stallTries,
                    tried, thrown>>
  \/ /\ link /\ Len(ep) >= EpDepth
     /\ UNCHANGED <<alive, bridge, device, ep, tried, refused, thrown>>
  \/ /\ ~link
     /\ Crash \/ UNCHANGED <<alive, bridge, device>>
     /\ thrown' = TRUE /\ tried' = TRUE
     /\ UNCHANGED <<ep, refused>>

(* One timer outstanding at a time: a pending one is waited for. *)
MayDrain == ~retryPending

(* The firmware sent a report: the bridge's stream listener. *)
Send ==
  /\ alive
  /\ sent < MaxReports
  /\ sent' = sent + 1
  /\ \/ ~opened /\ UNCHANGED <<alive, bridge, device, ep, tried, refused, judged, thrown>>
     \/ opened /\ hostAbsent /\ Offer(sent + 1) /\ UNCHANGED judged
     \/ opened /\ ~hostAbsent /\ MayDrain /\ Drain(Enqueued(sent + 1), timers)
        /\ UNCHANGED <<alive, bridge>>
     \/ /\ opened /\ ~hostAbsent /\ ~MayDrain
        /\ txQueue' = Enqueued(sent + 1)
        /\ UNCHANGED <<alive, bridge, opened, retryPending, timers, stalled, stallTries,
                       hostAbsent, ep, tried, refused, judged, thrown>>
  /\ UNCHANGED <<udc, link, got, cut>>

(* The 1 ms timer. *)
RetryUncleared ==
  /\ alive /\ timers > 0
  /\ timers' = timers - 1
  /\ UNCHANGED <<cable, opened, txQueue, retryPending, stalled, stallTries,
                 hostAbsent, ep, got, sent, cut, tried, refused, judged, thrown>>
RetryTimer ==
  /\ alive /\ timers > 0
  /\ Drain(txQueue, timers - 1)
  /\ UNCHANGED <<cable, got, sent, cut>>

(* STALL_DROP_MS go by. *)
StallAges ==
  /\ stalled = "young"
  /\ stalled' = "old"
  /\ UNCHANGED <<cable, opened, txQueue, retryPending, timers, stallTries, hostAbsent,
                 ep, got, sent, cut, tried, refused, judged, thrown>>

-----------------------------------------------------------------------------
(* The cable *)

(* The gadget is off the bus, with what was queued on either side of it.     *)
Unbound == udc' = FALSE /\ link' = FALSE /\ ep' = <<>> /\ cut' = sent /\ tried' = TRUE

(* The UDC write may fail: an exception, with the devices already gone. *)
Unplug(unbound) ==
  /\ bridge /\ udc
  /\ opened' = FALSE
  /\ Fresh
  /\ IF unbound THEN Unbound ELSE UNCHANGED <<udc, link, ep, cut, tried>>
  /\ refused' = 0
  /\ UNCHANGED <<alive, bridge, got, sent, judged, thrown>>

(* plug() binds and then opens the node, retrying while udev is late.  A     *)
(* bind that fails is not noticed; when the opening is given up after a bind *)
(* that did not, the gadget stays bound with nobody serving it.              *)
Attach(bound, isOpen) ==
  /\ isOpen => bound
  /\ opened' = isOpen
  /\ Fresh
  /\ UNCHANGED <<link, ep, got, sent, cut, tried, refused, judged, thrown>>

Plug(bound, isOpen) ==
  /\ bridge /\ ~udc
  /\ udc' = bound
  /\ Attach(udc', isOpen)
  /\ UNCHANGED <<alive, bridge>>

(* The daemon's shutdown: off the bus - if it has a bridge, and the UDC      *)
(* write does not fail - and then SIGKILL.                                   *)
Shutdown(unbound) ==
  /\ alive
  /\ unbound => bridge /\ udc
  /\ Crash
  /\ IF unbound THEN Unbound ELSE UNCHANGED <<udc, link, ep, cut, tried>>
  /\ refused' = 0
  /\ UNCHANGED <<got, sent, judged, thrown>>

(* pm2 starts the daemon again; start() binds the gadget unless it still is. *)
(* If it throws, the daemon goes on without a bridge.                        *)
Respawn(bound, isOpen) ==
  /\ ~alive
  /\ alive' = TRUE
  /\ bridge' = isOpen
  /\ udc' = (udc \/ bound)
  /\ Attach(udc', isOpen)

(* The host: it configures the device, polls the endpoint, or leaves the bus *)
(* - a reset, a dead hub - which empties the endpoint.                       *)
HostAttach ==
  /\ udc /\ ~link
  /\ link' = TRUE
  /\ UNCHANGED <<alive, bridge, udc, device, ep, got, sent, cut, tried, refused, judged, thrown>>

HostRead ==
  /\ link /\ ep # <<>>
  /\ got' = Head(ep)
  /\ ep' = Tail(ep)
  /\ UNCHANGED <<cable, device, sent, cut, tried, refused, judged, thrown>>

HostDetach ==
  /\ link
  /\ link' = FALSE
  /\ ep' = <<>>
  /\ cut' = sent /\ tried' = FALSE
  /\ refused' = 0
  /\ UNCHANGED <<alive, bridge, udc, device, got, sent, judged, thrown>>

-----------------------------------------------------------------------------
Next ==
  \/ Send
  \/ RetryTimer
  \/ StallAges
  \/ \E unbound \in BOOLEAN : Unplug(unbound) \/ Shutdown(unbound)
  \/ \E bound, isOpen \in BOOLEAN : Plug(bound, isOpen) \/ Respawn(bound, isOpen)
  \/ HostAttach
  \/ HostRead
  \/ HostDetach

Spec == Init /\ [][Next]_vars

(* The event loop serves its timers, and time passes.  The host owes         *)
(* nothing: it may never read.                                               *)
FairSpec == Spec /\ WF_vars(RetryTimer) /\ WF_vars(StallAges)

-----------------------------------------------------------------------------
(* Properties *)

(* What the host has read, what the endpoint holds and what is queued are in *)
(* the order they were sent, each once: the direct write of a host counted   *)
(* absent never overtakes the queue.                                         *)
Waiting == ep \o txQueue

HostOrder ==
  /\ \A i \in 1..Len(Waiting) : got < Waiting[i] /\ Waiting[i] <= sent
  /\ \A i, j \in 1..Len(Waiting) : i < j => Waiting[i] < Waiting[j]

(* "The host is gone, and stale reports must not surface on re-plug"         *)
(* (gadget-bridge.js:232-233): once the daemon has tried a write after the   *)
(* host was lost - by a detach, an unplug or a shutdown - nothing sent before *)
(* that loss is on its way to the next host, on either side of the bus.  A    *)
(* host back before that try still gets it: README, Divergences.             *)
CableIsClean == tried => \A i \in 1..Len(Waiting) : Waiting[i] > cut

(* A host is counted absent only after its endpoint stayed full through      *)
(* STALL_MIN_TRIES refusals with no report taken and no detach in between,   *)
(* although a detach resets neither stalledSince nor stallTries.             *)
AbsentOnlyIfStalled == hostAbsent => judged = MinTries

(* No queue waits for ever, whatever the host does. *)
QueueEmpties == txQueue # <<>> ~> txQueue = <<>>

(* "Host detached (UDC unbound); keep polling so the same fd resumes when it *)
(* is bound again" (gadget-bridge.js:124-126): a report sent meanwhile is    *)
(* discarded, never an exception.  It does not hold: README, Divergences.    *)
DetachIsQuiet == ~thrown
=============================================================================

------------------------------- MODULE UsbOut -------------------------------
(***************************************************************************)
(* What the HAL's inbound queue stands in for: the OUT side of a USB key    *)
(* with two HID endpoints.  Each endpoint is a FIFO; the device serves the  *)
(* FIDO endpoint first; a host transfer completes when its report has left  *)
(* the endpoint (taken, or thrown away by a reset) and expires only while   *)
(* the report is still in it.  HidQueue implements this with one deque and  *)
(* two counters.                                                            *)
(***************************************************************************)
EXTENDS Naturals, Sequences

CONSTANT Callers

VARIABLES
  sent,      (* per endpoint, how many reports the host has submitted       *)
  endpoint,  (* per endpoint, the numbers of the reports it holds           *)
  transfer,  (* per host thread, the vendor report it waits for; 0: none    *)
  status     (* per host thread: idle, pending, accepted or expired         *)

vars == <<sent, endpoint, transfer, status>>

Endpoints == {"fido", "vendor"}

Init ==
  /\ sent = [e \in Endpoints |-> 0]
  /\ endpoint = [e \in Endpoints |-> <<>>]
  /\ transfer = [c \in Callers |-> 0]
  /\ status = [c \in Callers |-> "idle"]

Holds(e, n) == \E i \in 1..Len(endpoint[e]) : endpoint[e][i] = n

(* The next report enters endpoint e; the thread may stay for it. *)
Submit(c, e, stays) ==
  /\ status[c] = "idle"
  /\ sent' = [sent EXCEPT ![e] = @ + 1]
  /\ endpoint' = [endpoint EXCEPT ![e] = Append(@, sent[e] + 1)]
  /\ IF stays
     THEN /\ status' = [status EXCEPT ![c] = "pending"]
          /\ transfer' = [transfer EXCEPT ![c] = IF e = "vendor" THEN sent[e] + 1 ELSE 0]
     ELSE UNCHANGED <<status, transfer>>

Serve(e) ==
  /\ endpoint[e] # <<>>
  /\ e = "vendor" => endpoint["fido"] = <<>>
  /\ endpoint' = [endpoint EXCEPT ![e] = Tail(@)]
  /\ UNCHANGED <<sent, transfer, status>>

Reset ==
  /\ endpoint' = [e \in Endpoints |-> <<>>]
  /\ UNCHANGED <<sent, transfer, status>>

Complete(c) ==
  /\ status[c] = "pending"
  /\ transfer[c] = 0 \/ ~Holds("vendor", transfer[c])
  /\ status' = [status EXCEPT ![c] = "accepted"]
  /\ UNCHANGED <<sent, endpoint, transfer>>

Expire(c) ==
  /\ status[c] = "pending"
  /\ Holds("vendor", transfer[c])
  /\ status' = [status EXCEPT ![c] = "expired"]
  /\ UNCHANGED <<sent, endpoint, transfer>>

Reap(c) ==
  /\ status[c] \in {"accepted", "expired"}
  /\ status' = [status EXCEPT ![c] = "idle"]
  /\ transfer' = [transfer EXCEPT ![c] = 0]
  /\ UNCHANGED <<sent, endpoint>>

Next ==
  \/ Reset
  \/ \E e \in Endpoints : Serve(e)
  \/ \E c \in Callers :
       \/ Complete(c) \/ Expire(c) \/ Reap(c)
       \/ \E e \in Endpoints, stays \in BOOLEAN : Submit(c, e, stays)

Spec == Init /\ [][Next]_vars
=============================================================================

-------------------------------- MODULE Edge --------------------------------
(***************************************************************************)
(* The firmware half of OnlyKey Edge, emulator/plugins/edge/src/           *)
(* okplugin_edge.cpp: a hash chain only the key extends, budgets that      *)
(* press for an agent, the one receipt a use owes, and the two flash       *)
(* sectors that carry the record over a crash, a restart and a restore.    *)
(*                                                                         *)
(* A head is a hash over everything before it, so the head is modelled as  *)
(* the chain itself: two heads are equal exactly when the histories are.   *)
(* A device id is the number of the salt it was made from.  The key runs   *)
(* one handler at a time; `job` is what the running one has still to do,   *)
(* in order, so that a power cut can fall between any two of its writes.   *)
(***************************************************************************)
EXTENDS Naturals, Integers, Sequences, FiniteSets, Functions, SequencesExt

CONSTANTS
  Reqs,        \* the requests a host may make: records [kind, n]
  Kinds,       \* what a scope names: "derive", "certify", or a sign or
               \* decrypt on a slot (with its label on a derived code)
  Offers,      \* the caps a GRANT_CREATE may ask for: functions Kinds -> Nat
  Ranges,      \* the ranges <<from, to>> a LOSS may name
  MaxLive,     \* MAX_LIVE, live budgets at once
  HeldSize,    \* HELD, links kept in RAM for pickup
  MaxLinks,    \* bound: no handler starts a link on a chain this long
  MaxSalts,    \* bound: salts drawn
  MaxBoots     \* bound: restarts

ASSUME EdgeAssumption ==
  /\ \A r \in Reqs : r.kind \in Kinds
  /\ Offers \subseteq [Kinds -> Nat]
  /\ MaxLive \in Nat \ {0} /\ HeldSize \in Nat \ {0}
  /\ MaxLinks \in Nat /\ MaxSalts \in Nat /\ MaxBoots \in Nat

VARIABLES
  flash,    \* sectors A (0) and B (1)
  st,       \* the record in RAM: gen, dev (0: no salt), chain, owed, cont
  ident,    \* ident.ok: this boot has derived its keys
  budgets,  \* the live budgets' slots
  token,    \* the TX start: on, and what its token is of, <<head, request>>
  pend,     \* the sign or derive waiting for its decision
  press,    \* the OKEDGE request waiting for its press
  wait,     \* what the core waits to run: nothing, an OKEDGE request, an op
  config,   \* configmode
  held,     \* the ring of links held for pickup
  job,      \* what the running handler has still to do
  sections, \* history: what a backup made after each saved link says is owed
  salts,    \* salts drawn so far
  boots,    \* restarts so far
  shown,    \* history: per device id, the chain the host was shown
  erased,   \* history: device ids a wipe has begun to erase
  lapsed    \* history: the budget of the paid request the core last began to
            \* run ran out between the two looks taken at it

ram    == <<ident, budgets, token, pend, press, wait, config>>
ghosts == <<sections, salts, boots, shown, erased, lapsed>>
vars   == <<flash, st, ident, budgets, token, pend, press, wait, config,
            held, job, sections, salts, boots, shown, erased, lapsed>>

-----------------------------------------------------------------------------
(* The record and its two sectors. *)

None == 0

(* SEQ_NONE, no salt, nothing owed.                                          *)
Empty == [gen |-> 0, dev |-> 0, chain |-> <<>>, owed |-> None, cont |-> FALSE]

(* A sector that is erased, or whose check does not match what it holds.     *)
Unreadable == [Empty EXCEPT !.gen = -1]

Readable(rec) == rec.gen >= 0

(* A state_load that forgets to compare the generations.                     *)
StateLoadFirst(f) ==
  IF Readable(f[0]) THEN f[0]
  ELSE IF Readable(f[1]) THEN f[1]
  ELSE Empty

(* state_load: the newer readable record; with neither, an empty chain.      *)
StateLoad(f) ==
  IF Readable(f[0]) /\ f[0].gen > f[1].gen THEN f[0]
  ELSE IF Readable(f[1]) THEN f[1]
  ELSE Empty

(* state_save writes the sector the new generation's parity names, which is  *)
(* never the one the record in RAM was last written to.                      *)
SaveTo(gen) == gen % 2

-----------------------------------------------------------------------------
(* The links. *)

Use(r, id, step)  == [op |-> "use", req |-> r, id |-> id, step |-> step]
Opened(id, caps)  == [op |-> "grant_create", id |-> id, caps |-> caps]
Ended(id, how)    == [op |-> "grant_end", id |-> id, how |-> how]
HeldBack(id)      == [op |-> "grant_hold", id |-> id]
Resumed(id)       == [op |-> "grant_resume", id |-> id]
Receipt(ref)      == [op |-> "receipt", ref |-> ref]
Settled(ref)      == [op |-> "settle", ref |-> ref]
Lost(range, next) == [op |-> "loss", range |-> range, next |-> next]
Certified(r)      == [op |-> "certify", req |-> r]
Continued(dev, owed) == [op |-> "continue", dev |-> dev, owed |-> owed]

(* What is owed after the link numbered n: weld_in's rule, which looks at    *)
(* the links of a sign, a decrypt and a derive.                              *)
After(owed, link, n) ==
  IF link.op = "use" /\ link.req.kind # "certify" THEN n
  ELSE IF link.op \in {"receipt", "settle"} /\ link.ref = owed THEN None
  ELSE owed

(* The n of a link is its seq plus one, which is also a budget's id.         *)
NextN == Len(st.chain) + 1

(* The weld: the chain grows by the link, the debt follows it, and any link  *)
(* clears the TX start.                                                      *)
Weld(link) ==
  /\ st' = [st EXCEPT !.chain = Append(@, link), !.owed = After(@, link, NextN)]
  /\ token' = [on |-> FALSE]

-----------------------------------------------------------------------------
(* Budgets. *)

NoBudget == [id |-> 0]
Slots == 1..MaxLive
NoBudgets == [i \in Slots |-> NoBudget]

Total(counts) == FoldFunction(+, 0, counts)

(* An expired budget is gone, so a live one is any that still has its id.    *)
Alive(b) == b.id # 0
UsesLeft(b) == b.used < b.uses
Live == {i \in Slots : Alive(budgets[i])}
Named(id) == {i \in Live : budgets[i].id = id}
Fulfilled == {i \in Live : ~UsesLeft(budgets[i])}

FirstOf(S) == CHOOSE i \in S : \A j \in S : i <= j

Owes == st.owed # None

BudgetsMayPay == ~config /\ ~Owes

(* A budget_for that forgets each scope's own cap.                           *)
PayersOverCap(kind) ==
  IF token.on /\ BudgetsMayPay
  THEN {i \in Live : /\ ~budgets[i].hold
                     /\ UsesLeft(budgets[i])
                     /\ budgets[i].caps[kind] > 0}
  ELSE {}

(* budget_for's scan, for a key that may pay.                                *)
Payers(kind) ==
  IF token.on /\ BudgetsMayPay
  THEN {i \in Live : /\ ~budgets[i].hold
                     /\ UsesLeft(budgets[i])
                     /\ budgets[i].paid[kind] < budgets[i].caps[kind]}
  ELSE {}

AnyPayable == \E i \in Live : ~budgets[i].hold /\ UsesLeft(budgets[i])

(* tx_matches: the token is the hash of this very head and this request.     *)
TxMatches(r) == token.of = <<st.chain, r>>

(* spend: both counts go up and a self-press link is welded.                 *)
Spend(i, r) ==
  /\ budgets' = [budgets EXCEPT ![i].used = @ + 1, ![i].paid[r.kind] = @ + 1]
  /\ Weld(Use(r, budgets[i].id, budgets[i].used + 1))

(* end_budget: its RAM is cleared and a grant-end link says how.             *)
EndBudget(i, how) ==
  /\ budgets' = [budgets EXCEPT ![i] = NoBudget]
  /\ Weld(Ended(budgets[i].id, how))

-----------------------------------------------------------------------------
(* The held ring. *)

NoHeld == [n |-> 0]
EmptyRing == [k \in 0..(HeldSize - 1) |-> NoHeld]

(* hold: the link numbered n takes its slot.                                 *)
Hold(ring, n, link) == [ring EXCEPT ![(n - 1) % HeldSize] = [n |-> n, link |-> link]]

(* A boot holds the record's latest link.                                    *)
LatestOnly(rec) ==
  IF rec.chain = <<>> THEN EmptyRing
  ELSE Hold(EmptyRing, Len(rec.chain), Last(rec.chain))

-----------------------------------------------------------------------------
(* The key at rest, ready for a request; Fits is the bound on links. *)

NoToken == [on |-> FALSE]
NoPend  == [active |-> FALSE]
NoPress == [what |-> "none"]

Idle  == job = <<>>
Ready == Idle /\ ident /\ ~config
Fits  == Len(st.chain) < MaxLinks

(* okcore_prime_user_confirmation(OKEDGE): the core waits for a press and    *)
(* the request that was waiting is no longer Edge's.                         *)
PressWait(p) == press' = p /\ wait' = "edge" /\ pend' = NoPend

Init ==
  /\ flash = [s \in {0, 1} |-> Unreadable]
  /\ st = Empty
  /\ ident = FALSE
  /\ budgets = NoBudgets
  /\ token = NoToken
  /\ pend = NoPend
  /\ press = NoPress
  /\ wait = "none"
  /\ config = FALSE
  /\ held = EmptyRing
  /\ job = <<>>
  /\ sections = <<>>
  /\ salts = 0
  /\ boots = 0
  /\ shown = [d \in 1..MaxSalts |-> <<>>]
  /\ erased = {}
  /\ lapsed = FALSE

-----------------------------------------------------------------------------
(* ensure_identity, run by every request before it is served; a request that *)
(* only reads (HEAD, PICKUP, PROVE_HEAD, WARM, the public keys) is no more.  *)

(* A new key, a wiped one, a restored one: the salt is drawn and saved.      *)
DrawSalt ==
  /\ Idle /\ ~config /\ ~ident /\ st.dev = 0 /\ salts < MaxSalts
  /\ salts' = salts + 1
  /\ st' = [st EXCEPT !.dev = salts + 1]
  /\ job' = <<"save">>
  /\ UNCHANGED <<flash, ram, held, sections, boots, shown, erased, lapsed>>

(* write_continue: the restored key's first link, on its own new genesis.    *)
WriteContinue ==
  /\ Idle /\ ~config /\ ~ident /\ st.dev # 0 /\ st.cont
  /\ ident' = TRUE
  /\ st' = [st EXCEPT !.cont = FALSE,
                      !.chain = Append(@, Continued(st.dev, st.owed))]
  /\ budgets' = NoBudgets /\ token' = NoToken /\ held' = EmptyRing
  /\ job' = <<"weld", "save">>
  /\ UNCHANGED <<flash, pend, press, wait, config, ghosts>>

(* The keys are derived; an empty chain saves its genesis.                   *)
DeriveIdentity ==
  /\ Idle /\ ~config /\ ~ident /\ st.dev # 0 /\ ~st.cont
  /\ ident' = TRUE
  /\ job' = IF st.chain = <<>> THEN <<"save">> ELSE <<>>
  /\ UNCHANGED <<flash, st, budgets, token, pend, press, wait, config, held, ghosts>>

-----------------------------------------------------------------------------
(* The requests that need a press.  `verified`: is the head the host names   *)
(* the key's own?                                                            *)

GrantCreate(caps, verified) ==
  /\ Ready /\ Fits
  /\ IF Owes \/ ~verified
     THEN press' = NoPress /\ UNCHANGED <<wait, pend>>
     ELSE PressWait([what |-> "grant", caps |-> caps, at |-> st.chain])
  /\ UNCHANGED <<flash, st, ident, budgets, token, config, held, job, ghosts>>

GrantResume(id, verified) ==
  /\ Ready /\ Fits
  /\ IF Named(id) = {} \/ Owes \/ ~verified
     THEN press' = NoPress /\ UNCHANGED <<wait, pend>>
     ELSE PressWait([what |-> "resume", id |-> id, at |-> st.chain])
  /\ UNCHANGED <<flash, st, ident, budgets, token, config, held, job, ghosts>>

Settle ==
  /\ Ready /\ Fits
  /\ IF ~Owes
     THEN press' = NoPress /\ UNCHANGED <<wait, pend>>
     ELSE PressWait([what |-> "settle"])
  /\ UNCHANGED <<flash, st, ident, budgets, token, config, held, job, ghosts>>

(* Only a past range can be lost: seqs count from 0, so the last is Len - 1. *)
Loss(range) ==
  /\ Ready /\ Fits
  /\ IF st.chain = <<>> \/ range[1] > range[2] \/ range[2] > Len(st.chain) - 1
     THEN press' = NoPress /\ UNCHANGED <<wait, pend>>
     ELSE PressWait([what |-> "loss", range |-> range])
  /\ UNCHANGED <<flash, st, ident, budgets, token, config, held, job, ghosts>>

(* certify: paid as a sign is, or put to the press.                          *)
Certify(r) ==
  /\ Ready /\ Fits /\ r.kind = "certify"
  /\ IF token.on /\ TxMatches(r) /\ Payers(r.kind) # {}
     THEN /\ Spend(FirstOf(Payers(r.kind)), r)
          /\ job' = <<"weld", "serve">>
          /\ UNCHANGED <<pend, press, wait>>
     ELSE /\ token' = NoToken
          /\ PressWait([what |-> "certify", req |-> r])
          /\ UNCHANGED <<st, budgets, job>>
  /\ UNCHANGED <<flash, ident, config, held, ghosts>>

(* A press nobody made within PRESS_MS is dropped.                           *)
PressLate ==
  /\ Idle /\ press # NoPress
  /\ press' = NoPress
  /\ UNCHANGED <<flash, st, ident, budgets, token, pend, wait, config, held, job, ghosts>>

-----------------------------------------------------------------------------
(* The requests that need none. *)

GrantRevoke(id) ==
  /\ Ready /\ Fits
  /\ \E i \in Named(id) : EndBudget(i, "revoked")
  /\ job' = <<"weld">>
  /\ UNCHANGED <<flash, ident, pend, press, wait, config, held, ghosts>>

(* A budget already on hold links nothing.                                   *)
GrantHold(id) ==
  /\ Ready /\ Fits
  /\ \E i \in Named(id) :
       /\ ~budgets[i].hold
       /\ budgets' = [budgets EXCEPT ![i].hold = TRUE]
  /\ Weld(HeldBack(id))
  /\ job' = <<"weld">>
  /\ UNCHANGED <<flash, ident, pend, press, wait, config, held, ghosts>>

(* The receipt for the owed use; then what it completed ends.                *)
FileReceipt(ref) ==
  /\ Ready /\ Fits
  /\ Owes /\ ref = st.owed
  /\ Weld(Receipt(ref))
  /\ job' = <<"weld", "complete">>
  /\ UNCHANGED <<flash, ident, budgets, pend, press, wait, config, held, ghosts>>

(* TX_START: refused while something is owed or nothing could pay; whether   *)
(* the token fits is decided when the request comes.                         *)
TxStart(r, verified) ==
  /\ Ready /\ Fits
  /\ ~Owes /\ AnyPayable
  /\ token' = [on |-> TRUE, of |-> IF verified THEN <<st.chain, r>> ELSE <<>>]
  /\ UNCHANGED <<flash, st, ident, budgets, pend, press, wait, config, held, job, ghosts>>

-----------------------------------------------------------------------------
(* The hooks in the core. *)

(* okplugin_edge_primed, a sign or decrypt: not the announced request, paid  *)
(* by a budget, or an ordinary one that takes a press.  The core forgets an  *)
(* OKEDGE request that waited, so nothing reads its press again.             *)
Primed(r) ==
  /\ Idle /\ ~config /\ Fits /\ r.kind \notin {"certify", "derive"}
  /\ wait' = "op" /\ press' = NoPress
  /\ LET mismatch == token.on /\ ~TxMatches(r)
         payers   == IF mismatch THEN {} ELSE Payers(r.kind)
     IN  /\ pend' = [active |-> TRUE, req |-> r, refuse |-> mismatch,
                     budget |-> IF payers = {} THEN None ELSE FirstOf(payers)]
         /\ token' = IF payers = {} THEN NoToken ELSE token
  /\ UNCHANGED <<flash, st, ident, budgets, config, held, job, ghosts>>

(* A primed request runs with no press when it is refused or paid.           *)
TakesPress == pend.active /\ ~pend.refuse /\ pend.budget = None

(* budget_for again: does the budget it was primed for still pay first?      *)
StillPays == Payers(pend.req.kind) # {} /\ FirstOf(Payers(pend.req.kind)) = pend.budget

(* okplugin_edge_refused: it ends here, with no link.                        *)
Refused ==
  /\ Idle /\ wait = "op" /\ pend.active
  /\ pend.refuse \/ (pend.budget # None /\ ~StillPays)
  /\ pend' = NoPend /\ wait' = "none"
  /\ UNCHANGED <<flash, st, ident, budgets, token, press, config, held, job, ghosts>>

(* A hook that does not ask again before a paid request runs.                *)
RunPaidUnasked ==
  /\ Idle /\ Fits /\ wait = "op" /\ pend.active
  /\ ~pend.refuse /\ pend.budget # None
  /\ wait' = "none"
  /\ job' = <<"decide">>
  /\ lapsed' = FALSE
  /\ UNCHANGED <<flash, st, ident, budgets, token, pend, press, config, held>>
  /\ UNCHANGED <<sections, salts, boots, shown, erased>>

(* okcore_run_pending_op goes on to the decision of a paid request ...       *)
RunPaid ==
  /\ Idle /\ Fits /\ wait = "op" /\ pend.active
  /\ ~pend.refuse /\ pend.budget # None /\ StillPays
  /\ wait' = "none"
  /\ job' = <<"decide">>
  /\ lapsed' = FALSE
  /\ UNCHANGED <<flash, st, ident, budgets, token, pend, press, config, held>>
  /\ UNCHANGED <<sections, salts, boots, shown, erased>>

(* ... and runs an ordinary one the person pressed for, which links nothing. *)
RunPressed ==
  /\ Idle /\ wait = "op" /\ TakesPress
  /\ pend' = NoPend /\ wait' = "none"
  /\ UNCHANGED <<flash, st, ident, budgets, token, press, config, held, job, ghosts>>

(* okplugin_edge_decision with a deny or a timeout.                          *)
NotApproved ==
  /\ Idle /\ (wait = "edge" \/ (wait = "op" /\ TakesPress))
  /\ wait' = "none"
  /\ IF wait = "edge" THEN press' = NoPress /\ UNCHANGED pend
                      ELSE pend' = NoPend /\ UNCHANGED press
  /\ UNCHANGED <<flash, st, ident, budgets, token, config, held, job, ghosts>>

(* okplugin_edge_pay_derive, asked when a TX start waits.                    *)
PayDerive(r) ==
  /\ Idle /\ ~config /\ Fits /\ token.on /\ r.kind = "derive"
  /\ IF TxMatches(r) /\ Payers(r.kind) # {}
     THEN Spend(FirstOf(Payers(r.kind)), r) /\ job' = <<"weld", "serve">>
     ELSE token' = NoToken /\ UNCHANGED <<st, budgets, job>>
  /\ UNCHANGED <<flash, ident, pend, press, wait, config, held, ghosts>>

-----------------------------------------------------------------------------
(* The press: okplugin_edge_decision with an approve. *)

Pressed(what) ==
  /\ Idle /\ Fits /\ wait = "edge" /\ press.what = what
  /\ wait' = "none" /\ press' = NoPress
  /\ UNCHANGED <<flash, ident, pend, config, held, ghosts>>

FreeSlots == Slots \ Live

(* grant_pressed: the debt and the head are looked at again.                 *)
GrantPressed ==
  /\ Pressed("grant")
  /\ IF Owes \/ press.at # st.chain \/ FreeSlots = {}
     THEN UNCHANGED <<st, token, budgets, job>>
     ELSE /\ budgets' = [budgets EXCEPT ![FirstOf(FreeSlots)] =
               [id |-> NextN, uses |-> Total(press.caps), used |-> 0, hold |-> FALSE,
                caps |-> press.caps, paid |-> [k \in Kinds |-> 0]]]
          /\ Weld(Opened(NextN, press.caps))
          /\ job' = <<"weld">>

ResumePressed ==
  /\ Pressed("resume")
  /\ IF Owes \/ press.at # st.chain \/ ~\E i \in Named(press.id) : budgets[i].hold
     THEN UNCHANGED <<st, token, budgets, job>>
     ELSE /\ \E i \in Named(press.id) : budgets' = [budgets EXCEPT ![i].hold = FALSE]
          /\ Weld(Resumed(press.id))
          /\ job' = <<"weld">>

(* settle_pressed: refused if the debt was paid while it waited.             *)
SettlePressed ==
  /\ Pressed("settle")
  /\ job' = IF Owes THEN <<"settle">> ELSE <<>>
  /\ UNCHANGED <<st, token, budgets>>

(* loss_pressed: the link after the range is named if the key holds it.      *)
LossPressed ==
  /\ Pressed("loss")
  /\ LET n == press.range[2] + 2  \* the number of link to + 1
         slot == held[(n - 1) % HeldSize]
         known == n <= Len(st.chain) /\ (n = Len(st.chain) \/ slot.n = n)
     IN  Weld(Lost(press.range, IF known THEN n ELSE None))
  /\ job' = <<"weld">>
  /\ UNCHANGED budgets

CertifyPressed ==
  /\ Pressed("certify")
  /\ Weld(Certified(press.req))
  /\ job' = <<"weld">>
  /\ UNCHANGED budgets

(* An approve with nothing left to press for.                                *)
NothingPressed ==
  /\ Pressed("none")
  /\ UNCHANGED <<st, token, budgets, job>>

-----------------------------------------------------------------------------
(* What a running handler does next. *)

Doing(what) == job # <<>> /\ Head(job) = what

(* state_save alone.                                                         *)
StateSave ==
  /\ st' = [st EXCEPT !.gen = @ + 1]
  /\ flash' = [flash EXCEPT ![SaveTo(st.gen + 1)] = st']

(* What was shown under an id no sector holds any more is forgotten: salts   *)
(* are random, so no one writes under it again.                              *)
StillShown(d) == IF \E s \in {0, 1} : flash'[s].dev = d THEN shown[d] ELSE <<>>

Save ==
  /\ Doing("save")
  /\ StateSave
  /\ shown' = [d \in DOMAIN shown |-> StillShown(d)]
  /\ job' = Tail(job)
  /\ UNCHANGED <<ram, held, sections, salts, boots, erased, lapsed>>

(* okplugin_edge_backup: the seq, the head and the debt; never the salt.  A  *)
(* backup changes nothing on the key and can be made after any link: the one  *)
(* made after link n names that chain, and the debt of then.                 *)
Section(n) == [chain |-> SubSeq(st.chain, 1, n), owed |-> sections[n]]

(* The end of weld_in: saved, held for pickup, told to the host.             *)
SaveLink ==
  /\ Doing("weld")
  /\ StateSave
  /\ held' = Hold(held, Len(st.chain), Last(st.chain))
  /\ shown' = [d \in DOMAIN shown |-> IF d = st.dev THEN st.chain ELSE StillShown(d)]
  /\ job' = Tail(job)
  /\ sections' = Append(SubSeq(sections, 1, Len(st.chain) - 1), st.owed)
  /\ UNCHANGED <<ram, salts, boots, erased, lapsed>>

(* complete_fulfilled, one turn of its loop.                                 *)
Complete ==
  /\ Doing("complete")
  /\ IF ~Owes /\ Fulfilled # {}
     THEN EndBudget(FirstOf(Fulfilled), "completed") /\ job' = <<"weld">> \o job
     ELSE job' = Tail(job) /\ UNCHANGED <<st, budgets, token>>
  /\ UNCHANGED <<flash, ident, pend, press, wait, config, held, ghosts>>

(* settle_pressed: every live budget ends, then the receipt.                 *)
SettleNext ==
  /\ Doing("settle")
  /\ IF Live # {}
     THEN EndBudget(FirstOf(Live), "settled") /\ job' = <<"weld">> \o job
     ELSE Weld(Settled(st.owed)) /\ job' = <<"weld">> /\ UNCHANGED budgets
  /\ UNCHANGED <<flash, ident, pend, press, wait, config, held, ghosts>>

(* A decision that releases the result before its link is saved.             *)
DecideServesFirst ==
  /\ Doing("decide")
  /\ pend' = NoPend
  /\ StillPays
  /\ Spend(pend.budget, pend.req)
  /\ job' = <<"serve", "weld">>
  /\ UNCHANGED <<flash, ident, press, wait, config, held, ghosts>>

(* okplugin_edge_decision on a paid sign: it looks once more, and the core   *)
(* runs the operation whatever it finds.                                     *)
Decide ==
  /\ Doing("decide")
  /\ pend' = NoPend
  /\ IF StillPays
     THEN /\ Spend(pend.budget, pend.req)
          /\ job' = <<"weld", "serve">>
     ELSE /\ job' = <<"serveUnlinked">>
          /\ UNCHANGED <<st, token, budgets>>
  /\ UNCHANGED <<flash, ident, press, wait, config, held, ghosts>>

(* The operation's result is released.                                       *)
Serve ==
  /\ Doing("serve") \/ Doing("serveUnlinked")
  /\ job' = Tail(job)
  /\ UNCHANGED <<flash, st, ram, held, ghosts>>

(* A budget's lifetime runs out: at any moment, also between the look that   *)
(* lets a paid request run and the decision's, which read millis() each for  *)
(* itself.  For good: alive() compares modulo 2^32 ms, so a slot nobody took *)
(* looks alive again some 49 days after it was opened, beyond any behaviour  *)
(* here: a bound.                                                            *)
Expire(i) ==
  /\ i \in Live
  /\ budgets' = [budgets EXCEPT ![i] = NoBudget]
  /\ lapsed' = (lapsed \/ (Doing("decide") /\ pend.budget = i))
  /\ UNCHANGED <<flash, st, ident, token, pend, press, wait, config, held, job>>
  /\ UNCHANGED <<sections, salts, boots, shown, erased>>

-----------------------------------------------------------------------------
(* Restarts, wipes, backups and restores. *)

RamCleared ==
  /\ ident' = FALSE /\ budgets' = NoBudgets
  /\ token' = NoToken /\ pend' = NoPend /\ press' = NoPress
  /\ wait' = "none" /\ config' = FALSE

(* A new process over the flash as it is: only the record survives.          *)
PowerOn(f) ==
  /\ flash' = f
  /\ st' = StateLoad(f) /\ held' = LatestOnly(StateLoad(f))
  /\ RamCleared
  /\ job' = <<>>

(* A lock, a restart or a power cut, between any two writes ...              *)
Restart ==
  /\ boots < MaxBoots /\ boots' = boots + 1
  /\ PowerOn(flash)
  /\ UNCHANGED <<sections, salts, shown, erased, lapsed>>

(* ... or in the middle of one, which leaves that sector torn.               *)
TornWrite ==
  /\ boots < MaxBoots /\ boots' = boots + 1
  /\ Doing("save") \/ Doing("weld")
  /\ PowerOn([flash EXCEPT ![SaveTo(st.gen + 1)] = Unreadable])
  /\ UNCHANGED <<sections, salts, shown, erased, lapsed>>

(* okplugin_edge_wipe, first thing of a wipe of the whole key.  The RAM is   *)
(* cleared in the same call and nothing reads it before the key restarts; a  *)
(* backup made before the wipe is not followed further: a bound.             *)
Wipe ==
  /\ Idle /\ st # Empty
  /\ job' = <<"eraseA", "eraseB">>
  /\ LET gone == {st.dev, flash[0].dev, flash[1].dev} \ {0}
     IN  /\ erased' = erased \union gone
         /\ shown' = [d \in DOMAIN shown |-> IF d \in gone THEN <<>> ELSE shown[d]]
  /\ RamCleared /\ st' = Empty /\ held' = EmptyRing
  /\ UNCHANGED <<flash, sections, salts, boots, lapsed>>

EraseA ==
  /\ Doing("eraseA")
  /\ flash' = [flash EXCEPT ![0] = Unreadable]
  /\ job' = Tail(job)
  /\ UNCHANGED <<st, ram, held, ghosts>>

(* The wiped key restarts.                                                   *)
EraseB ==
  /\ Doing("eraseB")
  /\ PowerOn([flash EXCEPT ![1] = Unreadable])
  /\ sections' = <<>>
  /\ UNCHANGED <<salts, boots, shown, erased, lapsed>>

(* A press the core waits for is its answer, never the way to config mode.   *)
EnterConfig ==
  /\ Idle /\ wait = "none" /\ ~config /\ config' = TRUE
  /\ UNCHANGED <<flash, st, ident, budgets, token, pend, press, wait, held, job, ghosts>>

(* A restore that forgives the debt.                                         *)
RestoredUnowed(section) ==
  [Empty EXCEPT !.gen = st.gen, !.chain = section.chain, !.cont = TRUE]

(* okplugin_edge_restore of a section: the generation goes on counting, the  *)
(* salt does not come back.  The key restarts when the restore is done.  The *)
(* next restore comes after this one was taken into use: a bound.            *)
Restored(section) ==
  [Empty EXCEPT !.gen = st.gen, !.chain = section.chain,
                !.owed = section.owed, !.cont = TRUE]

Restore ==
  /\ Idle /\ config /\ st.dev # 0 /\ salts < MaxSalts
  /\ \E n \in 1..Len(st.chain) : st' = Restored(Section(n))
  /\ ident' = FALSE /\ budgets' = NoBudgets /\ token' = NoToken
  /\ held' = EmptyRing
  /\ job' = <<"save", "restart">>
  /\ UNCHANGED <<flash, pend, press, wait, config, ghosts>>

FinishRestore == Doing("restart") /\ PowerOn(flash) /\ UNCHANGED ghosts

-----------------------------------------------------------------------------
Ids == {budgets[i].id : i \in Live}

Next ==
  \/ DrawSalt \/ WriteContinue \/ DeriveIdentity
  \/ \E caps \in Offers, v \in BOOLEAN : GrantCreate(caps, v)
  \/ \E id \in Ids, v \in BOOLEAN : GrantResume(id, v)
  \/ Settle
  \/ \E range \in Ranges : Loss(range)
  \/ PressLate
  \/ \E id \in Ids : GrantRevoke(id) \/ GrantHold(id)
  \/ \E ref \in 1..Len(st.chain) : FileReceipt(ref)
  \/ \E r \in Reqs : Certify(r) \/ Primed(r) \/ PayDerive(r)
  \/ \E r \in Reqs, v \in BOOLEAN : TxStart(r, v)
  \/ Refused \/ RunPaid \/ RunPressed \/ NotApproved
  \/ GrantPressed \/ ResumePressed \/ SettlePressed
  \/ LossPressed \/ CertifyPressed \/ NothingPressed
  \/ Save \/ SaveLink \/ Complete \/ SettleNext \/ Decide \/ Serve
  \/ \E i \in Slots : Expire(i)
  \/ Restart \/ TornWrite \/ Wipe \/ EraseA \/ EraseB
  \/ EnterConfig \/ Restore \/ FinishRestore

Spec == Init /\ [][Next]_vars

-----------------------------------------------------------------------------
(* Properties. *)

(* What a host that welds the chain itself finds owed after its first n      *)
(* links, by the library's rule (receipts.js, keyDebts).                     *)
OwedBy(chain) ==
  LET owed[n \in 0..Len(chain)] ==
        IF n = 0 THEN None ELSE After(owed[n - 1], chain[n], n)
  IN  owed

(* The debt the key holds is the one its chain shows, through crashes, torn  *)
(* writes and restores, and nothing was started while one was owed: every    *)
(* use, opening and resume on the chain stands after a paid debt, so at most *)
(* one use is ever owed (okplugin_edge.cpp:14-16, 787-788, 1451-1452).       *)
DebtFollowsChain ==
  LET owed == OwedBy(st.chain) IN
  /\ st.owed = owed[Len(st.chain)]
  /\ \A n \in 1..Len(st.chain) :
       st.chain[n].op \in {"use", "grant_create", "grant_resume"}
       => owed[n - 1] = None

(* No device id ever has two histories: whatever was shown under it is what  *)
(* the record says it wrote first, after any torn write, restart or restore  *)
(* (okplugin_edge.cpp:446, 1475-1478).  An id a wipe has begun to erase is   *)
(* not counted.                                                              *)
NoSecondHistory ==
  \A rec \in {st, StateLoad(flash)} :
    rec.dev # 0 /\ ~rec.cont /\ rec.dev \notin erased
    => IsPrefix(shown[rec.dev], rec.chain)

(* The life of the budget opened by link n, up to link m, as the chain tells *)
(* it.                                                                       *)
Uses(chain, id, m) ==
  {n \in 1..m : chain[n].op = "use" /\ chain[n].id = id}

(* A use is paid by a budget that was open and off hold: between its opening *)
(* and the use there is no end, settle or continue, the last hold was        *)
(* resumed, the series goes on by one, and no scope pays past its cap.       *)
BudgetKept ==
  LET chain == st.chain IN
  \A m \in 1..Len(chain) :
    chain[m].op = "use" =>
      LET id == chain[m].id
          uses == Uses(chain, id, m)
          between == (id + 1)..(m - 1)
      IN  /\ id \in 1..(m - 1) /\ chain[id].op = "grant_create"
          /\ \A n \in between :
               /\ chain[n].op \notin {"settle", "continue"}
               /\ chain[n].op = "grant_end" => chain[n].id # id
               /\ chain[n].op = "grant_hold" /\ chain[n].id = id =>
                    \E k \in n..(m - 1) : chain[k] = Resumed(id)
          /\ chain[m].step = Cardinality(uses)
          /\ \A kind \in Kinds :
               Cardinality({n \in uses : chain[n].req.kind = kind})
                 <= chain[id].caps[kind]

(* When a result is released, the record that a restart would load already    *)
(* ends with the link that paid for it (okplugin_edge.cpp:792).              *)
ServedIsLinked ==
  Doing("serve") =>
    /\ StateLoad(flash) = st
    /\ st.chain # <<>> /\ Last(st.chain).op = "use"

(* A request primed to be paid by a budget "must never run without a press    *)
(* and without a link" (okplugin_edge.cpp:1400-1403).  It does in one way:    *)
(* the budget's lifetime ends between the look okplugin_edge_refused takes   *)
(* and the decision's (1417, 1364).  In no other: no hold, revoke, settle,   *)
(* debt, TX start, restart or other budget's end between priming and running *)
(* gets a result for nothing.                                                *)
FreeOnlyIfLapsed == Doing("serveUnlinked") => lapsed

(* "every budget use owes a receipt" (okplugin_edge.cpp:14): after a use,    *)
(* one is owed.  It does not hold: README, Divergences.                      *)
EveryUseOwes ==
  st.chain # <<>> /\ Last(st.chain).op = "use" => st.owed = Len(st.chain)

=============================================================================

----------------------------- MODULE EdgeProofs ------------------------------
(***************************************************************************)
(* What Edge's record keeps over crashes, torn writes, wipes and restores:   *)
(* the debt its chain shows, one history per device id, a link on the flash  *)
(* under every result released, and budgets that pay what they were opened   *)
(* for.  For any requests, offers, sizes and number of restarts.            *)
(***************************************************************************)
EXTENDS Edge, SequenceTheorems, FiniteSetTheorems, WellFoundedInduction, TLAPS

-----------------------------------------------------------------------------
(* The states. *)

Nexts == {range[2] + 2 : range \in Ranges} \cup {None}
Links ==
  {Use(r, id, step) : r \in Reqs, id \in Nat, step \in Nat} \cup
  {Opened(id, caps) : id \in Nat, caps \in Offers} \cup
  {Ended(id, how) : id \in Nat, how \in {"revoked", "completed", "settled"}} \cup
  {HeldBack(id) : id \in Nat} \cup {Resumed(id) : id \in Nat} \cup
  {Receipt(ref) : ref \in Nat} \cup {Settled(ref) : ref \in Nat} \cup
  {Lost(range, next) : range \in Ranges, next \in Nexts} \cup
  {Certified(r) : r \in Reqs} \cup
  {Continued(dev, owed) : dev \in Nat, owed \in Nat}

Sectors == [gen : Nat \cup {-1}, dev : 0..MaxSalts, chain : Seq(Links), owed : Nat, cont : BOOLEAN]
Records == [gen : Nat, dev : 0..MaxSalts, chain : Seq(Links), owed : Nat, cont : BOOLEAN]
Budgets == [id : Nat \ {0}, uses : {Total(caps) : caps \in Offers}, used : Nat, hold : BOOLEAN,
            caps : Offers, paid : [Kinds -> Nat]]
Pends == [active : {TRUE}, req : Reqs, refuse : BOOLEAN, budget : Slots \cup {None}]
Presses ==
  [what : {"grant"}, caps : Offers, at : Seq(Links)] \cup [what : {"resume"}, id : Nat, at : Seq(Links)] \cup
  [what : {"settle"}] \cup [what : {"loss"}, range : Ranges] \cup [what : {"certify"}, req : Reqs]

(* What a handler still has to do, by what it does first. *)
Welds  == {<<"weld">>, <<"weld", "save">>, <<"weld", "serve">>, <<"weld", "complete">>, <<"weld", "settle">>}
Saves  == {<<"save">>, <<"save", "restart">>}
Erases == {<<"eraseA", "eraseB">>, <<"eraseB">>}
Rests  == {<<>>, <<"serve">>, <<"complete">>, <<"settle">>, <<"decide">>, <<"serveUnlinked">>, <<"restart">>}
Jobs   == Welds \cup Saves \cup Erases \cup Rests

(* The record, in RAM and in its sectors. *)
RecordOK ==
  /\ flash \in [{0, 1} -> Sectors] /\ st \in Records
  /\ \A s \in {0, 1} : ~Readable(flash[s]) => flash[s] = Unreadable
  /\ job \in Jobs
  /\ sections \in Seq(Nat)
  /\ salts \in 0..MaxSalts
  /\ shown \in [1..MaxSalts -> Seq(Links)]

(* What a boot clears. *)
RamOK ==
  /\ ident \in BOOLEAN /\ config \in BOOLEAN /\ token.on \in BOOLEAN
  /\ budgets \in [Slots -> Budgets \cup {NoBudget}]
  /\ pend \in Pends \cup {NoPend} /\ press \in Presses \cup {NoPress}
  /\ wait \in {"none", "edge", "op"}
  /\ job = <<"decide">> => pend \in Pends

TypeOK == RecordOK /\ RamOK

(* The record a boot would load. *)
Newest == StateLoad(flash)

(* A sector holds records of its parity, the record in RAM counts on from the *)
(* newest, and they are the same but while a write is under way - of one link *)
(* more, if it is a link's.                                                 *)
Parity(f) == \A s \in {0, 1} : Readable(f[s]) => f[s].gen > 0 /\ f[s].gen % 2 = s
InStep ==
  /\ Parity(flash)
  /\ job \notin Erases => st.gen = Newest.gen
  /\ job \in Rests => st = Newest
  /\ job \in Welds => Len(Newest.chain) = Len(st.chain) - 1
  /\ job = <<"eraseB">> => ~Readable(flash[0])

(* A restored key links nothing before its continue link. *)
Fresh ==
  /\ config => wait = "none"
  /\ st.cont => ~ident /\ ~token.on /\ wait # "edge" /\ job \notin Welds \cup {<<"complete">>, <<"settle">>}

-----------------------------------------------------------------------------
(* The history of an id. *)

Begun(rec) ==
  rec.dev # 0 /\ rec.dev \notin erased =>
    IF rec.cont THEN shown[rec.dev] = <<>> ELSE IsPrefix(shown[rec.dev], rec.chain)

History ==
  /\ st.dev <= salts /\ \A s \in {0, 1} : flash[s].dev <= salts
  /\ \A d \in 1..MaxSalts : d > salts => shown[d] = <<>>
  /\ Begun(st) /\ Begun(Newest)
  /\ job \in Erases => \A s \in {0, 1} : flash[s].dev \in erased \cup {0}

-----------------------------------------------------------------------------
(* The debt. *)

At(debts, n) == IF n = 0 THEN None ELSE debts[n]
Starts == {"use", "grant_create", "grant_resume"}

(* Any account of a chain's debts up to its mth link that follows the rule. *)
Follows(owed, chain, m) ==
  owed[0] = None /\ \A n \in 1..m : owed[n] = After(owed[n - 1], chain[n], n)

(* debts is the one account of the record's chain, and ends in its debt.    *)
Ledger(rec, debts) ==
  /\ Len(rec.chain) <= Len(debts)
  /\ rec.owed = At(debts, Len(rec.chain))
  /\ \A n \in 1..Len(rec.chain) :
       /\ debts[n] = After(At(debts, n - 1), rec.chain[n], n)
       /\ rec.chain[n].op \in Starts => At(debts, n - 1) = None
  /\ \A m \in 0..Len(rec.chain) : \A owed : Follows(owed, rec.chain, m) => owed[m] = At(debts, m)

(* What a backup made of the record in RAM says is owed, link by link. *)
Debts == IF job \in Welds THEN Append(SubSeq(sections, 1, Len(st.chain) - 1), st.owed) ELSE sections

Accounts ==
  /\ Ledger(st, Debts)
  /\ \A s \in {0, 1} : Readable(flash[s]) => Ledger(flash[s], sections)

-----------------------------------------------------------------------------
(* The service. *)

(* Serving means the last link is the use that pays for it; a decision still  *)
(* finds its budget, or that has run out within the call.                    *)
Serving == {<<"weld", "serve">>, <<"serve">>}
EndsInUse == st.chain # <<>> /\ Last(st.chain).op = "use"
Paid ==
  /\ job \in Serving => EndsInUse
  /\ job = <<"decide">> => StillPays \/ lapsed
  /\ job = <<"serveUnlinked">> => lapsed

-----------------------------------------------------------------------------
(* The budgets, and what a chain tells of them. *)

(* The uses of one kind. *)
Under(chain, id, m, kind) == {n \in Uses(chain, id, m) : chain[n].req.kind = kind}

(* BudgetKept of one link of a chain, and of them all. *)
KeptAt(chain, m) ==
  chain[m].op = "use" =>
    /\ chain[m].id \in 1..(m - 1) /\ chain[chain[m].id].op = "grant_create"
    /\ \A n \in (chain[m].id + 1)..(m - 1) :
         /\ chain[n].op \notin {"settle", "continue"}
         /\ chain[n].op = "grant_end" => chain[n].id # chain[m].id
         /\ chain[n].op = "grant_hold" /\ chain[n].id = chain[m].id =>
              \E k \in n..(m - 1) : chain[k] = Resumed(chain[m].id)
    /\ chain[m].step = Cardinality(Uses(chain, chain[m].id, m))
    /\ \A kind \in Kinds :
         Cardinality(Under(chain, chain[m].id, m, kind)) <= chain[chain[m].id].caps[kind]

Kept(chain) == \A m \in 1..Len(chain) : KeptAt(chain, m)

(* A live budget is the one its chain opened: still open, on hold where the   *)
(* chain last held it, and paid as the chain says.                           *)
Stands(chain, b) ==
  \A n \in (b.id + 1)..Len(chain) :
    /\ chain[n].op \notin {"settle", "continue"}
    /\ chain[n].op = "grant_end" => chain[n].id # b.id
    /\ ~b.hold /\ chain[n].op = "grant_hold" /\ chain[n].id = b.id => \E k \in n..Len(chain) : chain[k] = Resumed(b.id)

Counted(chain, b) ==
  /\ b.used = Cardinality(Uses(chain, b.id, Len(chain)))
  /\ \A kind \in Kinds :
       /\ b.paid[kind] = Cardinality(Under(chain, b.id, Len(chain), kind))
       /\ b.paid[kind] <= b.caps[kind]

Open(chain, b) ==
  /\ b.id \in 1..Len(chain) /\ chain[b.id].op = "grant_create" /\ chain[b.id].caps = b.caps
  /\ Stands(chain, b) /\ Counted(chain, b)

Spent ==
  /\ Kept(st.chain) /\ \A s \in {0, 1} : Readable(flash[s]) => Kept(flash[s].chain)
  /\ \A i \in Live : Open(st.chain, budgets[i])
  /\ \A i, j \in Live : budgets[i].id = budgets[j].id => i = j

-----------------------------------------------------------------------------
(* The operators. *)

(* The smallest of some numbers is one of them, and not above any.           *)
LEMMA FirstIsLeast ==
  ASSUME NEW S \in SUBSET Nat, S # {}
  PROVE  FirstOf(S) \in S /\ \A j \in S : FirstOf(S) <= j
<1>1. PICK i \in S : \A j \in S : ~(<<j, i>> \in OpToRel(<, Nat))
  BY NatLessThanWellFounded, WFMin
<1>2. ASSUME NEW j \in S PROVE i <= j
  <2>1. ~(<<j, i>> \in OpToRel(<, Nat))
    BY <1>1
  <2>2. ~(j < i)
    BY <2>1 DEF OpToRel
  <2> QED BY <2>2
<1> QED BY <1>2 DEF FirstOf

LEMMA FirstIsIn == ASSUME NEW S \in SUBSET Nat, S # {} PROVE FirstOf(S) \in S
  BY FirstIsLeast

(* Every link a handler makes. *)
LEMMA LinkTypes ==
  /\ \A r \in Reqs, id \in Nat, step \in Nat : Use(r, id, step) \in Links /\ Use(r, id, step).op = "use"
  /\ \A id \in Nat, caps \in Offers : Opened(id, caps) \in Links /\ Opened(id, caps).op = "grant_create"
  /\ \A id \in Nat, how \in {"revoked", "completed", "settled"} :
       Ended(id, how) \in Links /\ Ended(id, how).op = "grant_end"
  /\ \A id \in Nat : HeldBack(id) \in Links /\ HeldBack(id).op = "grant_hold"
  /\ \A id \in Nat : Resumed(id) \in Links /\ Resumed(id).op = "grant_resume"
  /\ \A ref \in Nat : Receipt(ref) \in Links /\ Receipt(ref).op = "receipt"
  /\ \A ref \in Nat : Settled(ref) \in Links /\ Settled(ref).op = "settle"
  /\ \A range \in Ranges, next \in Nexts : Lost(range, next) \in Links /\ Lost(range, next).op = "loss"
  /\ \A r \in Reqs : Certified(r) \in Links /\ Certified(r).op = "certify"
  /\ \A dev \in Nat, owed \in Nat : Continued(dev, owed) \in Links /\ Continued(dev, owed).op = "continue"
<1>1. /\ \A r \in Reqs, id \in Nat, step \in Nat : Use(r, id, step).op = "use"
      /\ \A id \in Nat, caps \in Offers : Opened(id, caps).op = "grant_create"
      /\ \A id \in Nat, how \in {"revoked", "completed", "settled"} : Ended(id, how).op = "grant_end"
      /\ \A id \in Nat : HeldBack(id).op = "grant_hold"
      /\ \A id \in Nat : Resumed(id).op = "grant_resume"
      /\ \A ref \in Nat : Receipt(ref).op = "receipt"
      /\ \A ref \in Nat : Settled(ref).op = "settle"
      /\ \A range \in Ranges, next \in Nexts : Lost(range, next).op = "loss"
      /\ \A r \in Reqs : Certified(r).op = "certify"
      /\ \A dev \in Nat, owed \in Nat : Continued(dev, owed).op = "continue"
  BY DEF Use, Opened, Ended, HeldBack, Resumed, Receipt, Settled, Lost, Certified, Continued
<1>2. /\ \A r \in Reqs, id \in Nat, step \in Nat : Use(r, id, step) \in Links
      /\ \A id \in Nat, caps \in Offers : Opened(id, caps) \in Links
      /\ \A id \in Nat, how \in {"revoked", "completed", "settled"} : Ended(id, how) \in Links
  BY DEF Links
<1>3. \A id \in Nat : HeldBack(id) \in Links /\ Resumed(id) \in Links
  BY DEF Links
<1>4. \A ref \in Nat : Receipt(ref) \in Links /\ Settled(ref) \in Links
  BY DEF Links
<1>5. /\ \A range \in Ranges, next \in Nexts : Lost(range, next) \in Links
      /\ \A r \in Reqs : Certified(r) \in Links
  BY DEF Links
<1>6. \A dev \in Nat, owed \in Nat : Continued(dev, owed) \in Links
  BY DEF Links
<1> QED BY <1>1, <1>2, <1>3, <1>4, <1>5, <1>6

(* What is owed is a link's number, or nothing. *)
LEMMA AfterType == ASSUME NEW owed \in Nat, NEW link, NEW n \in Nat PROVE After(owed, link, n) \in Nat
  BY DEF After, None

(* The first part of what a handler has to do, and the rest. *)
LEMMA JobFacts ==
  ASSUME RecordOK
  PROVE  /\ Doing("weld") => job \in Welds /\ Tail(job) \in {<<>>, <<"save">>, <<"serve">>, <<"complete">>, <<"settle">>}
         /\ Doing("save") => job \in Saves /\ Tail(job) \in {<<>>, <<"restart">>}
         /\ Doing("eraseA") => job = <<"eraseA", "eraseB">> /\ Tail(job) = <<"eraseB">>
         /\ Doing("eraseB") => job = <<"eraseB">>
         /\ Doing("serve") <=> job = <<"serve">>
         /\ Doing("serveUnlinked") <=> job = <<"serveUnlinked">>
         /\ Doing("complete") => job = <<"complete">>
         /\ Doing("settle") => job = <<"settle">>
         /\ Doing("decide") => job = <<"decide">>
         /\ Doing("restart") => job = <<"restart">>
<1>1. job \in Welds \cup Saves \cup Erases \cup Rests
  BY DEF RecordOK, Jobs
<1>2. Head(<<"serve">>) = "serve" /\ Head(<<"serveUnlinked">>) = "serveUnlinked"
  OBVIOUS
<1>3. Doing("weld") \/ Doing("save") \/ Doing("eraseA") \/ Doing("eraseB") => job # <<"serve">> /\ job # <<"serveUnlinked">>
  BY <1>2 DEF Doing
<1>4. CASE job \in Welds
  <2>1. /\ Head(<<"weld">>) = "weld" /\ Tail(<<"weld">>) = <<>>
        /\ Head(<<"weld", "save">>) = "weld" /\ Tail(<<"weld", "save">>) = <<"save">>
        /\ Head(<<"weld", "serve">>) = "weld" /\ Tail(<<"weld", "serve">>) = <<"serve">>
        /\ Head(<<"weld", "complete">>) = "weld" /\ Tail(<<"weld", "complete">>) = <<"complete">>
        /\ Head(<<"weld", "settle">>) = "weld" /\ Tail(<<"weld", "settle">>) = <<"settle">>
    OBVIOUS
  <2>2. job # <<>> /\ Head(job) = "weld"
    BY <1>4, <2>1 DEF Welds
  <2> QED BY <1>4, <1>3, <2>1, <2>2 DEF Welds, Doing
<1>5. CASE job \in Saves
  <2>1. /\ Head(<<"save">>) = "save" /\ Tail(<<"save">>) = <<>>
        /\ Head(<<"save", "restart">>) = "save" /\ Tail(<<"save", "restart">>) = <<"restart">>
    OBVIOUS
  <2>2. job # <<>> /\ Head(job) = "save"
    BY <1>5, <2>1 DEF Saves
  <2> QED BY <1>5, <1>3, <2>1, <2>2 DEF Saves, Doing
<1>6. CASE job \in Erases
  <2>1. /\ Head(<<"eraseA", "eraseB">>) = "eraseA" /\ Tail(<<"eraseA", "eraseB">>) = <<"eraseB">>
        /\ Head(<<"eraseB">>) = "eraseB" /\ <<"eraseB">> # <<"eraseA", "eraseB">>
    OBVIOUS
  <2>2. job # <<>> /\ Head(job) \in {"eraseA", "eraseB"}
    BY <1>6, <2>1 DEF Erases
  <2> QED BY <1>6, <1>3, <2>1, <2>2 DEF Erases, Doing
<1>7. CASE job \in Rests
  <2>1. /\ Head(<<"serve">>) = "serve" /\ Head(<<"complete">>) = "complete" /\ Head(<<"settle">>) = "settle"
        /\ Head(<<"decide">>) = "decide" /\ Head(<<"serveUnlinked">>) = "serveUnlinked"
        /\ Head(<<"restart">>) = "restart"
    OBVIOUS
  <2> QED BY <1>7, <2>1 DEF Rests, Doing
<1> QED BY <1>1, <1>4, <1>5, <1>6, <1>7

-----------------------------------------------------------------------------
(* What a step does to the record. *)

(* Nothing, *)
Quiet ==
  /\ UNCHANGED <<flash, st, sections, salts, shown, erased>>
  /\ \/ job' = job
     \/ job \in Rests /\ job' \in {<<>>, <<"save">>, <<"settle">>, <<"decide">>, <<"serveUnlinked">>}

(* or one link more, still to be saved, *)
Welded ==
  \E link \in Links :
    /\ st' = [st EXCEPT !.chain = Append(@, link), !.owed = After(@, link, NextN), !.cont = FALSE]
    /\ link.op \in Starts => ~Owes
    /\ job \in Rests /\ job' \in Welds /\ (job' = <<"weld", "serve">> => link.op = "use")
    /\ UNCHANGED <<flash, sections, salts, shown, erased>>

(* or what the write, the boot, or the wipe itself does. *)
Written == Save \/ SaveLink
Booted == Restart \/ TornWrite \/ EraseB \/ FinishRestore

(* The weld, once its link and what comes of the job are known. *)
LEMMA WeldIsWelded ==
  ASSUME RecordOK, ~st.cont, NEW link \in Links, Weld(link), link.op \in Starts => ~Owes,
         job \in Rests, job' \in Welds, job' = <<"weld", "serve">> => link.op = "use",
         UNCHANGED <<flash, sections, salts, shown, erased>>
  PROVE  Welded /\ token' = [on |-> FALSE] /\ st'.cont = FALSE
<1>1. st' = [st EXCEPT !.chain = Append(@, link), !.owed = After(@, link, NextN), !.cont = FALSE] /\ token' = [on |-> FALSE]
  <2>1. st.cont = FALSE /\ st \in Records
    BY DEF RecordOK, Records
  <2> QED BY <2>1 DEF Weld, Records
<1>2. st'.cont = FALSE
  <2>1. st \in Records
    BY DEF RecordOK
  <2> QED BY <1>1, <2>1 DEF Records
<1> QED BY <1>1, <1>2 DEF Welded

(* A budget that may pay is a live one of a key that owes nothing. *)
LEMMA PayersPay ==
  ASSUME RamOK, NEW kind, Payers(kind) # {}
  PROVE  /\ FirstOf(Payers(kind)) \in Live /\ ~Owes /\ ~config /\ token.on
<1>1. Payers(kind) \in SUBSET Live /\ ~Owes /\ ~config /\ token.on
  BY DEF Payers, BudgetsMayPay
<1>2. Live \in SUBSET Nat
  BY EdgeAssumption DEF Live, Slots
<1>3. FirstOf(Payers(kind)) \in Payers(kind)
  BY <1>1, <1>2, FirstIsIn
<1> QED BY <1>1, <1>3

LEMMA LiveBudget ==
  ASSUME RamOK, NEW i \in Live
  PROVE  i \in Slots /\ budgets[i] \in Budgets /\ budgets[i].id \in Nat \ {0} /\ budgets[i].used \in Nat
<1>1. i \in Slots /\ budgets[i].id # 0 /\ budgets[i] \in Budgets \cup {NoBudget}
  BY DEF RamOK, Live, Alive
<1>2. NoBudget.id = 0
  BY DEF NoBudget
<1> QED BY <1>1, <1>2 DEF Budgets

(* A paid use welds a link and leaves a budget that has paid. *)
LEMMA SpendSpends ==
  ASSUME RecordOK, RamOK, ~st.cont, NEW i \in Live, NEW r \in Reqs, Spend(i, r), ~Owes,
         job \in Rests, job' = <<"weld", "serve">>,
         UNCHANGED <<flash, sections, salts, shown, erased>>
  PROVE  Welded /\ token' = [on |-> FALSE] /\ st'.cont = FALSE /\ budgets' \in [Slots -> Budgets \cup {NoBudget}]
<1>1. i \in Slots /\ budgets[i] \in Budgets /\ budgets[i].id \in Nat \ {0} /\ budgets[i].used \in Nat
  BY LiveBudget
<1>2. r.kind \in Kinds
  BY EdgeAssumption
<1> DEFINE b == [budgets[i] EXCEPT !.used = @ + 1, !.paid[r.kind] = @ + 1]
           link == Use(r, budgets[i].id, budgets[i].used + 1)
<1>3. b \in Budgets
  <2>1. [budgets[i].paid EXCEPT ![r.kind] = @ + 1] \in [Kinds -> Nat]
    BY <1>1, <1>2 DEF Budgets
  <2>2. ASSUME NEW old \in Budgets, NEW n \in Nat, NEW p \in [Kinds -> Nat]
        PROVE  [old EXCEPT !.used = n, !.paid = p] \in Budgets
    BY DEF Budgets
  <2>3. b = [budgets[i] EXCEPT !.used = budgets[i].used + 1, !.paid = [budgets[i].paid EXCEPT ![r.kind] = @ + 1]]
    BY <1>1 DEF Budgets
  <2>4. budgets[i].used + 1 \in Nat
    BY <1>1
  <2> QED BY <1>1, <2>1, <2>2, <2>3, <2>4
<1>4. budgets' = [budgets EXCEPT ![i] = b] /\ Weld(link)
  BY <1>1 DEF Spend, RamOK
<1>5. link \in Links /\ link.op = "use"
  <2>1. budgets[i].id \in Nat /\ budgets[i].used + 1 \in Nat
    BY <1>1
  <2>2. \A q \in Reqs, id \in Nat, step \in Nat : Use(q, id, step) \in Links /\ Use(q, id, step).op = "use"
    BY LinkTypes
  <2> HIDE DEF b
  <2> QED BY <2>1, <2>2
<1>6. budgets' \in [Slots -> Budgets \cup {NoBudget}]
  BY <1>1, <1>3, <1>4 DEF RamOK
<1>7. job' \in Welds
  BY DEF Welds
<1> HIDE DEF link
<1> QED BY <1>4, <1>5, <1>6, <1>7, WeldIsWelded

(* So does an ended budget, which leaves a free slot. *)
LEMMA EndBudgetEnds ==
  ASSUME RecordOK, RamOK, ~st.cont, NEW i \in Live, NEW how \in {"revoked", "completed", "settled"}, EndBudget(i, how),
         job \in Rests, job' \in Welds, job' # <<"weld", "serve">>,
         UNCHANGED <<flash, sections, salts, shown, erased>>
  PROVE  Welded /\ token' = [on |-> FALSE] /\ st'.cont = FALSE /\ budgets' \in [Slots -> Budgets \cup {NoBudget}]
<1>1. i \in Slots /\ budgets[i].id \in Nat
  BY LiveBudget
<1>2. budgets' \in [Slots -> Budgets \cup {NoBudget}] /\ Weld(Ended(budgets[i].id, how))
  BY <1>1 DEF EndBudget, RamOK
<1>3. Ended(budgets[i].id, how) \in Links /\ Ended(budgets[i].id, how).op = "grant_end"
  BY <1>1, LinkTypes
<1>4. "grant_end" \notin Starts
  BY DEF Starts
<1> QED BY <1>2, <1>3, <1>4, WeldIsWelded

-----------------------------------------------------------------------------
(* What each handler does to what a boot clears, and to the record. *)

LEMMA ReadyFacts ==
  ASSUME RamOK, Fresh, Ready
  PROVE  job = <<>> /\ job \in Rests /\ job # <<"decide">> /\ ~st.cont /\ ~config
<1>1. job = <<>> /\ ident /\ ~config
  BY DEF Ready, Idle
<1> QED BY <1>1 DEF Fresh, Rests

(* A request that needs a press only waits for it. *)
LEMMA AskPress ==
  ASSUME RecordOK, RamOK, Fresh, Ready, NEW p \in Presses,
         (press' = NoPress /\ UNCHANGED <<wait, pend>>) \/ PressWait(p),
         UNCHANGED <<flash, st, ident, budgets, token, config, held, job, ghosts>>
  PROVE  RamOK' /\ Fresh' /\ Quiet
<1>1. job = <<>> /\ job \in Rests /\ job # <<"decide">> /\ ~st.cont /\ ~config
  BY ReadyFacts
<1>2. press' \in Presses \cup {NoPress} /\ pend' \in Pends \cup {NoPend} /\ wait' \in {"none", "edge", "op"}
  BY DEF PressWait, RamOK
<1>3. RamOK'
  BY <1>1, <1>2 DEF RamOK
<1>4. Fresh'
  BY <1>1 DEF Fresh
<1> QED BY <1>3, <1>4 DEF Quiet, ghosts

LEMMA Asks ==
  ASSUME RecordOK, RamOK, Fresh,
         \/ \E caps \in Offers, v \in BOOLEAN : GrantCreate(caps, v)
         \/ \E id \in Ids, v \in BOOLEAN : GrantResume(id, v)
         \/ Settle
         \/ \E range \in Ranges : Loss(range)
  PROVE  RamOK' /\ Fresh' /\ Quiet
<1>1. st.chain \in Seq(Links)
  BY DEF RecordOK, Records
<1>2. CASE \E caps \in Offers, v \in BOOLEAN : GrantCreate(caps, v)
  <2>1. PICK caps \in Offers, v \in BOOLEAN : GrantCreate(caps, v)
    BY <1>2
  <2> DEFINE p == [what |-> "grant", caps |-> caps, at |-> st.chain]
  <2>2. p \in Presses
    BY <1>1, <2>1 DEF Presses
  <2>3. /\ Ready /\ ((press' = NoPress /\ UNCHANGED <<wait, pend>>) \/ PressWait(p))
        /\ UNCHANGED <<flash, st, ident, budgets, token, config, held, job, ghosts>>
    BY <2>1 DEF GrantCreate
  <2> HIDE DEF p
  <2> QED BY <2>2, <2>3, AskPress
<1>3. CASE \E id \in Ids, v \in BOOLEAN : GrantResume(id, v)
  <2>1. PICK id \in Ids, v \in BOOLEAN : GrantResume(id, v)
    BY <1>3
  <2> DEFINE p == [what |-> "resume", id |-> id, at |-> st.chain]
  <2>2. id \in Nat
    BY LiveBudget DEF Ids
  <2>3. p \in Presses
    BY <1>1, <2>2 DEF Presses
  <2>4. /\ Ready /\ ((press' = NoPress /\ UNCHANGED <<wait, pend>>) \/ PressWait(p))
        /\ UNCHANGED <<flash, st, ident, budgets, token, config, held, job, ghosts>>
    BY <2>1 DEF GrantResume
  <2> HIDE DEF p
  <2> QED BY <2>3, <2>4, AskPress
<1>4. CASE Settle
  <2> DEFINE p == [what |-> "settle"]
  <2>1. p \in Presses
    BY DEF Presses
  <2>2. /\ Ready /\ ((press' = NoPress /\ UNCHANGED <<wait, pend>>) \/ PressWait(p))
        /\ UNCHANGED <<flash, st, ident, budgets, token, config, held, job, ghosts>>
    BY <1>4 DEF Settle
  <2> HIDE DEF p
  <2> QED BY <2>1, <2>2, AskPress
<1>5. CASE \E range \in Ranges : Loss(range)
  <2>1. PICK range \in Ranges : Loss(range)
    BY <1>5
  <2> DEFINE p == [what |-> "loss", range |-> range]
  <2>2. p \in Presses
    BY <2>1 DEF Presses
  <2>3. /\ Ready /\ ((press' = NoPress /\ UNCHANGED <<wait, pend>>) \/ PressWait(p))
        /\ UNCHANGED <<flash, st, ident, budgets, token, config, held, job, ghosts>>
    BY <2>1 DEF Loss
  <2> HIDE DEF p
  <2> QED BY <2>2, <2>3, AskPress
<1> QED BY <1>2, <1>3, <1>4, <1>5

(* A request paid as it comes, or put to the press, or refused. *)
LEMMA PaidAtOnce ==
  ASSUME RecordOK, RamOK, Fresh, NEW r \in Reqs, Certify(r) \/ PayDerive(r)
  PROVE  RamOK' /\ Fresh' /\ (Quiet \/ Welded)
<1>1. job = <<>> /\ job \in Rests /\ job # <<"decide">> /\ ~st.cont /\ ~config
  <2>1. CASE Certify(r)
    BY <2>1, ReadyFacts DEF Certify
  <2>2. CASE PayDerive(r)
    BY <2>2 DEF PayDerive, Idle, Fresh, Rests
  <2> QED BY <2>1, <2>2
<1>2. UNCHANGED <<flash, ident, config, held, ghosts>>
  BY DEF Certify, PayDerive
<1>3. CASE Payers(r.kind) # {} /\ Spend(FirstOf(Payers(r.kind)), r) /\ job' = <<"weld", "serve">> /\ UNCHANGED <<pend, press, wait>>
  <2>1. FirstOf(Payers(r.kind)) \in Live /\ ~Owes
    BY <1>3, PayersPay
  <2> DEFINE i == FirstOf(Payers(r.kind))
  <2> HIDE DEF i
  <2>2. i \in Live /\ Spend(i, r)
    BY <1>3, <2>1 DEF i
  <2>3. Welded /\ token' = [on |-> FALSE] /\ st'.cont = FALSE /\ budgets' \in [Slots -> Budgets \cup {NoBudget}]
    BY <1>1, <1>2, <1>3, <2>1, <2>2, SpendSpends DEF ghosts
  <2>4. job' # <<"decide">>
    BY <1>3
  <2>5. RamOK'
    BY <1>2, <1>3, <2>3, <2>4 DEF RamOK
  <2>6. Fresh'
    BY <1>1, <1>2, <2>3 DEF Fresh
  <2> QED BY <2>3, <2>5, <2>6
<1>4. CASE token' = NoToken /\ PressWait([what |-> "certify", req |-> r]) /\ UNCHANGED <<st, budgets, job>>
  <2>1. [what |-> "certify", req |-> r] \in Presses
    BY DEF Presses
  <2>2. RamOK'
    BY <1>1, <1>2, <1>4, <2>1 DEF RamOK, PressWait, NoToken
  <2>3. Fresh'
    BY <1>1, <1>2, <1>4 DEF Fresh
  <2> QED BY <1>2, <1>4, <2>2, <2>3 DEF Quiet, ghosts
<1>5. CASE token' = NoToken /\ UNCHANGED <<st, budgets, job, pend, press, wait>>
  <2>1. RamOK'
    BY <1>1, <1>2, <1>5 DEF RamOK, NoToken
  <2>2. Fresh'
    BY <1>1, <1>2, <1>5 DEF Fresh
  <2> QED BY <1>2, <1>5, <2>1, <2>2 DEF Quiet, ghosts
<1>6. CASE Certify(r)
  BY <1>3, <1>4, <1>6 DEF Certify
<1>7. CASE PayDerive(r)
  BY <1>3, <1>5, <1>7 DEF PayDerive
<1> QED BY <1>6, <1>7

(* The core's hooks: what they note before a press or a payment. *)
LEMMA Hooks ==
  ASSUME RecordOK, RamOK, Fresh,
         \/ \E r \in Reqs : Primed(r)
         \/ \E r \in Reqs, v \in BOOLEAN : TxStart(r, v)
         \/ Refused \/ RunPaid \/ RunPressed \/ NotApproved \/ PressLate
  PROVE  RamOK' /\ Fresh' /\ Quiet
<1>1. CASE \E r \in Reqs : Primed(r)
  <2>1. PICK r \in Reqs : Primed(r)
    BY <1>1
  <2> DEFINE mismatch == token.on /\ ~TxMatches(r)
             payers   == IF mismatch THEN {} ELSE Payers(r.kind)
             budget   == IF payers = {} THEN None ELSE FirstOf(payers)
  <2>2. /\ job = <<>> /\ ~config /\ wait' = "op" /\ press' = NoPress
        /\ pend' = [active |-> TRUE, req |-> r, refuse |-> mismatch, budget |-> budget]
        /\ token' = IF payers = {} THEN NoToken ELSE token
        /\ UNCHANGED <<flash, st, ident, budgets, config, held, job, ghosts>>
    BY <2>1 DEF Primed, Idle
  <2>3. budget \in Slots \cup {None}
    BY PayersPay, LiveBudget
  <2>4. mismatch \in BOOLEAN
    BY DEF RamOK
  <2> HIDE DEF budget, mismatch, payers
  <2>5. pend' \in Pends
    BY <2>2, <2>3, <2>4 DEF Pends
  <2>6. token'.on \in BOOLEAN /\ (token'.on => token.on)
    BY <2>2 DEF RamOK, NoToken
  <2>7. RamOK'
    BY <2>2, <2>5, <2>6 DEF RamOK
  <2>8. Fresh'
    BY <2>2, <2>6 DEF Fresh
  <2> QED BY <2>2, <2>7, <2>8 DEF Quiet, ghosts
<1>2. CASE \E r \in Reqs, v \in BOOLEAN : TxStart(r, v)
  <2>1. PICK r \in Reqs, v \in BOOLEAN : TxStart(r, v)
    BY <1>2
  <2>2. token'.on = TRUE /\ Ready /\ UNCHANGED <<flash, st, ident, budgets, pend, press, wait, config, held, job, ghosts>>
    BY <2>1 DEF TxStart
  <2>3. RamOK'
    BY <2>2 DEF RamOK
  <2>4. Fresh'
    BY <2>2, ReadyFacts DEF Fresh
  <2> QED BY <2>2, <2>3, <2>4 DEF Quiet, ghosts
<1>3. CASE RunPaid
  <2>1. /\ job = <<>> /\ wait = "op" /\ pend.active /\ wait' = "none" /\ job' = <<"decide">>
        /\ UNCHANGED <<flash, st, ident, budgets, token, pend, press, config, held, sections, salts, boots, shown, erased>>
    BY <1>3 DEF RunPaid, Idle
  <2>2. pend \in Pends
    BY <2>1 DEF RamOK, NoPend
  <2>3. RamOK'
    BY <2>1, <2>2 DEF RamOK
  <2>4. <<"decide">> \notin Welds \cup {<<"complete">>, <<"settle">>}
    BY DEF Welds
  <2>5. Fresh'
    BY <2>1, <2>4 DEF Fresh
  <2>6. job \in Rests
    BY <2>1 DEF Rests
  <2> QED BY <2>1, <2>3, <2>5, <2>6 DEF Quiet, ghosts
<1>4. CASE Refused \/ RunPressed \/ NotApproved \/ PressLate
  <2>1. /\ job = <<>> /\ (wait' = wait \/ wait' = "none") /\ (press' = press \/ press' = NoPress) /\ (pend' = pend \/ pend' = NoPend)
        /\ UNCHANGED <<flash, st, ident, budgets, token, config, held, job, ghosts>>
    BY <1>4 DEF Refused, RunPressed, NotApproved, PressLate, Idle
  <2>2. RamOK'
    BY <2>1 DEF RamOK
  <2>3. Fresh'
    BY <2>1 DEF Fresh
  <2> QED BY <2>1, <2>2, <2>3 DEF Quiet, ghosts
<1> QED BY <1>1, <1>2, <1>3, <1>4

(* Moments no handler is part of, and handlers that are done. *)
LEMMA Moments ==
  ASSUME RecordOK, RamOK, Fresh,
         Serve \/ EnterConfig \/ DeriveIdentity \/ (\E i \in Slots : Expire(i))
  PROVE  RamOK' /\ Fresh' /\ Quiet
<1>1. CASE Serve
  <2>1. /\ job \in {<<"serve">>, <<"serveUnlinked">>} /\ job' = Tail(job)
        /\ UNCHANGED <<flash, st, ram, held, ghosts>>
    BY <1>1, JobFacts DEF Serve
  <2>2. job' = <<>> /\ job \in Rests
    BY <2>1 DEF Rests
  <2>3. RamOK'
    BY <2>1, <2>2 DEF RamOK, ram
  <2>4. Fresh'
    BY <2>1, <2>2 DEF Fresh, ram, Welds
  <2> QED BY <2>1, <2>2, <2>3, <2>4 DEF Quiet, ghosts
<1>2. CASE EnterConfig
  <2>1. /\ wait = "none" /\ config' = TRUE
        /\ UNCHANGED <<flash, st, ident, budgets, token, pend, press, wait, held, job, ghosts>>
    BY <1>2 DEF EnterConfig
  <2>2. RamOK'
    BY <2>1 DEF RamOK
  <2>3. Fresh'
    BY <2>1 DEF Fresh
  <2> QED BY <2>1, <2>2, <2>3 DEF Quiet, ghosts
<1>3. CASE DeriveIdentity
  <2>1. /\ job = <<>> /\ ~st.cont /\ ident' = TRUE /\ job' \in {<<"save">>, <<>>}
        /\ UNCHANGED <<flash, st, budgets, token, pend, press, wait, config, held, ghosts>>
    BY <1>3 DEF DeriveIdentity, Idle
  <2>2. job' # <<"decide">>
    BY <2>1
  <2>3. RamOK'
    BY <2>1, <2>2 DEF RamOK
  <2>4. Fresh'
    BY <2>1 DEF Fresh
  <2> QED BY <2>1, <2>3, <2>4 DEF Quiet, ghosts, Rests
<1>4. CASE \E i \in Slots : Expire(i)
  <2>1. PICK i \in Slots : Expire(i)
    BY <1>4
  <2>2. budgets' = [budgets EXCEPT ![i] = NoBudget] /\ UNCHANGED <<flash, st, ident, token, pend, press, wait, config, held, job, sections, salts, boots, shown, erased>>
    BY <2>1 DEF Expire
  <2>3. RamOK'
    BY <2>2 DEF RamOK
  <2>4. Fresh'
    BY <2>2 DEF Fresh
  <2> QED BY <2>2, <2>3, <2>4 DEF Quiet, ghosts
<1> QED BY <1>1, <1>2, <1>3, <1>4

(* A handler that links without a press. *)
LEMMA Unpressed ==
  ASSUME RecordOK, RamOK, Fresh,
         (\E id \in Ids : GrantRevoke(id) \/ GrantHold(id)) \/ (\E ref \in 1..Len(st.chain) : FileReceipt(ref))
  PROVE  RamOK' /\ Fresh' /\ Welded
<1>1. job = <<>> /\ job \in Rests /\ job # <<"decide">> /\ ~st.cont /\ ~config
  BY ReadyFacts DEF GrantRevoke, GrantHold, FileReceipt
<1>2. UNCHANGED <<flash, ident, pend, press, wait, config, held, ghosts>>
  BY DEF GrantRevoke, GrantHold, FileReceipt
<1>3. "grant_hold" \notin Starts /\ "receipt" \notin Starts
  BY DEF Starts
<1>4. <<"weld">> \in Welds /\ <<"weld", "complete">> \in Welds
  BY DEF Welds
<1>5. job' \in {<<"weld">>, <<"weld", "complete">>} /\ job' # <<"decide">> /\ job' # <<"weld", "serve">>
  <2>1. job' \in {<<"weld">>, <<"weld", "complete">>}
    BY DEF GrantRevoke, GrantHold, FileReceipt
  <2> QED BY <2>1
<1>6. Welded /\ token' = [on |-> FALSE] /\ st'.cont = FALSE /\ budgets' \in [Slots -> Budgets \cup {NoBudget}]
  <2>1. CASE \E id \in Ids : GrantRevoke(id)
    <3>1. PICK id \in Ids : GrantRevoke(id)
      BY <2>1
    <3>2. PICK i \in Named(id) : EndBudget(i, "revoked")
      BY <3>1 DEF GrantRevoke
    <3>3. i \in Live
      BY DEF Named
    <3> QED BY <1>1, <1>2, <1>4, <1>5, <3>2, <3>3, EndBudgetEnds DEF ghosts
  <2>2. CASE \E id \in Ids : GrantHold(id)
    <3>1. PICK id \in Ids : GrantHold(id)
      BY <2>2
    <3>2. PICK i \in Named(id) : budgets' = [budgets EXCEPT ![i].hold = TRUE]
      BY <3>1 DEF GrantHold
    <3>3. i \in Live /\ id = budgets[i].id /\ i \in Slots /\ budgets[i] \in Budgets /\ id \in Nat
      BY LiveBudget DEF Named
    <3>4. [budgets[i] EXCEPT !.hold = TRUE] \in Budgets
      BY <3>3 DEF Budgets
    <3>5. budgets' \in [Slots -> Budgets \cup {NoBudget}]
      BY <3>2, <3>3, <3>4 DEF RamOK
    <3>6. HeldBack(id) \in Links /\ HeldBack(id).op = "grant_hold" /\ Weld(HeldBack(id))
      BY <3>1, <3>3, LinkTypes DEF GrantHold
    <3> QED BY <1>1, <1>2, <1>3, <1>4, <1>5, <3>5, <3>6, WeldIsWelded DEF ghosts
  <2>3. CASE \E ref \in 1..Len(st.chain) : FileReceipt(ref)
    <3>1. PICK ref \in 1..Len(st.chain) : FileReceipt(ref)
      BY <2>3
    <3>2. ref \in Nat /\ Weld(Receipt(ref)) /\ UNCHANGED budgets
      BY <3>1 DEF FileReceipt
    <3>3. Receipt(ref) \in Links /\ Receipt(ref).op = "receipt"
      BY <3>2, LinkTypes
    <3>4. budgets' \in [Slots -> Budgets \cup {NoBudget}]
      BY <3>2 DEF RamOK
    <3> QED BY <1>1, <1>2, <1>3, <1>4, <1>5, <3>2, <3>3, <3>4, WeldIsWelded DEF ghosts
  <2> QED BY <2>1, <2>2, <2>3
<1>7. RamOK'
  BY <1>1, <1>2, <1>5, <1>6 DEF RamOK
<1>8. Fresh'
  BY <1>1, <1>2, <1>6 DEF Fresh
<1> QED BY <1>6, <1>7, <1>8

(* The person approved what waited for a press. *)
LEMMA Approved ==
  ASSUME RecordOK, RamOK, Fresh,
         \/ GrantPressed \/ ResumePressed \/ SettlePressed
         \/ LossPressed \/ CertifyPressed \/ NothingPressed
  PROVE  RamOK' /\ Fresh' /\ (Quiet \/ Welded)
<1> DEFINE what == press.what
<1>1. /\ job = <<>> /\ wait = "edge" /\ wait' = "none" /\ press' = NoPress
      /\ UNCHANGED <<flash, ident, pend, config, held, ghosts>>
  BY DEF GrantPressed, ResumePressed, SettlePressed, LossPressed, CertifyPressed, NothingPressed, Pressed, Idle
<1>2. ~st.cont /\ job \in Rests /\ st.chain \in Seq(Links) /\ NextN \in Nat
  BY <1>1, LenProperties DEF Fresh, Rests, RecordOK, Records, NextN
<1>3. <<"weld">> \in Welds /\ <<"weld">> # <<"decide">> /\ <<"weld">> # <<"weld", "serve">> /\ <<"settle">> # <<"decide">>
  BY DEF Welds
<1>4. "loss" \notin Starts /\ "certify" \notin Starts
  BY DEF Starts
(* What it becomes, once the link it makes and the budgets are known. *)
<1>5. ASSUME NEW link \in Links, Weld(link), link.op \in Starts => ~Owes, job' = <<"weld">>,
             budgets' \in [Slots -> Budgets \cup {NoBudget}]
      PROVE  RamOK' /\ Fresh' /\ Welded
  <2>1. Welded /\ token' = [on |-> FALSE] /\ st'.cont = FALSE
    BY <1>1, <1>2, <1>3, <1>5, WeldIsWelded DEF ghosts
  <2>2. job' # <<"decide">>
    BY <1>3, <1>5
  <2>3. RamOK'
    BY <1>1, <1>5, <2>1, <2>2 DEF RamOK
  <2>4. Fresh'
    BY <1>1, <2>1 DEF Fresh
  <2> QED BY <2>1, <2>3, <2>4
<1>6. ASSUME UNCHANGED <<st, token, budgets>>, job' = job \/ job' = <<"settle">> PROVE RamOK' /\ Fresh' /\ Quiet
  <2>1. job' # <<"decide">>
    BY <1>1, <1>3, <1>6
  <2>2. RamOK'
    BY <1>1, <1>6, <2>1 DEF RamOK
  <2>3. Fresh'
    BY <1>1, <1>2, <1>6 DEF Fresh
  <2> QED BY <1>1, <1>2, <1>6, <2>2, <2>3 DEF Quiet, ghosts
<1>7. CASE GrantPressed
  <2> DEFINE k == FirstOf(FreeSlots)
             opened == [id |-> NextN, uses |-> Total(press.caps), used |-> 0, hold |-> FALSE,
                        caps |-> press.caps, paid |-> [kind \in Kinds |-> 0]]
  <2>1. CASE UNCHANGED <<st, token, budgets, job>>
    BY <1>6, <2>1
  <2>2. CASE /\ ~Owes /\ FreeSlots # {} /\ budgets' = [budgets EXCEPT ![k] = opened]
             /\ Weld(Opened(NextN, press.caps)) /\ job' = <<"weld">>
    <3>1. k \in Slots
      <4>1. FreeSlots \in SUBSET Nat /\ FreeSlots \subseteq Slots
        BY EdgeAssumption DEF FreeSlots, Slots
      <4> QED BY <2>2, <4>1, FirstIsIn
    <3>2. press.caps \in Offers
      <4>1. press.what = "grant" /\ press \in Presses
        BY <1>7 DEF GrantPressed, Pressed, RamOK, NoPress
      <4> QED BY <4>1 DEF Presses
    <3>3. opened \in Budgets
      <4>1. NextN \in Nat \ {0}
        BY <1>2, LenProperties DEF NextN
      <4> QED BY <3>2, <4>1 DEF Budgets
    <3> HIDE DEF k, opened
    <3>4. budgets' \in [Slots -> Budgets \cup {NoBudget}]
      BY <2>2, <3>1, <3>3 DEF RamOK
    <3>5. Opened(NextN, press.caps) \in Links
      BY <1>2, <3>2, LinkTypes
    <3> QED BY <1>5, <2>2, <3>4, <3>5
  <2> QED BY <1>7, <2>1, <2>2 DEF GrantPressed
<1>8. CASE ResumePressed
  <2>1. CASE UNCHANGED <<st, token, budgets, job>>
    BY <1>6, <2>1
  <2>2. CASE /\ ~Owes /\ \E i \in Named(press.id) : budgets' = [budgets EXCEPT ![i].hold = FALSE]
             /\ Weld(Resumed(press.id)) /\ job' = <<"weld">>
    <3>1. PICK i \in Named(press.id) : budgets' = [budgets EXCEPT ![i].hold = FALSE]
      BY <2>2
    <3>2. i \in Live /\ press.id = budgets[i].id /\ i \in Slots /\ budgets[i] \in Budgets /\ press.id \in Nat
      BY LiveBudget DEF Named
    <3>3. [budgets[i] EXCEPT !.hold = FALSE] \in Budgets
      BY <3>2 DEF Budgets
    <3>4. budgets' \in [Slots -> Budgets \cup {NoBudget}]
      BY <3>1, <3>2, <3>3 DEF RamOK
    <3>5. Resumed(press.id) \in Links
      BY <3>2, LinkTypes
    <3> QED BY <1>5, <2>2, <3>4, <3>5
  <2> QED BY <1>8, <2>1, <2>2 DEF ResumePressed
<1>9. CASE SettlePressed
  BY <1>1, <1>6, <1>9 DEF SettlePressed
<1>10. CASE NothingPressed
  BY <1>6, <1>10 DEF NothingPressed
<1>11. CASE LossPressed
  <2> DEFINE n == press.range[2] + 2
             next == IF n <= Len(st.chain) /\ (n = Len(st.chain) \/ held[(n - 1) % HeldSize].n = n) THEN n ELSE None
  <2>1. press.range \in Ranges
    <3>1. press.what = "loss" /\ press \in Presses
      BY <1>11 DEF LossPressed, Pressed, RamOK, NoPress
    <3> QED BY <3>1 DEF Presses
  <2>2. next \in Nexts
    BY <2>1 DEF Nexts
  <2>3. Weld(Lost(press.range, next)) /\ job' = <<"weld">> /\ UNCHANGED budgets
    BY <1>11 DEF LossPressed
  <2> HIDE DEF next
  <2>4. Lost(press.range, next) \in Links /\ Lost(press.range, next).op \notin Starts
    BY <1>4, <2>1, <2>2, LinkTypes
  <2>5. budgets' \in [Slots -> Budgets \cup {NoBudget}]
    BY <2>3 DEF RamOK
  <2> QED BY <1>5, <2>3, <2>4, <2>5
<1>12. CASE CertifyPressed
  <2>1. press.req \in Reqs
    <3>1. press.what = "certify" /\ press \in Presses
      BY <1>12 DEF CertifyPressed, Pressed, RamOK, NoPress
    <3> QED BY <3>1 DEF Presses
  <2>2. Certified(press.req) \in Links /\ Certified(press.req).op \notin Starts
    BY <1>4, <2>1, LinkTypes
  <2>3. Weld(Certified(press.req)) /\ job' = <<"weld">> /\ UNCHANGED budgets
    BY <1>12 DEF CertifyPressed
  <2>4. budgets' \in [Slots -> Budgets \cup {NoBudget}]
    BY <2>3 DEF RamOK
  <2> QED BY <1>5, <2>2, <2>3, <2>4
<1> QED BY <1>7, <1>8, <1>9, <1>10, <1>11, <1>12

LEMMA WeldFirst == <<"weld">> \o <<"complete">> = <<"weld", "complete">> /\ <<"weld">> \o <<"settle">> = <<"weld", "settle">>
<1> DEFINE Words == {"weld", "complete", "settle"}
<1>1. ASSUME NEW word \in Words PROVE <<"weld">> \o <<word>> = <<"weld", word>>
  <2>1. "weld" \in Words
    OBVIOUS
  <2> HIDE DEF Words
  <2>2. <<"weld">> \in Seq(Words)
    BY <2>1
  <2>3. <<"weld">> \o <<word>> \in Seq(Words) /\ <<"weld", word>> \in Seq(Words)
    BY <2>1, <2>2, ConcatProperties
  <2>4. /\ Len(<<"weld">> \o <<word>>) = 2 /\ Len(<<"weld", word>>) = 2
        /\ (<<"weld">> \o <<word>>)[1] = "weld" /\ (<<"weld">> \o <<word>>)[2] = word
    BY <2>2, ConcatProperties
  <2>5. \A n \in 1..2 : (<<"weld">> \o <<word>>)[n] = <<"weld", word>>[n]
    BY <2>4
  <2> QED BY <2>3, <2>4, <2>5, SeqEqual
<1> QED BY <1>1

(* The rest of a handler: what it links after a link, and a decision. *)
LEMMA Goes ==
  ASSUME RecordOK, RamOK, Fresh, Complete \/ SettleNext \/ Decide
  PROVE  RamOK' /\ Fresh' /\ (Quiet \/ Welded)
<1>1. UNCHANGED <<flash, ident, press, wait, config, held, ghosts>> /\ (pend' = pend \/ pend' = NoPend)
  BY DEF Complete, SettleNext, Decide
<1>2. job \in {<<"complete">>, <<"settle">>, <<"decide">>} /\ job \in Rests
  BY JobFacts DEF Complete, SettleNext, Decide, Rests
<1>3. /\ <<"weld">> \in Welds /\ <<"weld", "complete">> \in Welds /\ <<"weld", "settle">> \in Welds
      /\ <<"weld", "serve">> # <<"weld">> /\ <<"weld", "serve">> # <<"weld", "complete">>
      /\ <<"weld", "serve">> # <<"weld", "settle">>
  BY DEF Welds
<1>4. /\ <<"weld">> \o <<"complete">> = <<"weld", "complete">> /\ <<"weld">> \o <<"settle">> = <<"weld", "settle">>
  BY WeldFirst
<1>5. ASSUME Welded, token' = [on |-> FALSE], st'.cont = FALSE, budgets' \in [Slots -> Budgets \cup {NoBudget}]
      PROVE  RamOK' /\ Fresh' /\ Welded
  <2>1. job' # <<"decide">>
    BY <1>5 DEF Welded, Welds
  <2>2. pend' \in Pends \cup {NoPend}
    BY <1>1 DEF RamOK
  <2>3. RamOK'
    BY <1>1, <1>5, <2>1, <2>2 DEF RamOK
  <2>4. Fresh'
    BY <1>1, <1>5 DEF Fresh
  <2> QED BY <1>5, <2>3, <2>4
<1>6. ASSUME UNCHANGED <<st, token, budgets>>, job' \in {<<>>, <<"serveUnlinked">>} PROVE RamOK' /\ Fresh' /\ Quiet
  <2>1. job' # <<"decide">> /\ job' \notin Welds \cup {<<"complete">>, <<"settle">>}
    BY <1>6 DEF Welds
  <2>2. pend' \in Pends \cup {NoPend}
    BY <1>1 DEF RamOK
  <2>3. RamOK'
    BY <1>1, <1>6, <2>1, <2>2 DEF RamOK
  <2>4. Fresh'
    BY <1>1, <1>6, <2>1 DEF Fresh
  <2> QED BY <1>1, <1>2, <1>6, <2>3, <2>4 DEF Quiet, ghosts
<1>7. Live \in SUBSET Nat /\ Fulfilled \in SUBSET Live
  BY EdgeAssumption DEF Live, Slots, Fulfilled
<1>8. CASE Complete
  <2>1. job = <<"complete">> /\ ~st.cont
    BY <1>8, JobFacts DEF Complete, Fresh
  <2>2. CASE Fulfilled # {} /\ EndBudget(FirstOf(Fulfilled), "completed") /\ job' = <<"weld">> \o job
    <3>1. FirstOf(Fulfilled) \in Live
      BY <1>7, <2>2, FirstIsIn
    <3>2. job' \in Welds /\ job' # <<"weld", "serve">>
      BY <1>3, <1>4, <2>1, <2>2
    <3> QED BY <1>1, <1>2, <1>5, <2>1, <2>2, <3>1, <3>2, EndBudgetEnds DEF ghosts
  <2>3. CASE job' = Tail(job) /\ UNCHANGED <<st, budgets, token>>
    <3>1. job' = <<>>
      BY <2>1, <2>3
    <3> QED BY <1>6, <2>3, <3>1
  <2> QED BY <1>8, <2>2, <2>3 DEF Complete
<1>9. CASE SettleNext
  <2>1. job = <<"settle">> /\ ~st.cont
    BY <1>9, JobFacts DEF SettleNext, Fresh
  <2>2. CASE Live # {} /\ EndBudget(FirstOf(Live), "settled") /\ job' = <<"weld">> \o job
    <3>1. FirstOf(Live) \in Live
      BY <1>7, <2>2, FirstIsIn
    <3>2. job' \in Welds /\ job' # <<"weld", "serve">>
      BY <1>3, <1>4, <2>1, <2>2
    <3> QED BY <1>1, <1>2, <1>5, <2>1, <2>2, <3>1, <3>2, EndBudgetEnds DEF ghosts
  <2>3. CASE Weld(Settled(st.owed)) /\ job' = <<"weld">> /\ UNCHANGED budgets
    <3>1. st.owed \in Nat
      BY DEF RecordOK, Records
    <3>2. Settled(st.owed) \in Links /\ Settled(st.owed).op = "settle"
      BY <3>1, LinkTypes
    <3>3. "settle" \notin Starts
      BY DEF Starts
    <3>4. Welded /\ token' = [on |-> FALSE] /\ st'.cont = FALSE
      BY <1>1, <1>2, <1>3, <2>1, <2>3, <3>2, <3>3, WeldIsWelded DEF ghosts
    <3>5. budgets' \in [Slots -> Budgets \cup {NoBudget}]
      BY <2>3 DEF RamOK
    <3> QED BY <1>5, <3>4, <3>5
  <2> QED BY <1>9, <2>2, <2>3 DEF SettleNext
<1>10. CASE Decide
  <2>1. job = <<"decide">> /\ pend \in Pends
    BY <1>10, JobFacts DEF Decide, RamOK
  <2>2. CASE StillPays /\ Spend(pend.budget, pend.req) /\ job' = <<"weld", "serve">>
    <3>1. Payers(pend.req.kind) # {} /\ pend.budget = FirstOf(Payers(pend.req.kind)) /\ pend.req \in Reqs
      BY <2>1, <2>2 DEF StillPays, Pends
    <3>2. pend.budget \in Live /\ ~Owes /\ token.on
      BY <3>1, PayersPay
    <3>3. ~st.cont
      BY <3>2 DEF Fresh
    <3> DEFINE i == pend.budget
               r == pend.req
    <3>4. i \in Live /\ r \in Reqs /\ Spend(i, r)
      BY <2>2, <3>1, <3>2
    <3> HIDE DEF i, r
    <3> QED BY <1>1, <1>2, <1>5, <2>2, <3>2, <3>3, <3>4, SpendSpends DEF ghosts
  <2>3. CASE job' = <<"serveUnlinked">> /\ UNCHANGED <<st, token, budgets>>
    BY <1>6, <2>3
  <2> QED BY <1>10, <2>2, <2>3 DEF Decide
<1> QED BY <1>8, <1>9, <1>10

(* The restored key's first link. *)
LEMMA Continues ==
  ASSUME RecordOK, RamOK, WriteContinue
  PROVE  RamOK' /\ Fresh' /\ Welded
<1> DEFINE link == Continued(st.dev, st.owed)
<1>1. st \in Records /\ st.dev \in Nat /\ st.owed \in Nat
  BY EdgeAssumption DEF RecordOK, Records
<1>2. link \in Links /\ link.op = "continue"
  BY <1>1, LinkTypes
<1>3. /\ job = <<>> /\ ident' = TRUE /\ ~config /\ job' = <<"weld", "save">>
      /\ st' = [st EXCEPT !.cont = FALSE, !.chain = Append(@, link)]
      /\ budgets' = NoBudgets /\ token' = NoToken
      /\ UNCHANGED <<flash, pend, press, wait, config, ghosts>>
  BY DEF WriteContinue, Idle
<1> HIDE DEF link
<1>4. After(st.owed, link, NextN) = st.owed
  BY <1>2 DEF After
<1>5. st' = [st EXCEPT !.chain = Append(@, link), !.owed = After(@, link, NextN), !.cont = FALSE]
  BY <1>1, <1>3, <1>4 DEF Records
<1>6. st'.cont = FALSE
  BY <1>1, <1>3 DEF Records
<1>7. <<"weld", "save">> \in Welds /\ <<"weld", "save">> # <<"weld", "serve">> /\ <<"weld", "save">> # <<"decide">>
  BY DEF Welds
<1>8. "continue" \notin Starts
  BY DEF Starts
<1>9. Welded
  BY <1>2, <1>3, <1>5, <1>7, <1>8 DEF Welded, ghosts, Rests
<1>10. RamOK'
  BY <1>3, <1>7 DEF RamOK, NoBudgets, NoToken
<1>11. Fresh'
  BY <1>3, <1>6 DEF Fresh
<1> QED BY <1>9, <1>10, <1>11

LEMMA RamCleans == ASSUME RamCleared, job' \in {<<>>, <<"eraseA", "eraseB">>} PROVE RamOK' /\ Fresh'
<1>1. /\ ident' = FALSE /\ config' = FALSE /\ token'.on = FALSE /\ wait' = "none"
      /\ budgets' = NoBudgets /\ pend' = NoPend /\ press' = NoPress
  BY DEF RamCleared, NoToken
<1>2. NoBudgets \in [Slots -> Budgets \cup {NoBudget}]
  BY DEF NoBudgets
<1>3. job' # <<"decide">> /\ job' \notin Welds \cup {<<"complete">>, <<"settle">>}
  BY DEF Welds
<1>4. RamOK'
  BY <1>1, <1>2, <1>3 DEF RamOK
<1>5. Fresh'
  BY <1>1, <1>3 DEF Fresh
<1> QED BY <1>4, <1>5

(* What writes, boots, wipes, draws a salt or restores. *)
LEMMA RecordSteps ==
  ASSUME RecordOK, RamOK, Fresh, DrawSalt \/ Restore \/ Written \/ Booted \/ Wipe \/ EraseA
  PROVE  RamOK' /\ Fresh'
<1>1. st \in Records
  BY DEF RecordOK
<1>2. CASE DrawSalt
  <2>1. /\ ~ident /\ st'.cont = st.cont /\ job' = <<"save">> /\ UNCHANGED ram
    BY <1>1, <1>2 DEF DrawSalt, Records
  <2>2. job' # <<"decide">> /\ job' \notin Welds \cup {<<"complete">>, <<"settle">>}
    BY <2>1 DEF Welds
  <2> QED BY <1>2, <2>1, <2>2 DEF RamOK, Fresh, ram, DrawSalt, Idle
<1>3. CASE Restore
  <2>1. /\ config /\ ident' = FALSE /\ budgets' = NoBudgets /\ token' = NoToken /\ job' = <<"save", "restart">>
        /\ UNCHANGED <<pend, press, wait, config>>
    BY <1>3 DEF Restore
  <2>2. job' # <<"decide">> /\ job' \notin Welds \cup {<<"complete">>, <<"settle">>}
    BY <2>1 DEF Welds
  <2>3. wait = "none"
    BY <2>1 DEF Fresh
  <2>4. RamOK'
    BY <2>1, <2>2 DEF RamOK, NoBudgets, NoToken
  <2> QED BY <2>1, <2>2, <2>3, <2>4 DEF Fresh, NoToken
<1>4. CASE Written
  <2>1. /\ st'.cont = st.cont /\ UNCHANGED ram
    BY <1>1, <1>4 DEF Written, Save, SaveLink, StateSave, Records
  <2>2. job' \in {<<>>, <<"save">>, <<"serve">>, <<"complete">>, <<"settle">>, <<"restart">>} /\ (job \in Welds \/ job' \in {<<>>, <<"restart">>})
    BY <1>4, JobFacts DEF Written, Save, SaveLink
  <2>3. job' # <<"decide">> /\ (job' \in {<<>>, <<"restart">>} => job' \notin Welds \cup {<<"complete">>, <<"settle">>})
    BY <2>2 DEF Welds
  <2> QED BY <2>1, <2>2, <2>3 DEF RamOK, Fresh, ram
<1>5. CASE Booted
  <2>1. RamCleared /\ job' = <<>>
    BY <1>5 DEF Booted, Restart, TornWrite, EraseB, FinishRestore, PowerOn
  <2> QED BY <2>1, RamCleans
<1>6. CASE Wipe
  <2>1. RamCleared /\ job' = <<"eraseA", "eraseB">>
    BY <1>6 DEF Wipe
  <2> QED BY <2>1, RamCleans
<1>7. CASE EraseA
  <2>1. UNCHANGED <<st, ram>> /\ job' = <<"eraseB">>
    BY <1>7, JobFacts DEF EraseA
  <2>2. job' # <<"decide">> /\ job' \notin Welds \cup {<<"complete">>, <<"settle">>}
    BY <2>1 DEF Welds
  <2> QED BY <2>1, <2>2 DEF RamOK, Fresh, ram
<1> QED BY <1>2, <1>3, <1>4, <1>5, <1>6, <1>7

(* Every step is one of these. *)
Recorded == Quiet \/ Welded \/ DrawSalt \/ Restore \/ Written \/ Booted \/ Wipe \/ EraseA

(* A step keeps what a boot clears sound, and is of one kind. *)
LEMMA StepKinds ==
  ASSUME RecordOK, RamOK, Fresh, [Next]_vars
  PROVE  RamOK' /\ Fresh' /\ Recorded
<1>1. CASE UNCHANGED vars
  BY <1>1 DEF vars, RamOK, Fresh, Recorded, Quiet
<1>2. CASE Next
  BY <1>2, Asks, PaidAtOnce, Hooks, Moments, Unpressed, Approved, Goes, Continues, RecordSteps
     DEF Next, Recorded, Written, Booted
<1> QED BY <1>1, <1>2

-----------------------------------------------------------------------------
(* The two sectors. *)

Sound(f) ==
  /\ f \in [{0, 1} -> Sectors]
  /\ \A s \in {0, 1} : ~Readable(f[s]) => f[s] = Unreadable
  /\ Parity(f)

LEMMA Sides == ASSUME NEW g \in Nat PROVE g % 2 \in {0, 1} /\ (g + 1) % 2 \in {0, 1} /\ (g + 1) % 2 # g % 2
  OBVIOUS

(* An erased sector and the empty record. *)
LEMMA Blank == Unreadable \in Sectors /\ ~Readable(Unreadable) /\ Unreadable.gen = -1 /\ Empty \in Records /\ Records \subseteq Sectors
<1>1. <<>> \in Seq(Links) /\ 0 \in 0..MaxSalts
  BY EmptySeq, EdgeAssumption
<1>2. Empty \in Records
  BY <1>1 DEF Empty, Records, None
<1>3. -1 \in Nat \cup {-1} /\ Unreadable = [Empty EXCEPT !.gen = -1]
  BY DEF Unreadable
<1>4. Unreadable \in Sectors /\ Unreadable.gen = -1
  BY <1>2, <1>3 DEF Records, Sectors
<1>5. Records \subseteq Sectors
  BY DEF Records, Sectors
<1>6. ~Readable(Unreadable)
  BY <1>4 DEF Readable
<1> QED BY <1>2, <1>4, <1>5, <1>6

(* What is loaded is the later readable record, in its own sector. *)
LEMMA LoadFacts ==
  ASSUME NEW f, Sound(f), NEW new, new = StateLoad(f)
  PROVE  /\ new \in Records /\ new.gen \in Nat
         /\ new.gen = 0 => new = Empty /\ \A s \in {0, 1} : f[s] = Unreadable
         /\ new.gen # 0 => f[new.gen % 2] = new /\ Readable(new)
         /\ f[(new.gen + 1) % 2].gen < new.gen
<1>1. \A s \in {0, 1} : Readable(f[s]) => f[s] \in Records /\ f[s].gen > 0 /\ f[s].gen \in Nat /\ f[s].gen % 2 = s
  BY DEF Sound, Parity, Sectors, Records, Readable
<1>2. \A s \in {0, 1} : ~Readable(f[s]) => f[s] = Unreadable /\ f[s].gen = -1
  BY Blank DEF Sound
<1>3. Empty \in Records /\ Empty.gen = 0
  BY Blank DEF Empty
<1>4. CASE Readable(f[0]) /\ f[0].gen > f[1].gen
  <2>1. new = f[0]
    BY <1>4 DEF StateLoad
  <2>2. new.gen % 2 = 0 /\ (new.gen + 1) % 2 = 1
    BY <1>1, <1>4, <2>1, Sides
  <2> QED BY <1>1, <1>4, <2>1, <2>2
<1>5. CASE ~(Readable(f[0]) /\ f[0].gen > f[1].gen) /\ Readable(f[1])
  <2>1. new = f[1]
    BY <1>5 DEF StateLoad
  <2>2. new.gen % 2 = 1 /\ (new.gen + 1) % 2 = 0
    BY <1>1, <1>5, <2>1, Sides
  <2>3. f[0].gen < f[1].gen
    <3>1. CASE Readable(f[0])
      <4>1. f[0].gen # f[1].gen
        BY <1>1, <1>5, <3>1
      <4> QED BY <1>1, <1>5, <3>1, <4>1
    <3>2. CASE ~Readable(f[0])
      BY <1>1, <1>2, <1>5, <3>2
    <3> QED BY <3>1, <3>2
  <2> QED BY <1>1, <1>5, <2>1, <2>2, <2>3
<1>6. CASE ~Readable(f[0]) /\ ~Readable(f[1])
  <2>1. new = Empty
    BY <1>6 DEF StateLoad
  <2>2. \A s \in {0, 1} : f[s] = Unreadable /\ f[s].gen = -1
    BY <1>2, <1>6
  <2>3. (new.gen + 1) % 2 \in {0, 1}
    BY <1>3, <2>1, Sides
  <2> QED BY <1>3, <2>1, <2>2, <2>3
<1>7. Readable(f[0]) /\ ~(f[0].gen > f[1].gen) => Readable(f[1])
  BY <1>1, <1>2
<1> QED BY <1>4, <1>5, <1>6, <1>7

(* Losing a sector leaves the other sound. *)
LEMMA LoseSector ==
  ASSUME NEW f, Sound(f), NEW s \in {0, 1}
  PROVE  Sound([f EXCEPT ![s] = Unreadable])
  BY Blank DEF Sound, Parity

(* A write that is torn leaves what was loaded, and one that is done is what  *)
(* is loaded.                                                                *)
LEMMA TornLoads ==
  ASSUME NEW f, Sound(f)
  PROVE  StateLoad([f EXCEPT ![SaveTo(StateLoad(f).gen + 1)] = Unreadable]) = StateLoad(f)
<1> DEFINE new == StateLoad(f)
           to == SaveTo(new.gen + 1)
           torn == [f EXCEPT ![to] = Unreadable]
<1>1. /\ new \in Records /\ new.gen \in Nat
      /\ new.gen = 0 => new = Empty /\ \A s \in {0, 1} : f[s] = Unreadable
      /\ new.gen # 0 => f[new.gen % 2] = new /\ Readable(new)
  BY LoadFacts
<1>2. to \in {0, 1} /\ new.gen % 2 \in {0, 1} /\ to # new.gen % 2
  BY <1>1, Sides DEF SaveTo
<1>3. f \in [{0, 1} -> Sectors]
  BY DEF Sound
<1>4. torn[to] = Unreadable /\ torn[new.gen % 2] = f[new.gen % 2]
  BY <1>2, <1>3
<1> HIDE DEF new, to, torn
<1>5. CASE new.gen = 0
  <2>1. torn[0] = Unreadable /\ torn[1] = Unreadable
    BY <1>1, <1>2, <1>4, <1>5
  <2> QED BY <1>1, <1>5, <2>1, Blank DEF StateLoad, new, to, torn
<1>6. CASE new.gen # 0
  <2>1. \/ torn[0] = new /\ torn[1] = Unreadable
        \/ torn[1] = new /\ torn[0] = Unreadable
    BY <1>1, <1>2, <1>4, <1>6
  <2>2. Readable(new) /\ ~Readable(Unreadable) /\ new.gen > Unreadable.gen
    BY <1>1, <1>6, Blank
  <2>3. StateLoad(torn) = new
    BY <2>1, <2>2 DEF StateLoad
  <2> QED BY <2>3 DEF new, to, torn
<1> QED BY <1>5, <1>6

(* A write that is done is what is loaded. *)
LEMMA WriteLoads ==
  ASSUME NEW f, Sound(f), NEW rec, rec \in Records, rec.gen = StateLoad(f).gen + 1
  PROVE  LET g == [f EXCEPT ![SaveTo(rec.gen)] = rec]
         IN  /\ Sound(g) /\ StateLoad(g) = rec
             /\ \A s \in {0, 1} : g[s] = rec \/ (g[s] = f[s] /\ (f[s] = StateLoad(f) \/ f[s] = Unreadable))
<1> DEFINE g == [f EXCEPT ![SaveTo(rec.gen)] = rec]
           new == StateLoad(f)
           to == SaveTo(rec.gen)
<1>1. /\ new \in Records /\ new.gen \in Nat
      /\ new.gen = 0 => new = Empty /\ \A s \in {0, 1} : f[s] = Unreadable
      /\ new.gen # 0 => f[new.gen % 2] = new /\ Readable(new)
  BY LoadFacts
<1>2. to \in {0, 1} /\ new.gen % 2 \in {0, 1} /\ to # new.gen % 2 /\ rec.gen % 2 = to /\ rec.gen > 0 /\ rec.gen > new.gen
  BY <1>1, Sides DEF SaveTo
<1>3. f \in [{0, 1} -> Sectors]
  BY DEF Sound
<1>4. g[to] = rec /\ g[new.gen % 2] = f[new.gen % 2] /\ g \in [{0, 1} -> Sectors]
  BY <1>2, <1>3, Blank
<1> HIDE DEF new, to, g
<1>5. Readable(rec)
  BY <1>1, <1>2 DEF Readable, Records
<1>6. \A s \in {0, 1} : (g[s] = rec /\ s = to) \/ g[s] = f[s]
  BY <1>2, <1>4
<1>7. f[new.gen % 2] = new \/ f[new.gen % 2] = Unreadable
  BY <1>1, <1>2
<1>8. \A s \in {0, 1} : g[s] = rec \/ (g[s] = f[s] /\ (f[s] = new \/ f[s] = Unreadable))
  BY <1>2, <1>4, <1>7
<1>9. Sound(g)
  BY <1>2, <1>4, <1>5, <1>6 DEF Sound, Parity
<1>10. StateLoad(g) = rec
  <2>1. f[new.gen % 2].gen < rec.gen /\ f[new.gen % 2].gen \in Int
    <3>1. rec.gen \in Nat /\ rec.gen > new.gen /\ rec.gen > 0
      BY <1>2 DEF Records
    <3>2. CASE f[new.gen % 2] = new
      BY <1>1, <3>1, <3>2
    <3>3. CASE f[new.gen % 2] = Unreadable
      BY <3>1, <3>3, Blank
    <3> QED BY <1>7, <3>2, <3>3
  <2>2. \/ g[0] = rec /\ g[1].gen < rec.gen /\ g[1].gen \in Int
        \/ g[1] = rec /\ g[0].gen < rec.gen /\ g[0].gen \in Int
    BY <1>2, <1>4, <2>1
  <2>3. rec.gen \in Int
    BY DEF Records
  <2> QED BY <1>5, <2>2, <2>3 DEF StateLoad
<1> QED BY <1>8, <1>9, <1>10 DEF new, g

-----------------------------------------------------------------------------
(* What a step does to the sectors and to the record in RAM. *)

(* The sets of jobs have nothing in common. *)
LEMMA JobSets ==
  /\ \A j \in Welds : j \notin Saves /\ j \notin Erases /\ j \notin Rests
  /\ \A j \in Saves : j \notin Welds /\ j \notin Erases /\ j \notin Rests
  /\ \A j \in Erases : j \notin Welds /\ j \notin Saves /\ j \notin Rests
  /\ \A j \in Rests : j \notin Welds /\ j \notin Saves /\ j \notin Erases
<1>1. \A j \in Welds : j # <<>> /\ Head(j) = "weld"
  BY DEF Welds
<1>2. \A j \in Saves : j # <<>> /\ Head(j) = "save"
  BY DEF Saves
<1>3. \A j \in Erases : j # <<>> /\ Head(j) \in {"eraseA", "eraseB"}
  BY DEF Erases
<1>4. \A j \in Rests : j = <<>> \/ Head(j) \in {"serve", "complete", "settle", "decide", "serveUnlinked", "restart"}
  BY DEF Rests
<1> QED BY <1>1, <1>2, <1>3, <1>4

LEMMA StIsSound == ASSUME RecordOK, InStep PROVE Sound(flash) /\ Newest \in Records /\ st \in Records
<1>1. Sound(flash) /\ st \in Records
  BY DEF RecordOK, InStep, Sound
<1> QED BY <1>1, LoadFacts DEF Newest

(* A sector's account is a part of the sections'. *)
LEMMA SectionsReach ==
  ASSUME RecordOK, InStep, Accounts
  PROVE  /\ job \notin Welds => Len(st.chain) <= Len(sections)
         /\ job \in Welds => Len(st.chain) - 1 <= Len(sections) /\ Len(st.chain) - 1 \in Nat
         /\ Len(st.chain) \in Nat /\ Len(sections) \in Nat
<1>1. Len(st.chain) \in Nat /\ Len(sections) \in Nat
  BY LenProperties DEF RecordOK, Records
<1>2. CASE job \notin Welds
  <2>1. Len(st.chain) <= Len(sections)
    BY <1>2 DEF Accounts, Ledger, Debts
  <2> QED BY <1>1, <1>2, <2>1
<1>3. CASE job \in Welds
  <2>1. Len(Newest.chain) = Len(st.chain) - 1 /\ Sound(flash) /\ Newest \in Records
    BY <1>3, StIsSound DEF InStep
  <2>2. Len(Newest.chain) \in Nat
    BY <2>1, LenProperties DEF Records
  <2>3. Len(Newest.chain) <= Len(sections)
    <3>1. CASE Newest.gen = 0
      <4>1. Newest = Empty
        BY <2>1, <3>1, LoadFacts DEF Newest
      <4>2. Len(Newest.chain) = 0
        BY <4>1, EmptySeq DEF Empty
      <4> QED BY <1>1, <4>2
    <3>2. CASE Newest.gen # 0
      <4>1. flash[Newest.gen % 2] = Newest /\ Readable(Newest) /\ Newest.gen % 2 \in {0, 1}
        BY <2>1, <3>2, LoadFacts, Sides DEF Newest
      <4>2. Ledger(Newest, sections)
        BY <4>1 DEF Accounts
      <4> QED BY <4>2 DEF Ledger
    <3> QED BY <3>1, <3>2
  <2> QED BY <1>1, <1>3, <2>1, <2>2, <2>3
<1> QED BY <1>2, <1>3

(* The record stays in step: with no link, *)
LEMMA QuietRecord == ASSUME RecordOK, InStep, Quiet PROVE RecordOK' /\ InStep' /\ (job' \in Welds <=> job \in Welds)
<1>1. UNCHANGED <<flash, st, sections, salts, shown, erased>> /\ Newest' = Newest
  BY DEF Quiet, Newest
<1>2. CASE job' = job
  <2>1. RecordOK'
    BY <1>1, <1>2 DEF RecordOK
  <2> QED BY <1>1, <1>2, <2>1 DEF InStep
<1>3. CASE job \in Rests /\ job' \in {<<>>, <<"save">>, <<"settle">>, <<"decide">>, <<"serveUnlinked">>}
  <2>1. job' \in Rests \/ job' \in Saves
    BY <1>3 DEF Rests, Saves
  <2>2. job' \notin Welds /\ job' \notin Erases /\ job' # <<"eraseB">> /\ job \notin Welds /\ job \notin Erases
    BY <1>3, <2>1, JobSets DEF Erases
  <2>3. RecordOK'
    BY <1>1, <2>1 DEF RecordOK, Jobs
  <2>4. InStep'
    BY <1>1, <1>3, <2>1, <2>2 DEF InStep
  <2> QED BY <2>2, <2>3, <2>4
<1> QED BY <1>2, <1>3 DEF Quiet

(* with one more, *)
LEMMA WeldedRecord == ASSUME RecordOK, InStep, Welded PROVE RecordOK' /\ InStep'
<1>1. PICK link \in Links :
        /\ st' = [st EXCEPT !.chain = Append(@, link), !.owed = After(@, link, NextN), !.cont = FALSE]
        /\ job \in Rests /\ job' \in Welds
        /\ UNCHANGED <<flash, sections, salts, shown, erased>>
  BY DEF Welded
<1>2. st \in Records /\ st.owed \in Nat /\ st.chain \in Seq(Links) /\ NextN \in Nat
  BY LenProperties DEF RecordOK, Records, NextN
<1> DEFINE chain == Append(st.chain, link)
           owed == After(st.owed, link, NextN)
<1>3. chain \in Seq(Links) /\ Len(chain) = Len(st.chain) + 1 /\ owed \in Nat
  BY <1>2, AppendProperties, AfterType
<1>4. st' = [st EXCEPT !.chain = chain, !.owed = owed, !.cont = FALSE]
  BY <1>1
<1> HIDE DEF chain, owed
<1>5. st' \in Records /\ st'.gen = st.gen /\ st'.chain = chain
  BY <1>2, <1>3, <1>4 DEF Records
<1>6. job' \notin Rests /\ job' \notin Erases /\ job' # <<"eraseB">> /\ job \notin Erases
  BY <1>1, JobSets DEF Erases
<1>7. RecordOK'
  BY <1>1, <1>5 DEF RecordOK, Jobs
<1>8. Newest' = Newest
  BY <1>1 DEF Newest
<1>9. Len(Newest'.chain) = Len(st'.chain) - 1
  <2>1. st = Newest /\ Len(st.chain) \in Nat
    BY <1>1, <1>2, LenProperties DEF InStep
  <2> QED BY <1>3, <1>5, <1>8, <2>1
<1>10. InStep'
  BY <1>1, <1>5, <1>6, <1>8, <1>9 DEF InStep
<1> QED BY <1>7, <1>10

(* when it is saved, *)
LEMMA WrittenRecord ==
  ASSUME RecordOK, InStep, Accounts, Written
  PROVE  /\ RecordOK' /\ InStep' /\ Newest' = st' /\ job' \notin Welds
         /\ st' = [st EXCEPT !.gen = st.gen + 1]
         /\ \A s \in {0, 1} : flash'[s] = st' \/ (flash'[s] = flash[s] /\ (flash[s] = Newest \/ flash[s] = Unreadable))
<1>1. /\ st' = [st EXCEPT !.gen = st.gen + 1] /\ flash' = [flash EXCEPT ![SaveTo(st.gen + 1)] = st']
      /\ salts' = salts
  BY DEF Written, Save, SaveLink, StateSave
<1>2. job \in Welds \cup Saves /\ job' \in {<<>>, <<"save">>, <<"serve">>, <<"complete">>, <<"settle">>, <<"restart">>}
  BY JobFacts DEF Written, Save, SaveLink
<1>3. job \notin Erases /\ job' \in Rests \cup Saves /\ job' \in Jobs
  BY <1>2, JobSets DEF Rests, Saves, Jobs
<1>4. job' \notin Welds /\ job' \notin Erases /\ job' # <<"eraseB">>
  BY <1>3, JobSets DEF Erases
<1>5. st \in Records /\ st.gen = Newest.gen /\ Sound(flash)
  BY <1>3, StIsSound DEF InStep
<1>6. st' \in Records /\ st'.gen = Newest.gen + 1
  BY <1>1, <1>5 DEF Records
<1>7. /\ Sound(flash') /\ StateLoad(flash') = st'
      /\ \A s \in {0, 1} : flash'[s] = st' \/ (flash'[s] = flash[s] /\ (flash[s] = Newest \/ flash[s] = Unreadable))
  <2> DEFINE kept == st'
             written == flash'
  <2>1. /\ kept \in Records /\ kept.gen = StateLoad(flash).gen + 1 /\ Sound(flash)
        /\ written = [flash EXCEPT ![SaveTo(kept.gen)] = kept]
    BY <1>1, <1>5, <1>6 DEF Newest
  <2> HIDE DEF kept, written
  <2>2. /\ Sound(written) /\ StateLoad(written) = kept
        /\ \A s \in {0, 1} : written[s] = kept \/ (written[s] = flash[s] /\ (flash[s] = StateLoad(flash) \/ flash[s] = Unreadable))
    BY <2>1, WriteLoads
  <2> QED BY <2>2 DEF kept, written, Newest
<1>8. Newest' = st'
  BY <1>7 DEF Newest
<1>9. shown' \in [1..MaxSalts -> Seq(Links)]
  <2>1. shown \in [1..MaxSalts -> Seq(Links)] /\ st.chain \in Seq(Links) /\ <<>> \in Seq(Links)
    BY <1>5, EmptySeq DEF RecordOK, Records
  <2>2. \A d \in 1..MaxSalts : StillShown(d) \in Seq(Links)
    BY <2>1 DEF StillShown
  <2> HIDE DEF StillShown
  <2>3. CASE shown' = [d \in DOMAIN shown |-> StillShown(d)]
    BY <2>1, <2>2, <2>3
  <2>4. CASE shown' = [d \in DOMAIN shown |-> IF d = st.dev THEN st.chain ELSE StillShown(d)]
    BY <2>1, <2>2, <2>4
  <2> QED BY <2>3, <2>4 DEF Written, Save, SaveLink
<1>10. sections' \in Seq(Nat)
  <2>1. CASE Save
    BY <2>1 DEF Save, RecordOK
  <2>2. CASE SaveLink
    <3>1. job \in Welds /\ sections' = Append(SubSeq(sections, 1, Len(st.chain) - 1), st.owed)
      BY <2>2, JobFacts DEF SaveLink
    <3>2. Len(st.chain) - 1 \in Nat /\ Len(st.chain) - 1 <= Len(sections) /\ Len(sections) \in Nat /\ sections \in Seq(Nat)
      BY <3>1, SectionsReach DEF RecordOK
    <3>3. \A i \in 1..(Len(st.chain) - 1) : sections[i] \in Nat
      BY <3>2
    <3>4. SubSeq(sections, 1, Len(st.chain) - 1) \in Seq(Nat)
      BY <3>2, <3>3, SubSeqProperties
    <3>5. st.owed \in Nat
      BY <1>5 DEF Records
    <3> QED BY <3>1, <3>4, <3>5, AppendProperties
  <2> QED BY <2>1, <2>2 DEF Written
<1>11. RecordOK'
  BY <1>1, <1>3, <1>6, <1>7, <1>9, <1>10 DEF RecordOK, Sound
<1>12. InStep'
  BY <1>4, <1>7, <1>8 DEF InStep, Sound
<1> QED BY <1>1, <1>4, <1>7, <1>8, <1>11, <1>12

(* when it is loaded, *)
LEMMA BootedRecord ==
  ASSUME RecordOK, InStep, Booted
  PROVE  /\ RecordOK' /\ InStep' /\ st' = Newest' /\ job' = <<>> /\ UNCHANGED <<salts, shown, erased>>
         /\ \/ Newest' = Newest /\ UNCHANGED sections
               /\ \A s \in {0, 1} : flash'[s] = flash[s] \/ flash'[s] = Unreadable
            \/ job = <<"eraseB">> /\ Newest' = Empty /\ \A s \in {0, 1} : flash'[s] = Unreadable
<1>1. Sound(flash) /\ Newest \in Records /\ flash \in [{0, 1} -> Sectors]
  BY StIsSound DEF RecordOK
<1>2. st' = Newest' /\ job' = <<>> /\ UNCHANGED <<salts, shown, erased>>
  BY DEF Booted, Restart, TornWrite, EraseB, FinishRestore, PowerOn, Newest, ghosts
<1>3. /\ Sound(flash') /\ sections' \in Seq(Nat)
      /\ \/ Newest' = Newest /\ UNCHANGED sections
            /\ \A s \in {0, 1} : flash'[s] = flash[s] \/ flash'[s] = Unreadable
         \/ job = <<"eraseB">> /\ Newest' = Empty /\ \A s \in {0, 1} : flash'[s] = Unreadable
  <2>1. CASE Restart \/ FinishRestore
    <3>1. flash' = flash /\ sections' = sections
      BY <2>1 DEF Restart, FinishRestore, PowerOn, ghosts
    <3>2. Newest' = Newest
      BY <3>1 DEF Newest
    <3> QED BY <1>1, <3>1, <3>2 DEF RecordOK
  <2>2. CASE TornWrite
    <3>1. /\ flash' = [flash EXCEPT ![SaveTo(st.gen + 1)] = Unreadable] /\ sections' = sections
          /\ job \in Welds \cup Saves
      BY <2>2, JobFacts DEF TornWrite, PowerOn
    <3>2. st.gen = Newest.gen /\ st.gen \in Nat /\ SaveTo(st.gen + 1) \in {0, 1}
      BY <3>1, JobSets, Sides DEF InStep, RecordOK, Records, SaveTo
    <3>3. Sound(flash')
      BY <1>1, <3>1, <3>2, LoseSector
    <3>4. Newest' = Newest
      BY <1>1, <3>1, <3>2, TornLoads DEF Newest
    <3> QED BY <1>1, <3>1, <3>2, <3>3, <3>4 DEF RecordOK
  <2>3. CASE EraseB
    <3>1. job = <<"eraseB">> /\ flash' = [flash EXCEPT ![1] = Unreadable] /\ sections' = <<>>
      BY <2>3, JobFacts DEF EraseB, PowerOn
    <3>2. flash[0] = Unreadable
      BY <3>1 DEF InStep, RecordOK
    <3>3. \A s \in {0, 1} : flash'[s] = Unreadable
      BY <1>1, <3>1, <3>2
    <3>4. Newest' = Empty
      BY <3>3, Blank DEF Newest, StateLoad
    <3>5. Sound(flash')
      BY <1>1, <3>1, LoseSector
    <3>6. sections' \in Seq(Nat)
      BY <3>1, EmptySeq
    <3> QED BY <3>1, <3>3, <3>4, <3>5, <3>6
  <2> QED BY <2>1, <2>2, <2>3 DEF Booted
<1>4. Newest' \in Records
  BY <1>3, LoadFacts DEF Newest
<1>5. job' \in Rests /\ job' \in Jobs
  BY <1>2 DEF Rests, Jobs
<1>6. job' \notin Welds /\ job' # <<"eraseB">>
  BY <1>5, JobSets DEF Erases
<1>7. RecordOK'
  BY <1>2, <1>3, <1>4, <1>5 DEF RecordOK, Sound
<1>8. InStep'
  BY <1>2, <1>3, <1>6 DEF InStep, Sound
<1> QED BY <1>2, <1>3, <1>7, <1>8

(* A new salt, a restored section and a wipe change the record in RAM alone. *)
LEMMA ReplacedRecord ==
  ASSUME RecordOK, InStep, Accounts, DrawSalt \/ Restore \/ Wipe \/ EraseA
  PROVE  RecordOK' /\ InStep' /\ job' \notin Welds
<1>1. /\ st \in Records /\ Sound(flash) /\ flash \in [{0, 1} -> Sectors] /\ shown \in [1..MaxSalts -> Seq(Links)]
      /\ sections \in Seq(Nat) /\ salts \in 0..MaxSalts
  BY StIsSound DEF RecordOK
<1>2. CASE DrawSalt \/ Restore
  <2>1. job = <<>> /\ job \in Rests /\ job \notin Welds
    <3>1. job = <<>>
      BY <1>2 DEF DrawSalt, Restore, Idle
    <3> QED BY <3>1, JobSets DEF Rests
  <2>2. st = Newest /\ UNCHANGED <<flash, sections, shown, erased>>
    BY <1>2, <2>1 DEF InStep, DrawSalt, Restore, ghosts
  <2>3. st' \in Records /\ st'.gen = st.gen /\ salts' \in 0..MaxSalts
    <3>1. CASE DrawSalt
      <4>1. salts < MaxSalts /\ salts' = salts + 1 /\ st' = [st EXCEPT !.dev = salts + 1]
        BY <3>1 DEF DrawSalt
      <4>2. salts + 1 \in 0..MaxSalts
        BY <1>1, <4>1, EdgeAssumption
      <4> QED BY <1>1, <4>1, <4>2 DEF Records
    <3>2. CASE Restore
      <4>1. PICK n \in 1..Len(st.chain) : st' = Restored(Section(n))
        BY <3>2 DEF Restore
      <4>2. Len(st.chain) <= Len(sections) /\ Len(st.chain) \in Nat /\ Len(sections) \in Nat
        BY <2>1, SectionsReach
      <4>3. sections[n] \in Nat
        BY <1>1, <4>1, <4>2
      <4>4. SubSeq(st.chain, 1, n) \in Seq(Links)
        <5>1. \A i \in 1..n : st.chain[i] \in Links
          BY <1>1, <4>2 DEF Records
        <5> QED BY <4>1, <4>2, <5>1, SubSeqProperties
      <4> DEFINE chain == SubSeq(st.chain, 1, n)
                 owed == sections[n]
      <4>5. st' = [Empty EXCEPT !.gen = st.gen, !.chain = chain, !.owed = owed, !.cont = TRUE]
        BY <4>1 DEF Restored, Section
      <4> HIDE DEF chain, owed
      <4>6. chain \in Seq(Links) /\ owed \in Nat /\ st.gen \in Nat /\ Empty \in Records
        BY <1>1, <4>3, <4>4, Blank DEF chain, owed, Records
      <4>7. st' \in Records /\ st'.gen = st.gen
        BY <4>5, <4>6 DEF Records
      <4> QED BY <1>1, <3>2, <4>7 DEF Restore, ghosts
    <3> QED BY <1>2, <3>1, <3>2
  <2>4. job' \in Saves
    BY <1>2 DEF DrawSalt, Restore, Saves
  <2>5. job' \notin Welds /\ job' \notin Rests /\ job' # <<"eraseB">> /\ job \notin Erases /\ Newest' = Newest
    BY <2>1, <2>2, <2>4, JobSets DEF Erases, Newest
  <2>6. RecordOK'
    BY <1>1, <2>2, <2>3, <2>4 DEF RecordOK, Jobs
  <2>7. InStep'
    BY <2>1, <2>2, <2>3, <2>5 DEF InStep
  <2> QED BY <2>5, <2>6, <2>7
<1>3. CASE Wipe
  <2>1. /\ job' = <<"eraseA", "eraseB">> /\ st' = Empty /\ UNCHANGED <<flash, sections, salts>>
        /\ \E gone : shown' = [d \in DOMAIN shown |-> IF d \in gone THEN <<>> ELSE shown[d]]
    BY <1>3 DEF Wipe
  <2>2. job' \in Erases /\ job' # <<"eraseB">>
    BY <2>1 DEF Erases
  <2>3. job' \notin Welds /\ job' \notin Rests
    BY <2>2, JobSets
  <2>4. shown' \in [1..MaxSalts -> Seq(Links)]
    <3>1. <<>> \in Seq(Links)
      BY EmptySeq
    <3> QED BY <1>1, <2>1, <3>1
  <2>5. RecordOK'
    BY <1>1, <2>1, <2>2, <2>4, Blank DEF RecordOK, Jobs
  <2>6. InStep'
    BY <2>1, <2>2, <2>3 DEF InStep
  <2> QED BY <2>3, <2>5, <2>6
<1>4. CASE EraseA
  <2>1. job' = <<"eraseB">> /\ flash' = [flash EXCEPT ![0] = Unreadable] /\ UNCHANGED <<st, sections, salts, shown>>
    BY <1>4, JobFacts DEF EraseA, ghosts
  <2>2. job' \in Erases
    BY <2>1 DEF Erases
  <2>3. job' \notin Welds /\ job' \notin Rests
    BY <2>2, JobSets
  <2>4. Sound(flash') /\ ~Readable(flash'[0])
    BY <1>1, <2>1, LoseSector, Blank
  <2>5. RecordOK'
    BY <1>1, <2>1, <2>2, <2>4 DEF RecordOK, Jobs, Sound
  <2>6. InStep'
    BY <2>2, <2>3, <2>4 DEF InStep, Sound
  <2> QED BY <2>3, <2>5, <2>6
<1> QED BY <1>2, <1>3, <1>4

-----------------------------------------------------------------------------
(* The debt: a chain's debts are one account, whoever welds the chain. *)

(* A part of an account, or of a chain with it. *)
LEMMA LedgerPart ==
  ASSUME NEW rec, NEW debts, Ledger(rec, debts), Len(rec.chain) \in Nat,
         NEW part, NEW paid, Len(part.chain) \in Nat, Len(part.chain) <= Len(rec.chain), Len(part.chain) <= Len(paid),
         \A n \in 1..Len(part.chain) : part.chain[n] = rec.chain[n] /\ paid[n] = debts[n],
         part.owed = At(paid, Len(part.chain))
  PROVE  Ledger(part, paid)
<1> DEFINE L == Len(part.chain)
<1>1. \A n \in 0..L : At(paid, n) = At(debts, n)
  BY DEF At
<1>2. \A n \in 1..L : /\ paid[n] = After(At(paid, n - 1), part.chain[n], n)
                      /\ part.chain[n].op \in Starts => At(paid, n - 1) = None
  <2> TAKE n \in 1..L
  <2>1. n \in 1..Len(rec.chain) /\ n - 1 \in 0..L
    OBVIOUS
  <2>2. /\ debts[n] = After(At(debts, n - 1), rec.chain[n], n)
        /\ rec.chain[n].op \in Starts => At(debts, n - 1) = None
    BY <2>1 DEF Ledger
  <2> QED BY <1>1, <2>1, <2>2
<1>3. ASSUME NEW m \in 0..L, NEW owed, Follows(owed, part.chain, m) PROVE owed[m] = At(paid, m)
  <2>1. m \in 0..Len(rec.chain)
    OBVIOUS
  <2>2. \A n \in 1..m : part.chain[n] = rec.chain[n]
    OBVIOUS
  <2>3. Follows(owed, rec.chain, m)
    BY <1>3, <2>2 DEF Follows
  <2>4. owed[m] = At(debts, m)
    BY <2>1, <2>3 DEF Ledger
  <2> QED BY <1>1, <2>4
<1> QED BY <1>2, <1>3 DEF Ledger

(* One link more. *)
LEMMA LedgerGrows ==
  ASSUME NEW rec, NEW debts, Ledger(rec, debts), Len(rec.chain) \in Nat,
         NEW more, NEW paid, Len(more.chain) = Len(rec.chain) + 1, Len(paid) = Len(more.chain),
         \A n \in 1..Len(rec.chain) : more.chain[n] = rec.chain[n] /\ paid[n] = debts[n],
         more.owed = After(rec.owed, more.chain[Len(more.chain)], Len(more.chain)),
         paid[Len(more.chain)] = more.owed,
         more.chain[Len(more.chain)].op \in Starts => rec.owed = None
  PROVE  Ledger(more, paid)
<1> DEFINE L == Len(rec.chain)
<1>1. Len(more.chain) = L + 1 /\ L + 1 \in Nat /\ L \in 0..L
  OBVIOUS
<1>2. (\A n \in 0..L : At(paid, n) = At(debts, n)) /\ rec.owed = At(debts, L)
  BY DEF At, Ledger
<1>3. more.owed = At(paid, L + 1) /\ more.owed = After(At(debts, L), more.chain[L + 1], L + 1)
  BY <1>1, <1>2 DEF At
<1>4. \A n \in 1..(L + 1) : /\ paid[n] = After(At(paid, n - 1), more.chain[n], n)
                            /\ more.chain[n].op \in Starts => At(paid, n - 1) = None
  <2> TAKE n \in 1..(L + 1)
  <2>1. CASE n = L + 1
    BY <1>1, <1>2, <1>3, <2>1
  <2>2. CASE n \in 1..L
    <3>1. n - 1 \in 0..L
      BY <2>2
    <3>2. /\ debts[n] = After(At(debts, n - 1), rec.chain[n], n)
          /\ rec.chain[n].op \in Starts => At(debts, n - 1) = None
      BY <2>2 DEF Ledger
    <3> QED BY <1>2, <2>2, <3>1, <3>2
  <2> QED BY <2>1, <2>2
<1>5. ASSUME NEW m \in 0..(L + 1), NEW owed, Follows(owed, more.chain, m) PROVE owed[m] = At(paid, m)
  <2>1. ASSUME NEW k \in 0..L, k <= m PROVE owed[k] = At(paid, k)
    <3>1. Follows(owed, rec.chain, k)
      <4>1. \A n \in 1..k : n \in 1..m /\ rec.chain[n] = more.chain[n]
        BY <2>1
      <4> QED BY <1>5, <4>1 DEF Follows
    <3>2. owed[k] = At(debts, k)
      BY <3>1 DEF Ledger
    <3> QED BY <1>2, <3>2
  <2>2. CASE m \in 0..L
    BY <2>1, <2>2
  <2>3. CASE m = L + 1
    <3>1. owed[L + 1] = After(owed[L], more.chain[L + 1], L + 1)
      <4>1. L + 1 \in 1..m /\ (L + 1) - 1 = L
        BY <2>3
      <4> QED BY <1>5, <4>1 DEF Follows
    <3>2. owed[L] = At(paid, L)
      BY <2>1, <2>3
    <3> QED BY <1>1, <1>2, <1>3, <2>3, <3>1, <3>2
  <2> QED BY <2>2, <2>3
<1>6. \A m \in 0..(L + 1) : \A owed : Follows(owed, more.chain, m) => owed[m] = At(paid, m)
  BY <1>5
<1> HIDE DEF L
<1> QED BY <1>1, <1>3, <1>4, <1>6 DEF Ledger

(* The empty record owes nothing. *)
LEMMA EmptyLedger == ASSUME NEW debts, Len(debts) \in Nat PROVE Ledger(Empty, debts)
<1>1. Len(Empty.chain) = 0 /\ Empty.owed = None
  BY EmptySeq DEF Empty
<1> QED BY <1>1 DEF Ledger, At, Follows

(* An account looks at a record's chain and debt, not at its generation. *)
LEMMA SameLedger ==
  ASSUME NEW rec, NEW debts, Ledger(rec, debts), NEW same, same.chain = rec.chain, same.owed = rec.owed
  PROVE  Ledger(same, debts)
  BY DEF Ledger

(* The record a boot would load has its account. *)
LEMMA NewestLedger == ASSUME RecordOK, InStep, Accounts PROVE Ledger(Newest, sections)
<1>1. Sound(flash) /\ Newest \in Records /\ Len(sections) \in Nat
  BY StIsSound, LenProperties DEF RecordOK
<1>2. CASE Newest.gen = 0
  <2>1. Newest = Empty
    BY <1>1, <1>2, LoadFacts DEF Newest
  <2> QED BY <1>1, <2>1, EmptyLedger
<1>3. CASE Newest.gen # 0
  <2>1. flash[Newest.gen % 2] = Newest /\ Readable(Newest) /\ Newest.gen % 2 \in {0, 1}
    BY <1>1, <1>3, LoadFacts, Sides DEF Newest, Records
  <2> QED BY <2>1 DEF Accounts
<1> QED BY <1>2, <1>3

(* The sections a link's save leaves behind, link by link. *)
LEMMA DebtsOfWeld ==
  ASSUME NEW L \in Nat, L <= Len(sections), sections \in Seq(Nat), NEW owed \in Nat,
         NEW debts, debts = Append(SubSeq(sections, 1, L), owed)
  PROVE  debts \in Seq(Nat) /\ Len(debts) = L + 1 /\ debts[L + 1] = owed /\ \A n \in 1..L : debts[n] = sections[n]
<1>1. \A n \in 1..L : sections[n] \in Nat
  BY LenProperties
<1>2. /\ SubSeq(sections, 1, L) \in Seq(Nat) /\ Len(SubSeq(sections, 1, L)) = L
      /\ \A n \in 1..L : SubSeq(sections, 1, L)[n] = sections[n]
  BY <1>1, SubSeqProperties
<1> QED BY <1>2, AppendProperties

(* A step keeps the accounts. *)
LEMMA AccountsStep ==
  ASSUME RecordOK, InStep, Accounts, RecordOK', InStep', Recorded
  PROVE  Accounts'
<1>1. /\ st \in Records /\ st.chain \in Seq(Links) /\ Len(st.chain) \in Nat /\ st.owed \in Nat
      /\ sections \in Seq(Nat) /\ Len(sections) \in Nat
  BY LenProperties DEF RecordOK, Records
<1>2. CASE Quiet
  <2>1. UNCHANGED <<flash, st, sections>> /\ (job' \in Welds <=> job \in Welds)
    BY <1>2, QuietRecord DEF Quiet
  <2>2. Debts' = Debts
    BY <2>1 DEF Debts
  <2> QED BY <2>1, <2>2 DEF Accounts
<1>3. CASE Welded
  <2>1. PICK link \in Links :
          /\ st' = [st EXCEPT !.chain = Append(@, link), !.owed = After(@, link, NextN), !.cont = FALSE]
          /\ link.op \in Starts => ~Owes
          /\ job \in Rests /\ job' \in Welds
          /\ UNCHANGED <<flash, sections>>
    BY <1>3 DEF Welded
  <2> DEFINE L == Len(st.chain)
             chain == Append(st.chain, link)
             owed == After(st.owed, link, NextN)
             paid == Append(SubSeq(sections, 1, L), owed)
  <2>2. /\ Len(chain) = L + 1 /\ chain[L + 1] = link /\ \A n \in 1..L : chain[n] = st.chain[n]
    BY <1>1, AppendProperties
  <2>3. owed \in Nat /\ owed = After(st.owed, link, L + 1)
    BY <1>1, AfterType DEF NextN
  <2>4. st' = [st EXCEPT !.chain = chain, !.owed = owed, !.cont = FALSE]
    BY <2>1
  <2> HIDE DEF chain, owed
  <2>5. st'.chain = chain /\ st'.owed = owed
    BY <1>1, <2>4 DEF Records
  <2>6. job \notin Welds /\ Debts = sections /\ L <= Len(sections)
    BY <2>1, JobSets, SectionsReach DEF Debts
  <2>7. Debts' = paid
    <3>1. Len(st'.chain) - 1 = L
      BY <1>1, <2>2, <2>5
    <3> QED BY <2>1, <2>5, <3>1 DEF Debts
  <2>8. Len(paid) = L + 1 /\ paid[L + 1] = owed /\ \A n \in 1..L : paid[n] = sections[n]
    BY <1>1, <2>3, <2>6, DebtsOfWeld
  <2> HIDE DEF paid, L
  <2>9. Ledger(st, sections)
    BY <2>6 DEF Accounts
  <2>10. link.op \in Starts => st.owed = None
    BY <2>1 DEF Owes
  <2>11. Ledger(st', paid)
    <3> DEFINE more == st'
    <3>1. more.chain = chain /\ more.owed = owed
      BY <2>5
    <3> HIDE DEF more
    <3>2. L \in Nat /\ Len(st.chain) = L
      BY <1>1 DEF L
    <3>3. /\ Len(more.chain) = Len(st.chain) + 1 /\ Len(paid) = Len(more.chain) /\ Len(st.chain) \in Nat
          /\ \A n \in 1..Len(st.chain) : more.chain[n] = st.chain[n] /\ paid[n] = sections[n]
          /\ paid[Len(more.chain)] = more.owed
      BY <2>2, <2>8, <3>1, <3>2
    <3>4. /\ more.owed = After(st.owed, more.chain[Len(more.chain)], Len(more.chain))
          /\ more.chain[Len(more.chain)].op \in Starts => st.owed = None
      BY <2>2, <2>3, <2>10, <3>1, <3>2
    <3>5. Ledger(more, paid)
      BY <2>9, <3>3, <3>4, LedgerGrows
    <3> QED BY <3>5 DEF more
  <2> QED BY <2>1, <2>7, <2>11 DEF Accounts
<1>4. CASE Written
  <2>1. /\ st' = [st EXCEPT !.gen = st.gen + 1] /\ job' \notin Welds
        /\ \A s \in {0, 1} : flash'[s] = st' \/ (flash'[s] = flash[s] /\ (flash[s] = Newest \/ flash[s] = Unreadable))
    BY <1>4, WrittenRecord
  <2>2. st'.chain = st.chain /\ st'.owed = st.owed /\ Ledger(st, Debts)
    BY <1>1, <2>1 DEF Records, Accounts
  <2>3. Ledger(st', Debts)
    BY <2>2, SameLedger
  <2>4. sections' = Debts
    BY <1>4, JobFacts, JobSets DEF Written, Save, SaveLink, Debts
  <2>5. Debts' = Debts
    BY <2>1, <2>4 DEF Debts
  <2>6. Ledger(Newest, sections')
    <3>1. CASE job \in Welds
      <4>1. Len(Newest.chain) = Len(st.chain) - 1 /\ Len(st.chain) - 1 \in Nat /\ Len(st.chain) - 1 <= Len(sections)
        BY <3>1, SectionsReach DEF InStep
      <4> DEFINE L == Len(st.chain) - 1
                 paid == Append(SubSeq(sections, 1, L), st.owed)
      <4>2. Debts = paid
        BY <3>1 DEF Debts
      <4>3. Len(paid) = L + 1 /\ \A n \in 1..L : paid[n] = sections[n]
        BY <1>1, <4>1, DebtsOfWeld
      <4>4. Ledger(Newest, sections)
        BY NewestLedger
      <4> HIDE DEF paid
      <4>5. Newest.owed = At(paid, L)
        <5>1. Newest.owed = At(sections, L)
          BY <4>1, <4>4 DEF Ledger
        <5>2. L \in Nat
          BY <4>1
        <5> HIDE DEF L
        <5>3. L # 0 => paid[L] = sections[L]
          <6>1. L # 0 => L \in 1..L
            BY <5>2
          <6> QED BY <4>3, <6>1
        <5> QED BY <5>1, <5>3 DEF At
      <4>6. Ledger(Newest, paid)
        BY <4>1, <4>3, <4>4, <4>5, LedgerPart
      <4> QED BY <2>4, <4>2, <4>6
    <3>2. CASE job \notin Welds
      BY <2>4, <3>2, NewestLedger DEF Debts
    <3> QED BY <3>1, <3>2
  <2>7. \A s \in {0, 1} : Readable(flash'[s]) => Ledger(flash'[s], sections')
    BY <2>1, <2>3, <2>4, <2>6, Blank
  <2> QED BY <2>3, <2>5, <2>7 DEF Accounts
<1>5. CASE Booted
  <2>1. /\ st' = Newest' /\ job' = <<>>
        /\ \/ Newest' = Newest /\ UNCHANGED sections
              /\ \A s \in {0, 1} : flash'[s] = flash[s] \/ flash'[s] = Unreadable
           \/ Newest' = Empty /\ \A s \in {0, 1} : flash'[s] = Unreadable
    BY <1>5, BootedRecord
  <2>2. job' \notin Welds
    BY <2>1, JobSets DEF Rests
  <2>3. Debts' = sections'
    BY <2>2 DEF Debts
  <2>4. Len(sections') \in Nat
    BY LenProperties DEF RecordOK
  <2>5. CASE /\ Newest' = Newest /\ UNCHANGED sections
             /\ \A s \in {0, 1} : flash'[s] = flash[s] \/ flash'[s] = Unreadable
    <3>1. Ledger(st', Debts')
      BY <2>1, <2>3, <2>5, NewestLedger
    <3>2. \A s \in {0, 1} : Readable(flash'[s]) => Ledger(flash'[s], sections')
      BY <2>5, Blank DEF Accounts
    <3> QED BY <3>1, <3>2 DEF Accounts
  <2>6. CASE Newest' = Empty /\ \A s \in {0, 1} : flash'[s] = Unreadable
    <3>1. Ledger(st', Debts')
      BY <2>1, <2>3, <2>4, <2>6, EmptyLedger
    <3>2. \A s \in {0, 1} : ~Readable(flash'[s])
      BY <2>6, Blank
    <3> QED BY <3>1, <3>2 DEF Accounts
  <2> QED BY <2>1, <2>5, <2>6
<1>6. CASE DrawSalt \/ Restore \/ Wipe \/ EraseA
  <2>1. job' \notin Welds /\ job \notin Welds
    <3>1. job \in {<<>>, <<"eraseA", "eraseB">>}
      BY <1>6, JobFacts DEF DrawSalt, Restore, Wipe, EraseA, Idle
    <3>2. job \notin Welds
      BY <3>1, JobSets DEF Rests, Erases
    <3> QED BY <1>6, <3>2, ReplacedRecord
  <2>2. sections' = sections /\ \A s \in {0, 1} : flash'[s] = flash[s] \/ flash'[s] = Unreadable
    <3>1. flash \in [{0, 1} -> Sectors]
      BY DEF RecordOK
    <3> QED BY <1>6, <3>1 DEF DrawSalt, Restore, Wipe, EraseA, ghosts
  <2>3. Debts = sections /\ Debts' = sections
    BY <2>1, <2>2 DEF Debts
  <2>4. \A s \in {0, 1} : Readable(flash'[s]) => Ledger(flash'[s], sections')
    BY <2>2, Blank DEF Accounts
  <2>5. Ledger(st', sections)
    <3>1. Ledger(st, sections)
      BY <2>3 DEF Accounts
    <3>2. CASE DrawSalt \/ EraseA
      <4>1. st'.chain = st.chain /\ st'.owed = st.owed
        BY <1>1, <3>2 DEF DrawSalt, EraseA, Records
      <4> QED BY <3>1, <4>1, SameLedger
    <3>3. CASE Wipe
      BY <1>1, <3>3, EmptyLedger DEF Wipe
    <3>4. CASE Restore
      <4>1. PICK n \in 1..Len(st.chain) : st' = Restored(Section(n))
        BY <3>4 DEF Restore
      <4> DEFINE chain == SubSeq(st.chain, 1, n)
                 owed == sections[n]
      <4>2. st' = [Empty EXCEPT !.gen = st.gen, !.chain = chain, !.owed = owed, !.cont = TRUE]
        BY <4>1 DEF Restored, Section
      <4>3. /\ Len(chain) = n /\ \A k \in 1..n : chain[k] = st.chain[k]
        <5>1. \A k \in 1..n : st.chain[k] \in Links
          BY <1>1
        <5> QED BY <1>1, <4>1, <5>1, SubSeqProperties
      <4> HIDE DEF chain, owed
      <4>4. st'.chain = chain /\ st'.owed = owed
        BY <4>2, Blank DEF Records
      <4>5. n \in Nat /\ n <= Len(st.chain) /\ n <= Len(sections) /\ n # 0
        BY <1>1, <2>1, <4>1, SectionsReach
      <4> DEFINE part == st'
      <4>6. part.chain = chain /\ part.owed = At(sections, n)
        BY <4>4, <4>5 DEF At, owed
      <4> HIDE DEF part
      <4>7. Ledger(part, sections)
        BY <1>1, <3>1, <4>3, <4>5, <4>6, LedgerPart
      <4> QED BY <4>7 DEF part
    <3> QED BY <1>6, <3>2, <3>3, <3>4
  <2> QED BY <2>2, <2>3, <2>4, <2>5 DEF Accounts
<1> QED BY <1>2, <1>3, <1>4, <1>5, <1>6 DEF Recorded

-----------------------------------------------------------------------------
(* The history of an id. *)

(* Prefixes. *)
LEMMA PrefixEmpty == ASSUME NEW t \in Seq(Links) PROVE IsPrefix(<<>>, t)
<1>1. Len(<<>>) = 0 /\ Len(t) \in Nat
  BY EmptySeq, LenProperties
<1>2. SubSeq(<<>>, 1, 0) = SubSeq(t, 1, 0)
  BY SubSeqEmpty
<1> QED BY <1>1, <1>2 DEF IsPrefix

LEMMA PrefixSelf == ASSUME NEW t \in Seq(Links) PROVE IsPrefix(t, t)
  BY LenProperties DEF IsPrefix

LEMMA PrefixAppend == ASSUME NEW s \in Seq(Links), NEW t \in Seq(Links), IsPrefix(s, t), NEW link \in Links
                      PROVE  IsPrefix(s, Append(t, link))
<1> DEFINE more == Append(t, link)
<1>1. Len(s) \in Nat /\ Len(t) \in Nat /\ Len(s) <= Len(t) /\ SubSeq(s, 1, Len(s)) = SubSeq(t, 1, Len(s))
  BY LenProperties DEF IsPrefix
<1>2. more \in Seq(Links) /\ Len(more) = Len(t) + 1 /\ \A n \in 1..Len(t) : more[n] = t[n]
  BY AppendProperties
<1> HIDE DEF more
<1>3. (\A i \in 1..Len(s) : t[i] \in Links) /\ (\A i \in 1..Len(s) : more[i] = t[i])
  BY <1>1, <1>2
<1>4. /\ SubSeq(t, 1, Len(s)) \in Seq(Links) /\ Len(SubSeq(t, 1, Len(s))) = Len(s)
      /\ \A i \in 1..Len(s) : SubSeq(t, 1, Len(s))[i] = t[i]
  BY <1>1, <1>3, SubSeqProperties
<1>5. /\ SubSeq(more, 1, Len(s)) \in Seq(Links) /\ Len(SubSeq(more, 1, Len(s))) = Len(s)
      /\ \A i \in 1..Len(s) : SubSeq(more, 1, Len(s))[i] = more[i]
  BY <1>1, <1>3, SubSeqProperties
<1>6. SubSeq(more, 1, Len(s)) = SubSeq(t, 1, Len(s))
  BY <1>3, <1>4, <1>5, SeqEqual
<1> QED BY <1>1, <1>2, <1>6 DEF IsPrefix, more

LEMMA LoadsOne == ASSUME NEW f PROVE StateLoad(f) \in {f[0], f[1], Empty}
  BY DEF StateLoad

LEMMA EmptyBegun == Begun(Empty) /\ Empty.dev = 0 /\ Unreadable.dev = 0
<1>1. Empty.dev = 0 /\ Unreadable.dev = 0
  BY DEF Empty, Unreadable
<1> QED BY <1>1 DEF Begun

(* A step keeps one history per id. *)
LEMMA HistoryStep ==
  ASSUME RecordOK, InStep, Accounts, Fresh, History, RecordOK', InStep', Recorded
  PROVE  History'
<1>1. /\ st \in Records /\ st.dev \in 0..MaxSalts /\ st.chain \in Seq(Links) /\ Newest \in Records
      /\ flash \in [{0, 1} -> Sectors] /\ Sound(flash)
      /\ shown \in [1..MaxSalts -> Seq(Links)] /\ salts \in 0..MaxSalts
  BY StIsSound DEF RecordOK, Records
<1>2. CASE Quiet
  <2>1. UNCHANGED <<flash, st, salts, shown, erased>> /\ Newest' = Newest
    BY <1>2 DEF Quiet, Newest
  <2>2. job' \in Erases => job \in Erases
    <3>1. job' = job \/ job' \in Rests \cup Saves
      BY <1>2 DEF Quiet, Rests, Saves
    <3> QED BY <3>1, JobSets
  <2>3. Begun(st)' /\ Begun(Newest)'
    BY <2>1 DEF History, Begun
  <2> QED BY <2>1, <2>2, <2>3 DEF History
<1>3. CASE Welded
  <2>1. PICK link \in Links :
          /\ st' = [st EXCEPT !.chain = Append(@, link), !.owed = After(@, link, NextN), !.cont = FALSE]
          /\ job' \in Welds
          /\ UNCHANGED <<flash, salts, shown, erased>>
    BY <1>3 DEF Welded
  <2> DEFINE chain == Append(st.chain, link)
             owed == After(st.owed, link, NextN)
  <2>2. st' = [st EXCEPT !.chain = chain, !.owed = owed, !.cont = FALSE]
    BY <2>1
  <2> HIDE DEF chain, owed
  <2>3. st'.chain = chain /\ st'.dev = st.dev /\ ~st'.cont
    BY <1>1, <2>2 DEF Records
  <2>4. Newest' = Newest /\ job' \notin Erases
    BY <2>1, JobSets DEF Newest
  <2>5. ASSUME st.dev # 0, st.dev \notin erased PROVE IsPrefix(shown[st.dev], chain)
    <3>1. shown[st.dev] = <<>> \/ IsPrefix(shown[st.dev], st.chain)
      BY <2>5 DEF History, Begun
    <3>2. shown[st.dev] \in Seq(Links) /\ chain \in Seq(Links)
      BY <1>1, <2>5, AppendProperties DEF chain
    <3>3. CASE shown[st.dev] = <<>>
      BY <3>2, <3>3, PrefixEmpty
    <3>4. CASE IsPrefix(shown[st.dev], st.chain)
      BY <1>1, <3>2, <3>4, PrefixAppend DEF chain
    <3> QED BY <3>1, <3>3, <3>4
  <2>6. Begun(st)'
    <3>1. shown' = shown /\ erased' = erased
      BY <2>1
    <3> SUFFICES ASSUME st.dev # 0, st.dev \notin erased PROVE IsPrefix(shown[st.dev], chain)
      BY <2>3, <3>1 DEF Begun
    <3> QED BY <2>5
  <2>7. Begun(Newest)'
    BY <2>1, <2>4 DEF History, Begun
  <2> QED BY <2>1, <2>3, <2>4, <2>6, <2>7 DEF History
<1>4. CASE Written
  <2>1. /\ Newest' = st' /\ st' = [st EXCEPT !.gen = st.gen + 1]
        /\ \A s \in {0, 1} : flash'[s] = st' \/ flash'[s] = flash[s]
    BY <1>4, WrittenRecord
  <2>2. st'.dev = st.dev /\ st'.chain = st.chain /\ st'.cont = st.cont
    BY <1>1, <2>1 DEF Records
  <2>3. salts' = salts /\ erased' = erased
    BY <1>4 DEF Written, Save, SaveLink
  <2>4. job' \notin Erases
    <3>1. job' \in {<<>>, <<"save">>, <<"serve">>, <<"complete">>, <<"settle">>, <<"restart">>}
      BY <1>4, JobFacts DEF Written, Save, SaveLink
    <3>2. job' \in Rests \cup Saves
      BY <3>1 DEF Rests, Saves
    <3> QED BY <3>2, JobSets
  <2>5. \A d \in 1..MaxSalts : StillShown(d) \in {shown[d], <<>>}
    BY DEF StillShown
  <2> HIDE DEF StillShown
  <2>6. \/ \A d \in 1..MaxSalts : shown'[d] \in {shown[d], <<>>}
        \/ /\ ~st.cont
           /\ \A d \in 1..MaxSalts : IF d = st.dev THEN shown'[d] = st.chain ELSE shown'[d] \in {shown[d], <<>>}
    <3>1. CASE Save
      BY <1>1, <2>5, <3>1 DEF Save
    <3>2. CASE SaveLink
      <4>1. job \in Welds
        BY <3>2, JobFacts DEF SaveLink
      <4>2. ~st.cont
        BY <4>1 DEF Fresh
      <4> QED BY <1>1, <2>5, <3>2, <4>2 DEF SaveLink
    <3> QED BY <1>4, <3>1, <3>2 DEF Written
  <2>7. \A d \in 1..MaxSalts : d > salts' => shown'[d] = <<>>
    <3>1. \A d \in 1..MaxSalts : d > salts => shown[d] = <<>> /\ d # st.dev
      BY <1>1 DEF History
    <3> QED BY <2>3, <2>6, <3>1
  <2>8. Begun(st)'
    <3> SUFFICES ASSUME st.dev # 0, st.dev \notin erased
                 PROVE  IF st.cont THEN shown'[st.dev] = <<>> ELSE IsPrefix(shown'[st.dev], st.chain)
      BY <2>2, <2>3 DEF Begun
    <3>1. IF st.cont THEN shown[st.dev] = <<>> ELSE IsPrefix(shown[st.dev], st.chain)
      BY DEF History, Begun
    <3>2. shown'[st.dev] \in {shown[st.dev], <<>>} \/ (~st.cont /\ shown'[st.dev] = st.chain)
      <4>1. st.dev \in 1..MaxSalts
        BY <1>1
      <4> QED BY <2>6, <4>1
    <3> QED BY <1>1, <3>1, <3>2, PrefixEmpty, PrefixSelf
  <2>9. Begun(Newest)'
    BY <2>1, <2>8 DEF Begun
  <2>10. \A s \in {0, 1} : flash'[s].dev <= salts'
    BY <2>1, <2>2, <2>3 DEF History
  <2> QED BY <2>2, <2>3, <2>4, <2>7, <2>8, <2>9, <2>10 DEF History
<1>5. CASE Booted
  <2>1. /\ st' = Newest' /\ job' = <<>> /\ UNCHANGED <<salts, shown, erased>>
        /\ Newest' = Newest \/ Newest' = Empty
        /\ \A s \in {0, 1} : flash'[s] = flash[s] \/ flash'[s] = Unreadable
    BY <1>5, BootedRecord
  <2>2. Begun(Newest)' /\ Newest'.dev <= salts
    <3>1. CASE Newest' = Newest
      <4>1. Newest.dev <= salts
        BY <1>1, LoadsOne, EmptyBegun DEF History, Newest
      <4> QED BY <2>1, <3>1, <4>1 DEF History, Begun
    <3>2. CASE Newest' = Empty
      BY <1>1, <2>1, <3>2, EmptyBegun DEF Begun
    <3> QED BY <2>1, <3>1, <3>2
  <2>3. Begun(st)' /\ st'.dev <= salts'
    BY <2>1, <2>2 DEF Begun
  <2>4. \A s \in {0, 1} : flash'[s].dev <= salts'
    BY <1>1, <2>1, EmptyBegun DEF History
  <2>5. job' \notin Erases
    BY <2>1, JobSets DEF Rests
  <2> QED BY <2>1, <2>2, <2>3, <2>4, <2>5 DEF History
<1>6. CASE DrawSalt
  <2>1. /\ salts < MaxSalts /\ salts' = salts + 1 /\ st' = [st EXCEPT !.dev = salts + 1] /\ job' = <<"save">>
        /\ UNCHANGED <<flash, shown, erased>>
    BY <1>6 DEF DrawSalt
  <2>2. st'.dev = salts + 1 /\ salts + 1 \in 1..MaxSalts /\ st'.chain = st.chain
    BY <1>1, <2>1, EdgeAssumption DEF Records
  <2>3. shown[salts + 1] = <<>>
    BY <1>1, <2>2 DEF History
  <2>4. Begun(st)'
    BY <1>1, <2>1, <2>2, <2>3, PrefixEmpty DEF Begun
  <2>5. Newest' = Newest
    BY <2>1 DEF Newest
  <2>6. Begun(Newest)'
    BY <2>1, <2>5 DEF History, Begun
  <2>7. job' \notin Erases
    BY <2>1, JobSets DEF Saves
  <2>8. /\ st'.dev <= salts' /\ (\A s \in {0, 1} : flash'[s].dev <= salts')
        /\ \A d \in 1..MaxSalts : d > salts' => shown'[d] = <<>>
    <3>1. \A s \in {0, 1} : flash[s].dev \in 0..MaxSalts
      BY <1>1 DEF Sectors
    <3>2. (\A s \in {0, 1} : flash[s].dev <= salts) /\ \A d \in 1..MaxSalts : d > salts => shown[d] = <<>>
      BY DEF History
    <3> QED BY <1>1, <2>1, <2>2, <3>1, <3>2
  <2> QED BY <2>4, <2>6, <2>7, <2>8 DEF History
<1>7. CASE Restore
  <2>1. PICK n \in 1..Len(st.chain) : st' = Restored(Section(n))
    BY <1>7 DEF Restore
  <2>2. st'.dev = 0 /\ UNCHANGED <<flash, salts, shown, erased>> /\ job' = <<"save", "restart">>
    BY <1>7, <2>1 DEF Restore, Restored, Empty, ghosts
  <2>3. Newest' = Newest /\ job' \notin Erases
    BY <2>2, JobSets DEF Newest, Saves
  <2>4. Begun(st)' /\ Begun(Newest)'
    BY <2>2, <2>3 DEF History, Begun
  <2> QED BY <1>1, <2>2, <2>3, <2>4 DEF History
<1>8. CASE Wipe
  <2> DEFINE gone == {st.dev, flash[0].dev, flash[1].dev} \ {0}
  <2>1. /\ st' = Empty /\ UNCHANGED <<flash, salts>> /\ erased' = erased \cup gone
        /\ shown' = [d \in DOMAIN shown |-> IF d \in gone THEN <<>> ELSE shown[d]]
    BY <1>8 DEF Wipe
  <2>2. \A s \in {0, 1} : flash'[s].dev \in erased' \cup {0}
    BY <2>1
  <2>3. Newest'.dev \in erased' \cup {0}
    BY <2>2, LoadsOne, EmptyBegun DEF Newest
  <2>4. Begun(Newest)' /\ Begun(st)' /\ st'.dev = 0
    BY <2>1, <2>3, EmptyBegun DEF Begun
  <2>5. \A d \in 1..MaxSalts : d > salts' => shown'[d] = <<>>
    BY <1>1, <2>1 DEF History
  <2> QED BY <1>1, <2>1, <2>2, <2>4, <2>5 DEF History
<1>9. CASE EraseA
  <2>1. /\ job \in Erases /\ flash' = [flash EXCEPT ![0] = Unreadable] /\ UNCHANGED <<st, salts, shown, erased>>
    BY <1>9, JobFacts DEF EraseA, ghosts, Erases
  <2>2. \A s \in {0, 1} : flash'[s].dev \in erased' \cup {0} /\ flash'[s].dev <= salts'
    BY <1>1, <2>1, EmptyBegun DEF History
  <2>3. Newest'.dev \in erased' \cup {0}
    BY <2>2, LoadsOne, EmptyBegun DEF Newest
  <2>4. Begun(Newest)' /\ Begun(st)'
    BY <2>1, <2>3 DEF History, Begun
  <2> QED BY <2>1, <2>2, <2>4 DEF History
<1> QED BY <1>2, <1>3, <1>4, <1>5, <1>6, <1>7, <1>8, <1>9 DEF Recorded

-----------------------------------------------------------------------------
(* What is released is linked. *)

(* A budget pays on while nothing it looks at changes. *)
LEMMA StillPaysOn ==
  ASSUME RamOK, StillPays, UNCHANGED <<st, budgets, token, pend, config>>
  PROVE  StillPays'
<1>1. Payers(pend.req.kind)' = Payers(pend.req.kind)
  BY DEF Payers, BudgetsMayPay, Owes, Live, Alive, UsesLeft
<1> QED BY <1>1 DEF StillPays

(* It pays on when another budget runs out.                                  *)
LEMMA OtherExpires ==
  ASSUME RecordOK, RamOK, StillPays, NEW i \in Slots, i # pend.budget,
         budgets' = [budgets EXCEPT ![i] = NoBudget], UNCHANGED <<st, token, pend, config>>
  PROVE  StillPays'
<1> DEFINE old == Payers(pend.req.kind)
           new == Payers(pend.req.kind)'
           b == pend.budget
<1>1. old # {} /\ b = FirstOf(old) /\ old \subseteq Slots
  BY DEF StillPays, Payers, Live
<1>2. Slots \subseteq Nat /\ b \in old
  BY <1>1, FirstIsIn DEF Slots
<1>3. \A j \in old : b <= j
  BY <1>1, <1>2, FirstIsLeast
<1>4. new = old \ {i}
  <2>1. \A j \in Slots : j # i => budgets'[j] = budgets[j]
    BY DEF RamOK
  <2>2. ~Alive(budgets'[i])
    BY DEF RamOK, NoBudget, Alive
  <2> QED BY <2>1, <2>2 DEF Payers, BudgetsMayPay, Owes, Live, Alive, UsesLeft
<1>5. b \in new /\ new \in SUBSET Nat /\ new # {} /\ \A j \in new : b <= j
  BY <1>1, <1>2, <1>3, <1>4
<1> HIDE DEF new, old
<1>6. FirstOf(new) \in new /\ \A j \in new : FirstOf(new) <= j
  BY <1>5, FirstIsIn, FirstIsLeast
<1>7. FirstOf(new) = b
  <2> DEFINE f == FirstOf(new)
  <2>1. f \in Nat /\ b \in Nat /\ f <= b /\ b <= f
    BY <1>5, <1>6
  <2> HIDE DEF f, b
  <2> QED BY <2>1 DEF f
<1> QED BY <1>5, <1>7 DEF StillPays, new

(* Only RunPaid goes on to a decision, and a decision fails to link only     *)
(* when its budget ran out since.                                            *)
NoneFree == (job' = <<"decide">> => StillPays' \/ lapsed') /\ (job' = <<"serveUnlinked">> => lapsed')

LEMMA Decided ==
  ASSUME RecordOK, RamOK, Fresh, Paid, Next
  PROVE  NoneFree
<1> USE DEF NoneFree
<1>1. /\ <<"decide">> \in Rests /\ <<"serveUnlinked">> \in Rests
      /\ \A j \in Welds \cup Saves \cup Erases : j # <<"decide">> /\ j # <<"serveUnlinked">>
  BY JobSets DEF Rests
<1>2. CASE job = <<>> /\ job' = job
  BY <1>2
<1>3. CASE job' \in Welds \cup Saves \cup Erases \cup {<<>>, <<"settle">>, <<"serve">>, <<"complete">>, <<"restart">>}
  BY <1>1, <1>3
<1>4. CASE RunPaid
  <2>1. StillPays /\ job' = <<"decide">> /\ UNCHANGED <<st, budgets, token, pend, config>>
    BY <1>4 DEF RunPaid
  <2> QED BY <2>1, StillPaysOn
<1>5. ASSUME NEW i \in Slots, Expire(i) PROVE NoneFree
  <2>1. /\ job' = job /\ (lapsed => lapsed') /\ (Doing("decide") /\ pend.budget = i => lapsed')
        /\ budgets' = [budgets EXCEPT ![i] = NoBudget] /\ UNCHANGED <<st, token, pend, config>>
    BY <1>5 DEF Expire
  <2>2. job = <<"decide">> => Doing("decide")
    BY DEF Doing
  <2>3. CASE job = <<"decide">> /\ ~lapsed'
    <3>1. StillPays /\ i # pend.budget
      BY <2>1, <2>2, <2>3 DEF Paid
    <3> QED BY <2>1, <2>3, <3>1, OtherExpires
  <2> QED BY <2>1, <2>3 DEF Paid
<1>6. CASE Decide
  <2>1. job = <<"decide">>
    BY <1>6, JobFacts DEF Decide
  <2>2. job' = <<"weld", "serve">> \/ (job' = <<"serveUnlinked">> /\ lapsed /\ lapsed' = lapsed)
    BY <1>6, <2>1 DEF Decide, Paid, ghosts
  <2> QED BY <1>1, <1>3, <2>2 DEF Welds
<1>7. CASE Complete \/ SettleNext
  <2>1. (job = <<"complete">> /\ Complete) \/ (job = <<"settle">> /\ SettleNext)
    BY <1>7, JobFacts DEF Complete, SettleNext
  <2>2. job' \in {<<>>, <<"weld">>, <<"weld", "complete">>, <<"weld", "settle">>}
    <3>1. Tail(<<"complete">>) = <<>>
      OBVIOUS
    <3>2. CASE job = <<"complete">> /\ Complete
      BY <3>1, <3>2, WeldFirst DEF Complete
    <3>3. CASE job = <<"settle">> /\ SettleNext
      BY <3>3, WeldFirst DEF SettleNext
    <3> QED BY <2>1, <3>2, <3>3
  <2> QED BY <1>3, <2>2 DEF Welds
<1>8. CASE Save \/ SaveLink
  <2>1. job' \in {<<>>, <<"save">>, <<"serve">>, <<"complete">>, <<"settle">>, <<"restart">>}
    BY <1>8, JobFacts DEF Save, SaveLink
  <2> QED BY <1>3, <2>1 DEF Saves
<1>9. CASE Serve \/ EraseA
  <2>1. job' \in {<<>>, <<"eraseB">>}
    <3>1. Tail(<<"serve">>) = <<>> /\ Tail(<<"serveUnlinked">>) = <<>>
      OBVIOUS
    <3> QED BY <1>9, <3>1, JobFacts DEF Serve, EraseA
  <2> QED BY <1>3, <2>1 DEF Erases
<1>10. CASE \/ Restart \/ TornWrite \/ EraseB \/ FinishRestore
            \/ DrawSalt \/ WriteContinue \/ DeriveIdentity \/ Wipe \/ Restore
  <2>1. job' \in {<<>>, <<"save">>, <<"weld", "save">>, <<"eraseA", "eraseB">>, <<"save", "restart">>}
    BY <1>10 DEF Restart, TornWrite, EraseB, FinishRestore, PowerOn, DrawSalt, WriteContinue, DeriveIdentity, Wipe, Restore
  <2> QED BY <1>3, <2>1 DEF Welds, Saves, Erases
<1>11. ASSUME NEW r \in Reqs, Certify(r) \/ PayDerive(r) \/ Primed(r)
       PROVE  NoneFree
  <2>1. job' = <<"weld", "serve">> \/ (job = <<>> /\ job' = job)
    BY <1>11 DEF Certify, PayDerive, Primed, Ready, Idle
  <2> QED BY <1>2, <1>3, <2>1 DEF Welds
<1>12. CASE \/ \E caps \in Offers, v \in BOOLEAN : GrantCreate(caps, v)
            \/ \E id \in Ids, v \in BOOLEAN : GrantResume(id, v)
            \/ Settle \/ (\E range \in Ranges : Loss(range)) \/ PressLate
            \/ \E r \in Reqs, v \in BOOLEAN : TxStart(r, v)
            \/ Refused \/ RunPressed \/ NotApproved \/ EnterConfig
  BY <1>2, <1>12 DEF GrantCreate, GrantResume, Settle, Loss, PressLate, TxStart, Refused, RunPressed, NotApproved,
                     EnterConfig, Ready, Idle
<1>13. CASE (\E id \in Ids : GrantRevoke(id) \/ GrantHold(id)) \/ (\E ref \in 1..Len(st.chain) : FileReceipt(ref))
  <2>1. job' \in {<<"weld">>, <<"weld", "complete">>}
    BY <1>13 DEF GrantRevoke, GrantHold, FileReceipt
  <2> QED BY <1>3, <2>1 DEF Welds
<1>14. CASE GrantPressed \/ ResumePressed \/ SettlePressed \/ LossPressed \/ CertifyPressed \/ NothingPressed
  <2>1. job' \in {<<"weld">>, <<"settle">>, <<>>}
    BY <1>14 DEF GrantPressed, ResumePressed, SettlePressed, LossPressed, CertifyPressed, NothingPressed, Pressed, Idle
  <2> QED BY <1>3, <2>1 DEF Welds
<1> QED BY <1>4, <1>5, <1>6, <1>7, <1>8, <1>9, <1>10, <1>11, <1>12, <1>13, <1>14 DEF Next

(* The link that paid is the last one until its result is released. *)
LEMMA ServingEnds ==
  ASSUME RecordOK, InStep, Accounts, Recorded, job \in Serving => EndsInUse, job' \in Serving
  PROVE  EndsInUse'
<1>1. st \in Records /\ st.chain \in Seq(Links)
  BY DEF RecordOK, Records
<1>2. \A j \in Serving : j \notin Saves /\ j \notin Erases /\ j # <<>> /\ j # <<"settle">> /\ j # <<"decide">> /\ j # <<"serveUnlinked">>
  <2>1. <<"weld", "serve">> \in Welds /\ <<"serve">> \in Rests
    BY DEF Welds, Rests
  <2>2. <<"decide">> \in Rests /\ <<"serveUnlinked">> \in Rests /\ <<"settle">> \in Rests /\ <<>> \in Rests
    BY DEF Rests
  <2> QED BY <2>1, <2>2, JobSets DEF Serving
<1>3. CASE Quiet
  <2>1. job' = job /\ st' = st
    BY <1>2, <1>3 DEF Quiet, Saves
  <2> QED BY <2>1 DEF EndsInUse
<1>4. CASE Welded
  <2>1. PICK link \in Links :
          /\ st' = [st EXCEPT !.chain = Append(@, link), !.owed = After(@, link, NextN), !.cont = FALSE]
          /\ job' \in Welds /\ (job' = <<"weld", "serve">> => link.op = "use")
    BY <1>4 DEF Welded
  <2>2. link.op = "use"
    <3>1. <<"serve">> \in Rests
      BY DEF Rests
    <3> QED BY <2>1, <3>1, JobSets DEF Serving
  <2> DEFINE chain == Append(st.chain, link)
             owed == After(st.owed, link, NextN)
  <2>3. st' = [st EXCEPT !.chain = chain, !.owed = owed, !.cont = FALSE]
    BY <2>1
  <2>4. chain # <<>> /\ Last(chain) = link
    BY <1>1, AppendProperties, LenProperties DEF Last
  <2> HIDE DEF chain, owed
  <2>5. st'.chain = chain
    BY <1>1, <2>3 DEF Records
  <2> QED BY <2>2, <2>4, <2>5 DEF EndsInUse
<1>5. CASE Written
  <2>1. st' = [st EXCEPT !.gen = st.gen + 1] /\ job' = Tail(job) /\ job' \notin Welds /\ (Doing("save") \/ Doing("weld"))
    BY <1>5, WrittenRecord DEF Written, Save, SaveLink
  <2>2. st'.chain = st.chain
    BY <1>1, <2>1 DEF Records
  <2>3. job' = <<"serve">>
    BY <2>1 DEF Serving, Welds
  <2>4. job = <<"weld", "serve">>
    <3>1. job \in Welds
      <4>1. job \in Welds \/ Tail(job) \in {<<>>, <<"restart">>}
        BY <2>1, JobFacts
      <4>2. <<"serve">> # <<>> /\ <<"serve">> # <<"restart">>
        OBVIOUS
      <4> QED BY <2>1, <2>3, <4>1, <4>2
    <3>2. /\ Tail(<<"weld">>) = <<>> /\ Tail(<<"weld", "save">>) = <<"save">>
          /\ Tail(<<"weld", "complete">>) = <<"complete">> /\ Tail(<<"weld", "settle">>) = <<"settle">>
      OBVIOUS
    <3>3. <<"serve">> # <<>> /\ <<"serve">> # <<"save">> /\ <<"serve">> # <<"complete">> /\ <<"serve">> # <<"settle">>
      OBVIOUS
    <3> QED BY <2>1, <2>3, <3>1, <3>2, <3>3 DEF Welds
  <2>5. EndsInUse
    BY <2>4 DEF Serving
  <2> QED BY <2>2, <2>5 DEF EndsInUse
<1>6. CASE Booted \/ DrawSalt \/ Restore \/ Wipe \/ EraseA
  <2>1. job' \in {<<>>, <<"save">>, <<"save", "restart">>, <<"eraseA", "eraseB">>, <<"eraseB">>}
    BY <1>6, JobFacts DEF Booted, Restart, TornWrite, EraseB, FinishRestore, PowerOn, DrawSalt, Restore, Wipe, EraseA
  <2> QED BY <1>2, <2>1 DEF Saves, Erases
<1> QED BY <1>3, <1>4, <1>5, <1>6 DEF Recorded

-----------------------------------------------------------------------------
(* A use more, and a chain it is on. *)

(* What a paid use makes of the budget that pays. *)
Pays(b, kind) == [b EXCEPT !.used = b.used + 1, !.paid = [b.paid EXCEPT ![kind] = @ + 1]]

(* It counts one use more, of that kind. *)
LEMMA PaysFields ==
  ASSUME NEW b \in Budgets, NEW kind \in Kinds
  PROVE  /\ Pays(b, kind).id = b.id /\ Pays(b, kind).hold = b.hold /\ Pays(b, kind).caps = b.caps
         /\ Pays(b, kind).used = b.used + 1
         /\ Pays(b, kind).paid[kind] = b.paid[kind] + 1
         /\ \A other \in Kinds : other # kind => Pays(b, kind).paid[other] = b.paid[other]
<1> DEFINE paid == [b.paid EXCEPT ![kind] = @ + 1]
<1>1. /\ b.paid \in [Kinds -> Nat] /\ paid \in [Kinds -> Nat] /\ paid[kind] = b.paid[kind] + 1
      /\ \A other \in Kinds : other # kind => paid[other] = b.paid[other]
  BY DEF Budgets
<1> HIDE DEF paid
<1>2. ASSUME NEW n \in Nat
      PROVE  LET c == [b EXCEPT !.used = n, !.paid = paid]
             IN  c.id = b.id /\ c.hold = b.hold /\ c.caps = b.caps /\ c.used = n /\ c.paid = paid
  BY DEF Budgets
<1>3. b.used + 1 \in Nat
  BY DEF Budgets
<1>4. Pays(b, kind) = [b EXCEPT !.used = b.used + 1, !.paid = paid]
  BY DEF Pays, paid
<1> QED BY <1>1, <1>2, <1>3, <1>4

-----------------------------------------------------------------------------
(* A chain one link longer. *)

LEMMA UsesFinite ==
  ASSUME NEW chain, NEW id, NEW m \in Nat
  PROVE  /\ IsFiniteSet(Uses(chain, id, m))
         /\ \A kind : IsFiniteSet(Under(chain, id, m, kind)) /\ Under(chain, id, m, kind) \subseteq Uses(chain, id, m)
<1>1. IsFiniteSet(1..m)
  BY FS_Interval
<1>2. Uses(chain, id, m) \subseteq 1..m /\ \A kind : Under(chain, id, m, kind) \subseteq Uses(chain, id, m)
  BY DEF Uses, Under
<1> QED BY <1>1, <1>2, FS_Subset

(* What a link tells of its budget, its chain up to it tells. *)
LEMMA KeptSame ==
  ASSUME NEW chain, NEW part, NEW m \in Nat \ {0}, \A n \in 1..m : part[n] = chain[n], KeptAt(chain, m)
  PROVE  KeptAt(part, m)
<1> SUFFICES ASSUME part[m].op = "use" PROVE KeptAt(part, m)
  BY DEF KeptAt
<1> DEFINE id == chain[m].id
<1>1. m \in 1..m /\ part[m] = chain[m] /\ chain[m].op = "use" /\ part[m].id = id
  OBVIOUS
<1>2. /\ id \in 1..(m - 1) /\ chain[id].op = "grant_create"
      /\ \A n \in (id + 1)..(m - 1) :
           /\ chain[n].op \notin {"settle", "continue"}
           /\ chain[n].op = "grant_end" => chain[n].id # id
           /\ chain[n].op = "grant_hold" /\ chain[n].id = id => \E k \in n..(m - 1) : chain[k] = Resumed(id)
      /\ chain[m].step = Cardinality(Uses(chain, id, m))
      /\ \A kind \in Kinds :
           Cardinality(Under(chain, id, m, kind)) <= chain[id].caps[kind]
  BY <1>1 DEF KeptAt
<1> HIDE DEF id
<1>3. Uses(part, id, m) = Uses(chain, id, m)
  BY DEF Uses
<1>4. \A kind : Under(part, id, m, kind) = Under(chain, id, m, kind)
  <2>1. \A n \in Uses(chain, id, m) : part[n] = chain[n]
    BY DEF Uses
  <2> QED BY <1>3, <2>1 DEF Under
<1>5. id \in 1..m /\ part[id] = chain[id]
  BY <1>2
<1>6. \A n \in (id + 1)..(m - 1) : part[n] = chain[n] /\ \A k \in n..(m - 1) : part[k] = chain[k]
  BY <1>5
<1>7. \A n \in (id + 1)..(m - 1) :
        /\ part[n].op \notin {"settle", "continue"}
        /\ part[n].op = "grant_end" => part[n].id # id
        /\ part[n].op = "grant_hold" /\ part[n].id = id => \E k \in n..(m - 1) : part[k] = Resumed(id)
  BY <1>2, <1>6
<1>8. part[m].step = Cardinality(Uses(part, id, m))
  BY <1>1, <1>2, <1>3
<1>9. \A kind \in Kinds : Cardinality(Under(part, id, m, kind)) <= part[id].caps[kind]
  BY <1>2, <1>4, <1>5
<1> QED BY <1>1, <1>2, <1>5, <1>7, <1>8, <1>9 DEF KeptAt

(* What a chain tells, its first links tell of themselves. *)
LEMMA KeptOfPart ==
  ASSUME NEW chain, Len(chain) \in Nat, Kept(chain),
         NEW part, Len(part) \in Nat, Len(part) <= Len(chain), \A n \in 1..Len(part) : part[n] = chain[n]
  PROVE  Kept(part)
<1> SUFFICES ASSUME NEW m \in 1..Len(part) PROVE KeptAt(part, m)
  BY DEF Kept
<1>1. m \in 1..Len(chain) /\ m \in Nat \ {0} /\ \A n \in 1..m : part[n] = chain[n]
  OBVIOUS
<1>2. KeptAt(chain, m)
  BY <1>1 DEF Kept
<1> QED BY <1>1, <1>2, KeptSame

(* more is chain and one link. *)
Longer(more, chain, link) ==
  /\ Len(chain) \in Nat /\ Len(more) = Len(chain) + 1 /\ more[Len(more)] = link
  /\ \A n \in 1..Len(chain) : more[n] = chain[n]

(* A use of a budget adds one to its count and to its kind's, *)
LEMMA NewUse ==
  ASSUME NEW more, NEW chain, NEW link, Longer(more, chain, link), NEW id, link.op = "use", link.id = id
  PROVE  /\ Cardinality(Uses(more, id, Len(more))) = Cardinality(Uses(chain, id, Len(chain))) + 1
         /\ \A kind :
              /\ link.req.kind = kind => Cardinality(Under(more, id, Len(more), kind)) = Cardinality(Under(chain, id, Len(chain), kind)) + 1
              /\ link.req.kind # kind => Under(more, id, Len(more), kind) = Under(chain, id, Len(chain), kind)
<1> DEFINE L == Len(chain)
           old == Uses(chain, id, L)
           of(kind) == Under(chain, id, L, kind)
<1>1. L \in Nat /\ Len(more) = L + 1 /\ more[L + 1] = link /\ \A n \in 1..L : more[n] = chain[n]
  BY DEF Longer
<1>2. old \subseteq 1..L /\ L + 1 \notin old /\ \A n \in old : more[n] = chain[n]
  BY <1>1 DEF Uses
<1>3. IsFiniteSet(old)
  BY <1>1, UsesFinite
<1>4. \A kind : IsFiniteSet(of(kind)) /\ L + 1 \notin of(kind)
  BY <1>1, <1>2, UsesFinite
<1>5. Uses(more, id, Len(more)) = old \cup {L + 1}
  BY <1>1 DEF Uses
<1>6. \A kind : /\ link.req.kind = kind => Under(more, id, Len(more), kind) = of(kind) \cup {L + 1}
                /\ link.req.kind # kind => Under(more, id, Len(more), kind) = of(kind)
  BY <1>1, <1>2, <1>5 DEF Under
<1> HIDE DEF old, of
<1>7. Cardinality(old \cup {L + 1}) = Cardinality(old) + 1
  BY <1>1, <1>2, <1>3, FS_AddElement
<1>8. \A kind : Cardinality(of(kind) \cup {L + 1}) = Cardinality(of(kind)) + 1
  BY <1>4, FS_AddElement
<1> QED BY <1>5, <1>6, <1>7, <1>8 DEF old, of

(* and any other link adds none. *)
LEMMA NoNewUse ==
  ASSUME NEW more, NEW chain, NEW link, Longer(more, chain, link), NEW id, ~(link.op = "use" /\ link.id = id)
  PROVE  /\ Uses(more, id, Len(more)) = Uses(chain, id, Len(chain))
         /\ \A kind : Under(more, id, Len(more), kind) = Under(chain, id, Len(chain), kind)
<1> DEFINE L == Len(chain)
<1>1. L \in Nat /\ Len(more) = L + 1 /\ more[L + 1] = link /\ \A n \in 1..L : more[n] = chain[n]
  BY DEF Longer
<1>2. Uses(more, id, Len(more)) = Uses(chain, id, L)
  <2>1. ASSUME NEW n \in 1..(L + 1), more[n].op = "use", more[n].id = id PROVE n \in 1..L
    BY <1>1, <2>1
  <2> QED BY <1>1, <2>1 DEF Uses
<1>3. \A n \in Uses(chain, id, L) : more[n] = chain[n]
  BY <1>1 DEF Uses
<1> QED BY <1>2, <1>3 DEF Under

(* A chain that grows keeps what it told. *)
LEMMA KeptGrows ==
  ASSUME NEW more, NEW chain, NEW link, Longer(more, chain, link), Kept(chain), KeptAt(more, Len(more))
  PROVE  Kept(more)
<1>1. Len(chain) \in Nat /\ Len(more) = Len(chain) + 1 /\ \A n \in 1..Len(chain) : more[n] = chain[n]
  BY DEF Longer
<1> SUFFICES ASSUME NEW m \in 1..Len(chain) PROVE KeptAt(more, m)
  <2>1. \A m \in 1..Len(more) : m \in 1..Len(chain) \/ m = Len(more)
    BY <1>1
  <2> QED BY <2>1 DEF Kept
<1>2. KeptAt(chain, m)
  BY DEF Kept
<1>3. m \in Nat \ {0} /\ \A n \in 1..m : more[n] = chain[n]
  BY <1>1
<1> QED BY <1>2, <1>3, KeptSame

(* A budget still stands after a link that neither closes nor holds it, *)
LEMMA StandsOn ==
  ASSUME NEW more, NEW chain, NEW link, Longer(more, chain, link), NEW b, b.id \in Nat, Stands(chain, b),
         link.op \notin {"settle", "continue"}, ~(link.op = "grant_end" /\ link.id = b.id),
         b.hold \/ ~(link.op = "grant_hold" /\ link.id = b.id)
  PROVE  Stands(more, b)
<1> DEFINE L == Len(chain)
<1>1. L \in Nat /\ Len(more) = L + 1 /\ more[L + 1] = link /\ \A n \in 1..L : more[n] = chain[n]
  BY DEF Longer
<1> SUFFICES ASSUME NEW n \in (b.id + 1)..(L + 1)
             PROVE  /\ more[n].op \notin {"settle", "continue"}
                    /\ more[n].op = "grant_end" => more[n].id # b.id
                    /\ ~b.hold /\ more[n].op = "grant_hold" /\ more[n].id = b.id
                       => \E k \in n..(L + 1) : more[k] = Resumed(b.id)
  BY <1>1 DEF Stands
<1>2. CASE n = L + 1
  BY <1>1, <1>2
<1>3. CASE n # L + 1
  <2>1. n \in (b.id + 1)..L /\ n \in 1..L
    BY <1>1, <1>3
  <2>2. more[n] = chain[n] /\ \A k \in n..L : k \in n..(L + 1) /\ more[k] = chain[k]
    BY <1>1, <2>1
  <2>3. /\ chain[n].op \notin {"settle", "continue"}
        /\ chain[n].op = "grant_end" => chain[n].id # b.id
        /\ ~b.hold /\ chain[n].op = "grant_hold" /\ chain[n].id = b.id => \E k \in n..L : chain[k] = Resumed(b.id)
    BY <2>1 DEF Stands
  <2> HIDE DEF L
  <2> QED BY <2>2, <2>3
<1> QED BY <1>2, <1>3

(* and counts as before after one that is no use of it. *)
LEMMA CountedOn ==
  ASSUME NEW more, NEW chain, NEW link, Longer(more, chain, link), NEW b, Counted(chain, b),
         ~(link.op = "use" /\ link.id = b.id)
  PROVE  Counted(more, b)
<1> DEFINE id == b.id
<1>1. ~(link.op = "use" /\ link.id = id)
  OBVIOUS
<1> HIDE DEF id
<1>2. /\ Uses(more, id, Len(more)) = Uses(chain, id, Len(chain))
      /\ \A kind : Under(more, id, Len(more), kind) =
                     Under(chain, id, Len(chain), kind)
  BY <1>1, NoNewUse
<1> QED BY <1>2 DEF Counted, id

(* So the chain goes on being the life of a live budget *)
LEMMA OpenKeeps ==
  ASSUME NEW more, NEW chain, NEW link, Longer(more, chain, link), NEW b, Open(chain, b),
         link.op \notin {"settle", "continue"}, ~(link.op \in {"use", "grant_end", "grant_hold"} /\ link.id = b.id)
  PROVE  Open(more, b)
<1>1. b.id \in 1..Len(more) /\ b.id \in Nat /\ more[b.id] = chain[b.id]
  BY DEF Open, Longer
<1>2. Stands(more, b) /\ Counted(more, b)
  BY <1>1, StandsOn, CountedOn DEF Open
<1> QED BY <1>1, <1>2 DEF Open

(* that is held, *)
LEMMA OpenHeld ==
  ASSUME NEW more, NEW chain, NEW link, Longer(more, chain, link), NEW b, Open(chain, b), link.op = "grant_hold",
         NEW now, now.id = b.id, now.caps = b.caps, now.used = b.used, now.paid = b.paid, now.hold
  PROVE  Open(more, now)
<1>1. b.id \in 1..Len(more) /\ b.id \in Nat /\ more[b.id] = chain[b.id]
  BY DEF Open, Longer
<1>2. Stands(chain, now) /\ Counted(chain, now)
  BY DEF Open, Stands, Counted
<1>3. Stands(more, now) /\ Counted(more, now)
  BY <1>1, <1>2, StandsOn, CountedOn
<1> QED BY <1>1, <1>3 DEF Open

(* resumed, *)
LEMMA OpenResumed ==
  ASSUME NEW more, NEW chain, NEW b, Longer(more, chain, Resumed(b.id)), Open(chain, b),
         NEW now, now.id = b.id, now.caps = b.caps, now.used = b.used, now.paid = b.paid
  PROVE  Open(more, now)
<1> DEFINE link == Resumed(b.id)
           id == b.id
           L == Len(chain)
<1>1. L \in Nat /\ Len(more) = L + 1 /\ more[L + 1] = link /\ \A n \in 1..L : more[n] = chain[n]
  BY DEF Longer
<1>2. link.op = "grant_resume" /\ id \in 1..L /\ id \in Nat /\ id \in 1..(L + 1) /\ more[id] = chain[id]
  BY <1>1 DEF Open, Resumed
<1>3. Counted(more, now)
  <2>1. Counted(chain, now)
    BY DEF Open, Counted
  <2>2. link.op # "use" /\ Longer(more, chain, link)
    BY <1>2
  <2> HIDE DEF link
  <2> QED BY <2>1, <2>2, CountedOn
<1>4. ASSUME NEW n \in (id + 1)..(L + 1)
      PROVE  /\ more[n].op \notin {"settle", "continue"}
             /\ more[n].op = "grant_end" => more[n].id # id
             /\ more[n].op = "grant_hold" => \E k \in n..(L + 1) : more[k] = Resumed(id)
  <2>1. L + 1 \in n..(L + 1) /\ more[L + 1] = Resumed(id)
    BY <1>1, <1>2
  <2>2. CASE n = L + 1
    BY <1>1, <1>2, <2>1, <2>2
  <2>3. CASE n # L + 1
    <3>1. n \in (id + 1)..L /\ more[n] = chain[n]
      BY <1>1, <1>2, <2>3
    <3>2. chain[n].op \notin {"settle", "continue"} /\ (chain[n].op = "grant_end" => chain[n].id # id)
      BY <3>1 DEF Open, Stands
    <3> QED BY <2>1, <3>1, <3>2
  <2> QED BY <2>2, <2>3
<1>5. Stands(more, now)
  <2> HIDE DEF L
  <2> QED BY <1>1, <1>4 DEF Stands
<1> QED BY <1>1, <1>2, <1>3, <1>5 DEF Open

(* or pays. *)
LEMMA OpenPays ==
  ASSUME NEW more, NEW chain, NEW link, Longer(more, chain, link), NEW b \in Budgets, Open(chain, b),
         link.op = "use", link.id = b.id, NEW kind \in Kinds, link.req.kind = kind, b.paid[kind] < b.caps[kind]
  PROVE  Open(more, Pays(b, kind))
<1> DEFINE now == Pays(b, kind)
           id == b.id
<1>1. /\ now.id = id /\ now.hold = b.hold /\ now.caps = b.caps /\ now.used = b.used + 1
      /\ now.paid[kind] = b.paid[kind] + 1
      /\ \A other \in Kinds : other # kind => now.paid[other] = b.paid[other]
  BY PaysFields
<1>2. b.used \in Nat /\ \A other \in Kinds : b.paid[other] \in Nat /\ b.caps[other] \in Nat
  BY EdgeAssumption DEF Budgets
<1>3. link.op = "use" /\ link.id = id
  OBVIOUS
<1> HIDE DEF now, id
<1>4. /\ Cardinality(Uses(more, id, Len(more))) = Cardinality(Uses(chain, id, Len(chain))) + 1
      /\ \A other :
           /\ link.req.kind = other => Cardinality(Under(more, id, Len(more), other)) = Cardinality(Under(chain, id, Len(chain), other)) + 1
           /\ link.req.kind # other => Under(more, id, Len(more), other) = Under(chain, id, Len(chain), other)
  BY <1>3, NewUse
<1>5. /\ b.used = Cardinality(Uses(chain, id, Len(chain)))
      /\ \A other \in Kinds :
           /\ b.paid[other] = Cardinality(Under(chain, id, Len(chain), other))
           /\ b.paid[other] <= b.caps[other]
  BY DEF Open, Counted, id
<1>6. now.used = Cardinality(Uses(more, id, Len(more)))
  BY <1>1, <1>4, <1>5
<1>7. ASSUME NEW other \in Kinds
      PROVE  /\ now.paid[other] = Cardinality(Under(more, id, Len(more), other))
             /\ now.paid[other] <= now.caps[other]
  <2>1. CASE other = kind
    <3>1. Cardinality(Under(more, id, Len(more), other)) = b.paid[other] + 1
      BY <1>4, <1>5, <2>1
    <3>2. b.paid[other] \in Nat /\ b.caps[other] \in Nat /\ b.paid[other] < b.caps[other]
      BY <1>2, <2>1
    <3> QED BY <1>1, <2>1, <3>1, <3>2
  <2>2. CASE other # kind
    BY <1>1, <1>4, <1>5, <2>2
  <2> QED BY <2>1, <2>2
<1>8. Counted(more, now)
  BY <1>1, <1>6, <1>7 DEF Counted
<1>9. id \in 1..Len(more) /\ id \in Nat /\ more[id] = chain[id] /\ chain[id].op = "grant_create" /\ chain[id].caps = b.caps
  BY DEF Open, Longer, id
<1>10. Stands(more, now)
  <2>1. Stands(chain, now)
    BY <1>1 DEF Open, Stands, id
  <2> QED BY <1>1, <1>9, <2>1, StandsOn
<1> QED BY <1>1, <1>8, <1>9, <1>10 DEF Open, now

(* A use so paid is kept. *)
LEMMA UseKept ==
  ASSUME NEW more, NEW chain, NEW link, Longer(more, chain, link), NEW b \in Budgets, Open(chain, b),
         link.op = "use", link.id = b.id, NEW kind \in Kinds, link.req.kind = kind, b.paid[kind] < b.caps[kind],
         ~b.hold, link.step = b.used + 1
  PROVE  KeptAt(more, Len(more))
<1> DEFINE now == Pays(b, kind)
           id == b.id
           L == Len(chain)
<1>1. /\ now.id = id /\ now.hold = b.hold /\ now.caps = b.caps /\ now.used = b.used + 1
  BY PaysFields
<1>2. Open(more, now)
  BY OpenPays
<1>3. L \in Nat /\ Len(more) = L + 1 /\ more[L + 1] = link /\ link.id = id /\ \A n \in 1..L : more[n] = chain[n]
  BY DEF Longer
<1>4. id \in 1..L /\ id \in 1..((L + 1) - 1) /\ more[id].op = "grant_create" /\ more[id].caps = now.caps
  BY <1>1, <1>3 DEF Open
<1> HIDE DEF now
<1>5. /\ more[L + 1].step = Cardinality(Uses(more, id, L + 1))
      /\ \A other \in Kinds :
           Cardinality(Under(more, id, L + 1, other)) <= more[id].caps[other]
  <2>1. now.used = Cardinality(Uses(more, id, L + 1))
    BY <1>1, <1>2, <1>3 DEF Open, Counted
  <2>2. \A other \in Kinds :
          /\ now.paid[other] = Cardinality(Under(more, id, L + 1, other))
          /\ now.paid[other] <= now.caps[other]
    BY <1>1, <1>2, <1>3 DEF Open, Counted
  <2> QED BY <1>1, <1>3, <1>4, <2>1, <2>2
<1>6. ASSUME NEW n \in (id + 1)..((L + 1) - 1)
      PROVE  /\ more[n].op \notin {"settle", "continue"}
             /\ more[n].op = "grant_end" => more[n].id # id
             /\ more[n].op = "grant_hold" /\ more[n].id = id => \E k \in n..((L + 1) - 1) : more[k] = Resumed(id)
  <2>1. n \in (id + 1)..L /\ n \in 1..L /\ (L + 1) - 1 = L
    BY <1>3, <1>4
  <2>2. more[n] = chain[n] /\ \A k \in n..L : more[k] = chain[k]
    BY <1>3, <2>1
  <2>3. /\ chain[n].op \notin {"settle", "continue"}
        /\ chain[n].op = "grant_end" => chain[n].id # id
        /\ chain[n].op = "grant_hold" /\ chain[n].id = id => \E k \in n..L : chain[k] = Resumed(id)
    BY <2>1 DEF Open, Stands
  <2> HIDE DEF L
  <2> QED BY <2>1, <2>2, <2>3
<1> HIDE DEF L, id
<1> QED BY <1>3, <1>4, <1>5, <1>6 DEF KeptAt

(* A budget opened by a chain's last link stands and has paid nothing, if no  *)
(* use on the chain names what was not yet opened.                           *)
LEMMA OpenAnew ==
  ASSUME NEW more, NEW chain, NEW link, Longer(more, chain, link), Kept(chain), link.op = "grant_create",
         NEW b, b.id = Len(more), link.caps = b.caps, b.caps \in [Kinds -> Nat], b.used = 0, \A kind \in Kinds : b.paid[kind] = 0
  PROVE  Open(more, b)
<1> DEFINE L == Len(chain)
<1>1. L \in Nat /\ Len(more) = L + 1 /\ more[L + 1] = link /\ \A n \in 1..L : more[n] = chain[n]
  BY DEF Longer
<1>2. Uses(more, L + 1, L + 1) = {}
  <2>1. SUFFICES ASSUME NEW n \in 1..(L + 1), more[n].op = "use", more[n].id = L + 1 PROVE FALSE
    BY DEF Uses
  <2>2. n \in 1..L /\ chain[n].op = "use" /\ chain[n].id = L + 1
    BY <1>1, <2>1
  <2>3. chain[n].id \in 1..(n - 1)
    BY <2>2 DEF Kept, KeptAt
  <2> QED BY <1>1, <2>2, <2>3
<1>3. Cardinality({}) = 0 /\ \A kind : Under(more, L + 1, L + 1, kind) = {}
  BY <1>2, FS_EmptySet DEF Under
<1> HIDE DEF L
<1>4. Counted(more, b)
  <2>1. b.id = L + 1 /\ b.used = Cardinality(Uses(more, L + 1, L + 1))
    BY <1>1, <1>2, <1>3
  <2>2. \A kind \in Kinds : b.paid[kind] = 0 /\ b.caps[kind] \in Nat
    OBVIOUS
  <2>3. \A kind : Cardinality(Under(more, L + 1, L + 1, kind)) = 0
    BY <1>3
  <2> QED BY <1>1, <2>1, <2>2, <2>3 DEF Counted
<1>5. Stands(more, b)
  BY <1>1 DEF Stands
<1>6. b.id \in 1..Len(more)
  BY <1>1
<1> QED BY <1>1, <1>4, <1>5, <1>6 DEF Open

-----------------------------------------------------------------------------
(* What a step does to the budgets: with its link one of them pays, is        *)
(* opened, ended, held or resumed, or none is touched;                       *)
Paying(link, i) ==
  /\ ~budgets[i].hold
  /\ link.op = "use" /\ link.id = budgets[i].id /\ link.step = budgets[i].used + 1
  /\ link.req.kind \in Kinds /\ budgets[i].paid[link.req.kind] < budgets[i].caps[link.req.kind]
  /\ budgets' = [budgets EXCEPT ![i] = Pays(budgets[i], link.req.kind)]

Opening(link, i) ==
  /\ link.op = "grant_create"
  /\ \E b \in Budgets : /\ b.id = NextN /\ b.caps = link.caps /\ b.used = 0 /\ \A kind \in Kinds : b.paid[kind] = 0
                        /\ budgets' = [budgets EXCEPT ![i] = b]

Ending(link, i) ==
  link.op = "grant_end" /\ link.id = budgets[i].id /\ budgets' = [budgets EXCEPT ![i] = NoBudget]

Turning(link, i) ==
  \/ link.op = "grant_hold" /\ link.id = budgets[i].id /\ budgets' = [budgets EXCEPT ![i].hold = TRUE]
  \/ link = Resumed(budgets[i].id) /\ budgets' = [budgets EXCEPT ![i].hold = FALSE]

Leaving(link) ==
  /\ link.op \in {"receipt", "loss", "certify"} \/ (link.op = "settle" /\ Live = {})
  /\ budgets' = budgets

Moves(link) ==
  /\ st'.chain = Append(st.chain, link) /\ flash' = flash
  /\ \/ \E i \in Live : Paying(link, i) \/ Ending(link, i) \/ Turning(link, i)
     \/ \E i \in Slots \ Live : Opening(link, i)
     \/ Leaving(link)
     \/ link.op = "continue" /\ budgets' = NoBudgets

(* with no link, some are gone. *)
Stays == st'.chain = st.chain /\ \A i \in Slots : budgets'[i] \in {budgets[i], NoBudget}

(* A weld is one link more. *)
LEMMA WeldLinks == ASSUME RecordOK, NEW link, Weld(link) PROVE st'.chain = Append(st.chain, link)
<1> DEFINE chain == Append(st.chain, link)
           owed == After(st.owed, link, NextN)
<1>1. st \in Records /\ st' = [st EXCEPT !.chain = chain, !.owed = owed]
  BY DEF Weld, RecordOK
<1> HIDE DEF chain, owed
<1>2. st'.chain = chain
  BY <1>1 DEF Records
<1> QED BY <1>2 DEF chain

(* A paid request. *)
LEMMA SpendMoves ==
  ASSUME RecordOK, RamOK, NEW r \in Reqs, NEW i, i = FirstOf(Payers(r.kind)), Payers(r.kind) # {}, Spend(i, r), flash' = flash
  PROVE  \E link : Moves(link)
<1>1. Payers(r.kind) \in SUBSET Nat /\ Payers(r.kind) \subseteq Live
  BY EdgeAssumption DEF Payers, Live, Slots
<1>2. i \in Payers(r.kind)
  BY <1>1, FirstIsIn
<1>3. i \in Live /\ ~budgets[i].hold /\ budgets[i].paid[r.kind] < budgets[i].caps[r.kind]
  BY <1>2 DEF Payers
<1>4. i \in Slots /\ budgets[i] \in Budgets /\ r.kind \in Kinds
  BY <1>3, LiveBudget, EdgeAssumption
<1> DEFINE link == Use(r, budgets[i].id, budgets[i].used + 1)
           b == [budgets[i] EXCEPT !.used = @ + 1, !.paid[r.kind] = @ + 1]
<1>5. link.op = "use" /\ link.id = budgets[i].id /\ link.step = budgets[i].used + 1 /\ link.req = r
  BY DEF Use
<1>6. budgets' = [budgets EXCEPT ![i] = b] /\ Weld(link)
  BY <1>4 DEF Spend, RamOK
<1>7. b = Pays(budgets[i], r.kind)
  BY <1>4 DEF Budgets, Pays
<1> HIDE DEF link, b
<1>8. Paying(link, i)
  BY <1>3, <1>4, <1>5, <1>6, <1>7 DEF Paying
<1>9. st'.chain = Append(st.chain, link)
  BY <1>6, WeldLinks
<1> QED BY <1>3, <1>8, <1>9 DEF Moves

(* A budget that ends. *)
LEMMA EndMoves ==
  ASSUME RecordOK, NEW i \in Live, NEW how, EndBudget(i, how), flash' = flash
  PROVE  \E link : Moves(link)
<1> DEFINE link == Ended(budgets[i].id, how)
<1>1. link.op = "grant_end" /\ link.id = budgets[i].id /\ Weld(link) /\ budgets' = [budgets EXCEPT ![i] = NoBudget]
  BY DEF EndBudget, Ended
<1> HIDE DEF link
<1> QED BY <1>1, WeldLinks DEF Moves, Ending

(* A link that touches none. *)
LEMMA LeaveMoves ==
  ASSUME RecordOK, NEW link, Weld(link), UNCHANGED <<flash, budgets>>,
         link.op \in {"receipt", "loss", "certify"} \/ (link.op = "settle" /\ Live = {})
  PROVE  \E l : Moves(l)
<1>1. Leaving(link)
  BY DEF Leaving
<1> QED BY <1>1, WeldLinks DEF Moves

(* Every step is one of these, or clears the RAM. *)
LEMMA BudgetMoves ==
  ASSUME RecordOK, RamOK, Fresh, [Next]_vars
  PROVE  \/ Stays
         \/ \E link : Moves(link)
         \/ budgets' = NoBudgets /\ (Booted \/ Wipe \/ Restore)
<1>1. ASSUME UNCHANGED <<st, budgets>> PROVE Stays
  BY <1>1 DEF Stays
<1>2. CASE UNCHANGED vars
  BY <1>1, <1>2 DEF vars
<1>3. CASE \/ \E caps \in Offers, v \in BOOLEAN : GrantCreate(caps, v)
           \/ \E id \in Ids, v \in BOOLEAN : GrantResume(id, v)
           \/ Settle \/ (\E range \in Ranges : Loss(range)) \/ PressLate
           \/ \E r \in Reqs : Primed(r)
           \/ \E r \in Reqs, v \in BOOLEAN : TxStart(r, v)
           \/ Refused \/ RunPaid \/ RunPressed \/ NotApproved \/ EnterConfig \/ DeriveIdentity \/ Serve \/ EraseA
  <2>1. UNCHANGED <<st, budgets>>
    BY <1>3 DEF GrantCreate, GrantResume, Settle, Loss, PressLate, Primed, TxStart, Refused, RunPaid, RunPressed,
                NotApproved, EnterConfig, DeriveIdentity, Serve, EraseA, ram
  <2> QED BY <1>1, <2>1
<1>4. CASE DrawSalt \/ Save \/ SaveLink
  <2>1. st'.chain = st.chain
    BY <1>4 DEF DrawSalt, Save, SaveLink, StateSave, RecordOK, Records
  <2>2. budgets' = budgets
    BY <1>4 DEF DrawSalt, Save, SaveLink, ram
  <2> QED BY <2>1, <2>2 DEF Stays
<1>5. CASE \E i \in Slots : Expire(i)
  <2>1. PICK i \in Slots : budgets' = [budgets EXCEPT ![i] = NoBudget] /\ st' = st
    BY <1>5 DEF Expire
  <2> QED BY <2>1 DEF Stays, RamOK
<1>6. CASE Restart \/ TornWrite \/ EraseB \/ FinishRestore \/ Wipe \/ Restore
  <2>1. budgets' = NoBudgets
    BY <1>6 DEF Restart, TornWrite, EraseB, FinishRestore, PowerOn, RamCleared, Wipe, Restore
  <2> QED BY <1>6, <2>1 DEF Booted
<1>7. CASE WriteContinue
  <2> DEFINE link == Continued(st.dev, st.owed)
  <2>1. budgets' = NoBudgets /\ flash' = flash /\ st' = [st EXCEPT !.cont = FALSE, !.chain = Append(@, link)]
    BY <1>7 DEF WriteContinue
  <2>2. link.op = "continue"
    BY DEF Continued
  <2> HIDE DEF link
  <2>3. st'.chain = Append(st.chain, link)
    BY <2>1 DEF RecordOK, Records
  <2> QED BY <2>1, <2>2, <2>3 DEF Moves
<1>8. ASSUME NEW r \in Reqs, Certify(r) \/ PayDerive(r) PROVE Stays \/ \E link : Moves(link)
  <2>1. CASE UNCHANGED <<st, budgets>>
    BY <1>1, <2>1
  <2>2. CASE Payers(r.kind) # {} /\ Spend(FirstOf(Payers(r.kind)), r) /\ flash' = flash
    <3> DEFINE i == FirstOf(Payers(r.kind))
    <3>1. Spend(i, r) /\ i = FirstOf(Payers(r.kind))
      BY <2>2
    <3> HIDE DEF i
    <3> QED BY <2>2, <3>1, SpendMoves
  <2> QED BY <1>8, <2>1, <2>2 DEF Certify, PayDerive
<1>9. CASE \E id \in Ids : GrantRevoke(id)
  <2>1. PICK id \in Ids : GrantRevoke(id)
    BY <1>9
  <2>2. PICK i \in Named(id) : EndBudget(i, "revoked")
    BY <2>1 DEF GrantRevoke
  <2>3. i \in Live /\ flash' = flash
    BY <2>1 DEF Named, GrantRevoke
  <2> QED BY <2>2, <2>3, EndMoves
<1>10. CASE \E id \in Ids : GrantHold(id)
  <2>1. PICK id \in Ids : GrantHold(id)
    BY <1>10
  <2>2. PICK i \in Named(id) : budgets' = [budgets EXCEPT ![i].hold = TRUE]
    BY <2>1 DEF GrantHold
  <2>3. i \in Live /\ id = budgets[i].id /\ flash' = flash /\ Weld(HeldBack(id))
    BY <2>1 DEF Named, GrantHold
  <2> DEFINE link == HeldBack(id)
  <2>4. link.op = "grant_hold" /\ link.id = id /\ Weld(link)
    BY <2>3 DEF HeldBack
  <2> HIDE DEF link
  <2>5. Turning(link, i)
    BY <2>2, <2>3, <2>4 DEF Turning
  <2> QED BY <2>3, <2>4, <2>5, WeldLinks DEF Moves
<1>11. CASE \E ref \in 1..Len(st.chain) : FileReceipt(ref)
  <2>1. PICK ref \in 1..Len(st.chain) : Weld(Receipt(ref)) /\ UNCHANGED <<flash, budgets>>
    BY <1>11 DEF FileReceipt
  <2>2. Receipt(ref).op = "receipt"
    BY DEF Receipt
  <2> QED BY <2>1, <2>2, LeaveMoves
<1>12. CASE GrantPressed
  <2> DEFINE i == FirstOf(FreeSlots)
             b == [id |-> NextN, uses |-> Total(press.caps), used |-> 0, hold |-> FALSE,
                   caps |-> press.caps, paid |-> [kind \in Kinds |-> 0]]
             link == Opened(NextN, press.caps)
  <2>1. CASE UNCHANGED <<st, budgets>>
    BY <1>1, <2>1
  <2>2. CASE FreeSlots # {} /\ budgets' = [budgets EXCEPT ![i] = b] /\ Weld(link) /\ flash' = flash
    <3>1. i \in Slots \ Live
      <4>1. FreeSlots \in SUBSET Nat
        BY EdgeAssumption DEF FreeSlots, Slots
      <4>2. i \in FreeSlots
        BY <2>2, <4>1, FirstIsIn
      <4> QED BY <4>2 DEF FreeSlots
    <3>2. press.caps \in Offers
      <4>1. press.what = "grant" /\ press \in Presses
        BY <1>12 DEF GrantPressed, Pressed, RamOK, NoPress
      <4> QED BY <4>1 DEF Presses
    <3>3. b \in Budgets
      <4>1. NextN \in Nat \ {0}
        BY LenProperties DEF NextN, RecordOK, Records
      <4> QED BY <3>2, <4>1 DEF Budgets
    <3>4. link.op = "grant_create" /\ link.caps = b.caps /\ b.id = NextN /\ b.used = 0 /\ \A kind \in Kinds : b.paid[kind] = 0
      BY DEF Opened
    <3> HIDE DEF i, b, link
    <3>5. Opening(link, i)
      BY <2>2, <3>3, <3>4 DEF Opening
    <3> QED BY <2>2, <3>1, <3>5, WeldLinks DEF Moves
  <2> QED BY <1>12, <2>1, <2>2 DEF GrantPressed, Pressed
<1>13. CASE ResumePressed
  <2>1. CASE UNCHANGED <<st, budgets>>
    BY <1>1, <2>1
  <2>2. CASE /\ \E i \in Named(press.id) : budgets' = [budgets EXCEPT ![i].hold = FALSE]
             /\ Weld(Resumed(press.id)) /\ flash' = flash
    <3>1. PICK i \in Named(press.id) : budgets' = [budgets EXCEPT ![i].hold = FALSE]
      BY <2>2
    <3> DEFINE link == Resumed(press.id)
    <3>2. i \in Live /\ link = Resumed(budgets[i].id) /\ Weld(link)
      BY <2>2 DEF Named
    <3> HIDE DEF link
    <3>3. Turning(link, i)
      BY <3>1, <3>2 DEF Turning
    <3> QED BY <2>2, <3>2, <3>3, WeldLinks DEF Moves
  <2> QED BY <1>13, <2>1, <2>2 DEF ResumePressed, Pressed
<1>14. CASE SettlePressed \/ NothingPressed
  BY <1>1, <1>14 DEF SettlePressed, NothingPressed
<1>15. CASE LossPressed
  <2>1. PICK next : Weld(Lost(press.range, next)) /\ UNCHANGED <<flash, budgets>>
    BY <1>15 DEF LossPressed, Pressed
  <2>2. Lost(press.range, next).op = "loss"
    BY DEF Lost
  <2> QED BY <2>1, <2>2, LeaveMoves
<1>16. CASE CertifyPressed
  <2>1. Weld(Certified(press.req)) /\ UNCHANGED <<flash, budgets>>
    BY <1>16 DEF CertifyPressed, Pressed
  <2>2. Certified(press.req).op = "certify"
    BY DEF Certified
  <2> QED BY <2>1, <2>2, LeaveMoves
<1>17. Live \in SUBSET Nat /\ Fulfilled \in SUBSET Live
  BY EdgeAssumption DEF Live, Slots, Fulfilled
<1>18. CASE Complete
  <2>1. CASE UNCHANGED <<st, budgets>>
    BY <1>1, <2>1
  <2>2. CASE Fulfilled # {} /\ EndBudget(FirstOf(Fulfilled), "completed") /\ flash' = flash
    <3>1. FirstOf(Fulfilled) \in Live
      BY <1>17, <2>2, FirstIsIn
    <3> QED BY <2>2, <3>1, EndMoves
  <2> QED BY <1>18, <2>1, <2>2 DEF Complete
<1>19. CASE SettleNext
  <2>1. CASE Live # {} /\ EndBudget(FirstOf(Live), "settled") /\ flash' = flash
    <3>1. FirstOf(Live) \in Live
      BY <1>17, <2>1, FirstIsIn
    <3> QED BY <2>1, <3>1, EndMoves
  <2>2. CASE Live = {} /\ Weld(Settled(st.owed)) /\ UNCHANGED <<flash, budgets>>
    <3>1. Settled(st.owed).op = "settle"
      BY DEF Settled
    <3> QED BY <2>2, <3>1, LeaveMoves
  <2> QED BY <1>19, <2>1, <2>2 DEF SettleNext
<1>20. CASE Decide
  <2>1. job = <<"decide">> /\ pend \in Pends
    BY <1>20, JobFacts DEF Decide, RamOK
  <2>2. CASE UNCHANGED <<st, budgets>>
    BY <1>1, <2>2
  <2>3. CASE StillPays /\ Spend(pend.budget, pend.req) /\ flash' = flash
    <3> DEFINE i == pend.budget
               r == pend.req
    <3>1. r \in Reqs /\ i = FirstOf(Payers(r.kind)) /\ Payers(r.kind) # {} /\ Spend(i, r)
      BY <2>1, <2>3 DEF StillPays, Pends
    <3> HIDE DEF i, r
    <3> QED BY <2>3, <3>1, SpendMoves
  <2> QED BY <1>20, <2>2, <2>3 DEF Decide
<1> QED BY <1>2, <1>3, <1>4, <1>5, <1>6, <1>7, <1>8, <1>9, <1>10, <1>11, <1>12, <1>13, <1>14, <1>15, <1>16,
           <1>18, <1>19, <1>20 DEF Next

-----------------------------------------------------------------------------
(* The budgets a step leaves. *)

(* The flash holds only chains that keep their budgets. *)
LEMMA FlashKept ==
  ASSUME RecordOK, InStep, Accounts, Recorded, Spent
  PROVE  \A s \in {0, 1} : Readable(flash'[s]) => Kept(flash'[s].chain)
<1>1. ~Readable(Unreadable)
  BY Blank
<1>2. CASE Written
  <2>1. st' = [st EXCEPT !.gen = st.gen + 1] /\ \A s \in {0, 1} : flash'[s] = st' \/ flash'[s] = flash[s]
    BY <1>2, WrittenRecord
  <2>2. st'.chain = st.chain
    BY <2>1 DEF RecordOK, Records
  <2> QED BY <2>1, <2>2 DEF Spent
<1>3. CASE Quiet \/ Welded \/ DrawSalt \/ Restore \/ Booted \/ Wipe \/ EraseA
  <2>1. \A s \in {0, 1} : flash'[s] = flash[s] \/ flash'[s] = Unreadable
    <3>1. CASE Quiet \/ Welded \/ DrawSalt \/ Restore \/ Wipe
      BY <3>1 DEF Quiet, Welded, DrawSalt, Restore, Wipe
    <3>2. CASE Booted
      BY <3>2, BootedRecord
    <3>3. CASE EraseA
      BY <3>3 DEF EraseA, RecordOK
    <3> QED BY <1>3, <3>1, <3>2, <3>3
  <2> QED BY <1>1, <2>1 DEF Spent
<1> QED BY <1>2, <1>3 DEF Recorded

(* So does the record a boot would load. *)
LEMMA NewestKept == ASSUME RecordOK, InStep, Spent PROVE Kept(Newest.chain) /\ Kept(Empty.chain)
<1>1. Kept(Empty.chain)
  <2>1. Len(Empty.chain) = 0
    BY EmptySeq DEF Empty
  <2> QED BY <2>1 DEF Kept
<1>2. Sound(flash) /\ Newest \in Records
  BY StIsSound
<1>3. CASE Newest.gen = 0
  BY <1>1, <1>2, <1>3, LoadFacts DEF Newest
<1>4. CASE Newest.gen # 0
  <2> DEFINE s == Newest.gen % 2
  <2>1. flash[s] = Newest /\ Readable(Newest) /\ s \in {0, 1}
    BY <1>2, <1>4, LoadFacts, Sides DEF Newest, Records
  <2> HIDE DEF s
  <2>2. Readable(flash[s])
    BY <2>1
  <2>3. Kept(flash[s].chain)
    BY <2>1, <2>2 DEF Spent
  <2> QED BY <1>1, <2>1, <2>3
<1> QED BY <1>1, <1>3, <1>4

(* With no link, what is left is as it was; *)
LEMMA StaysSpent ==
  ASSUME RamOK, RamOK', Spent, Stays, \A s \in {0, 1} : Readable(flash'[s]) => Kept(flash'[s].chain)
  PROVE  Spent'
<1>1. NoBudget.id = 0
  BY DEF NoBudget
<1>2. \A i \in Live' : i \in Live /\ budgets'[i] = budgets[i]
  BY <1>1 DEF Stays, Live, Alive
<1>3. st'.chain = st.chain
  BY DEF Stays
<1> QED BY <1>2, <1>3 DEF Spent

(* with no budget, only the chains are left. *)
LEMMA ClearedSpent ==
  ASSUME budgets' = NoBudgets, Kept(st'.chain), \A s \in {0, 1} : Readable(flash'[s]) => Kept(flash'[s].chain)
  PROVE  Spent'
<1>1. Live' = {}
  BY DEF Live, Alive, NoBudgets, NoBudget
<1> QED BY <1>1 DEF Spent

(* After a link: the budget it names, *)
LEMMA NamedOpen ==
  ASSUME RamOK, Spent, NEW link, NEW more, Longer(more, st.chain, link), NEW i \in Live,
         Paying(link, i) \/ Turning(link, i)
  PROVE  Open(more, budgets'[i]) /\ budgets'[i].id = budgets[i].id /\ KeptAt(more, Len(more))
<1> DEFINE b == budgets[i]
<1>1. i \in Slots /\ b \in Budgets /\ Open(st.chain, b) /\ more[Len(more)] = link
  BY LiveBudget DEF Spent, Longer
<1>2. CASE Paying(link, i)
  <2> DEFINE kind == link.req.kind
  <2>1. /\ kind \in Kinds /\ budgets' = [budgets EXCEPT ![i] = Pays(b, kind)]
        /\ ~b.hold /\ link.op = "use" /\ link.id = b.id /\ link.step = b.used + 1 /\ b.paid[kind] < b.caps[kind]
        /\ link.req.kind = kind
    BY <1>2 DEF Paying
  <2>2. budgets'[i] = Pays(b, kind)
    BY <1>1, <2>1 DEF RamOK
  <2> HIDE DEF b, kind
  <2>3. Open(more, Pays(b, kind))
    BY <1>1, <2>1, OpenPays
  <2>4. Pays(b, kind).id = b.id
    BY <1>1, <2>1, PaysFields
  <2>5. KeptAt(more, Len(more))
    BY <1>1, <2>1, UseKept
  <2> QED BY <2>2, <2>3, <2>4, <2>5 DEF b
<1>3. CASE Turning(link, i)
  <2>1. PICK hold \in BOOLEAN :
          /\ budgets' = [budgets EXCEPT ![i].hold = hold]
          /\ (link.op = "grant_hold" /\ hold) \/ link = Resumed(b.id)
    BY <1>3 DEF Turning
  <2>2. link.op # "use"
    BY <2>1 DEF Resumed
  <2>3. KeptAt(more, Len(more))
    BY <1>1, <2>2 DEF KeptAt
  <2> DEFINE now == [b EXCEPT !.hold = hold]
  <2>4. budgets'[i] = now
    BY <1>1, <2>1 DEF RamOK
  <2>5. now.id = b.id /\ now.caps = b.caps /\ now.used = b.used /\ now.paid = b.paid /\ now.hold = hold
    BY <1>1 DEF Budgets
  <2> HIDE DEF b, now
  <2>6. Open(more, now)
    <3>1. CASE link.op = "grant_hold" /\ hold
      BY <1>1, <2>5, <3>1, OpenHeld
    <3>2. CASE link = Resumed(b.id)
      <4>1. Longer(more, st.chain, Resumed(b.id))
        BY <3>2
      <4> QED BY <1>1, <2>5, <4>1, OpenResumed
    <3> QED BY <2>1, <3>1, <3>2
  <2> QED BY <2>3, <2>4, <2>5, <2>6 DEF b
<1> QED BY <1>2, <1>3

(* and the others. *)
LEMMA MovesSpent ==
  ASSUME RecordOK, RamOK, RamOK', Spent, NEW link, Moves(link)
  PROVE  Spent'
<1> DEFINE more == st'.chain
<1>1. Longer(more, st.chain, link)
  <2>1. st.chain \in Seq(Links) /\ more = Append(st.chain, link)
    BY DEF RecordOK, Records, Moves
  <2>2. /\ Len(st.chain) \in Nat /\ Len(Append(st.chain, link)) = Len(st.chain) + 1
        /\ Append(st.chain, link)[Len(st.chain) + 1] = link
        /\ \A n \in 1..Len(st.chain) : Append(st.chain, link)[n] = st.chain[n]
    BY <2>1, AppendProperties, LenProperties
  <2> QED BY <2>1, <2>2 DEF Longer
<1>2. flash' = flash /\ NoBudget.id = 0
  BY DEF Moves, NoBudget
<1>3. /\ \A j \in Live : j \in Slots /\ budgets[j] \in Budgets /\ Open(st.chain, budgets[j])
      /\ \A j, k \in Live : budgets[j].id = budgets[k].id => j = k
      /\ Kept(st.chain)
  BY LiveBudget DEF Spent
<1>4. more[Len(more)] = link /\ Len(more) = NextN /\ Len(st.chain) \in Nat
  BY <1>1 DEF Longer, NextN
<1> HIDE DEF more
(* What is left to show once the last link and the live budgets are known. *)
<1>5. ASSUME KeptAt(more, Len(more)), \A j \in Live' : Open(more, budgets'[j]),
             \A j, k \in Live' : budgets'[j].id = budgets'[k].id => j = k
      PROVE  Spent'
  <2>1. Kept(more)
    BY <1>1, <1>3, <1>5, KeptGrows
  <2>2. \A s \in {0, 1} : Readable(flash'[s]) => Kept(flash'[s].chain)
    BY <1>2 DEF Spent
  <2> QED BY <1>5, <2>1, <2>2 DEF Spent, more
<1>6. ASSUME NEW j \in Live, link.op \notin {"settle", "continue"},
             ~(link.op \in {"use", "grant_end", "grant_hold"} /\ link.id = budgets[j].id)
      PROVE  Open(more, budgets[j])
  BY <1>1, <1>3, <1>6, OpenKeeps
<1>7. ASSUME link.op # "use" PROVE KeptAt(more, Len(more))
  BY <1>4, <1>7 DEF KeptAt
<1>8. CASE \E i \in Live : Paying(link, i) \/ Turning(link, i)
  <2>1. PICK i \in Live : Paying(link, i) \/ Turning(link, i)
    BY <1>8
  <2>2. Open(more, budgets'[i]) /\ budgets'[i].id = budgets[i].id /\ KeptAt(more, Len(more))
    BY <1>1, <2>1, NamedOpen
  <2>3. \A j \in Slots : j # i => budgets'[j] = budgets[j]
    BY <2>1 DEF Paying, Turning, RamOK
  <2>4. Live' = Live
    BY <1>3, <2>2, <2>3 DEF Live, Alive
  <2>5. ASSUME NEW j \in Live, j # i PROVE Open(more, budgets[j])
    <3>1. budgets[j].id # budgets[i].id
      BY <1>3, <2>1, <2>5
    <3>2. (link.op \in {"use", "grant_hold"} /\ link.id = budgets[i].id) \/ link.op = "grant_resume"
      BY <2>1 DEF Paying, Turning, Resumed
    <3> QED BY <1>6, <2>5, <3>1, <3>2
  <2>6. \A j \in Live' : Open(more, budgets'[j]) /\ budgets'[j].id = budgets[j].id
    BY <1>3, <2>2, <2>3, <2>4, <2>5
  <2> QED BY <1>3, <1>5, <2>2, <2>4, <2>6
<1>9. CASE \E i \in Live : Ending(link, i)
  <2>1. PICK i \in Live : Ending(link, i)
    BY <1>9
  <2>2. link.op = "grant_end" /\ link.id = budgets[i].id /\ budgets' = [budgets EXCEPT ![i] = NoBudget]
    BY <2>1 DEF Ending
  <2>3. \A j \in Live' : j \in Live /\ j # i /\ budgets'[j] = budgets[j]
    BY <1>2, <1>3, <2>1, <2>2 DEF Live, Alive, RamOK
  <2>4. \A j \in Live' : Open(more, budgets'[j])
    <3> TAKE j \in Live'
    <3>1. budgets[j].id # budgets[i].id /\ j \in Live
      BY <1>3, <2>1, <2>3
    <3> QED BY <1>6, <2>2, <2>3, <3>1
  <2> QED BY <1>3, <1>5, <1>7, <2>2, <2>3, <2>4
<1>10. CASE \E i \in Slots \ Live : Opening(link, i)
  <2>1. PICK i \in Slots \ Live, b \in Budgets :
          /\ link.op = "grant_create" /\ b.id = NextN /\ b.caps = link.caps /\ b.used = 0
          /\ \A kind \in Kinds : b.paid[kind] = 0
          /\ budgets' = [budgets EXCEPT ![i] = b]
    BY <1>10 DEF Opening
  <2>2. Open(more, b)
    <3>1. b.id = Len(more) /\ link.caps = b.caps /\ b.caps \in [Kinds -> Nat]
      BY <1>4, <2>1, EdgeAssumption DEF Budgets
    <3> QED BY <1>1, <1>3, <2>1, <3>1, OpenAnew
  <2>3. budgets'[i] = b /\ \A j \in Live' : j # i => j \in Live /\ budgets'[j] = budgets[j]
    BY <2>1 DEF Live, Alive, RamOK
  <2>4. \A j \in Live : Open(more, budgets[j]) /\ budgets[j].id # NextN
    <3> TAKE j \in Live
    <3>1. budgets[j].id \in 1..Len(st.chain)
      BY <1>3 DEF Open
    <3> QED BY <1>4, <1>6, <2>1, <3>1 DEF NextN
  <2>5. KeptAt(more, Len(more))
    BY <1>7, <2>1
  <2>6. \A j \in Live' : Open(more, budgets'[j])
    BY <2>2, <2>3, <2>4
  <2>7. \A j, k \in Live' : budgets'[j].id = budgets'[k].id => j = k
    BY <1>3, <2>1, <2>3, <2>4
  <2> QED BY <1>5, <2>5, <2>6, <2>7
<1>11. CASE Leaving(link)
  <2>1. budgets' = budgets /\ (link.op \in {"receipt", "loss", "certify"} \/ (link.op = "settle" /\ Live = {}))
    BY <1>11 DEF Leaving
  <2>2. Live' = Live
    BY <2>1 DEF Live
  <2>3. \A j \in Live' : Open(more, budgets'[j])
    BY <1>6, <2>1, <2>2
  <2> QED BY <1>3, <1>5, <1>7, <2>1, <2>2, <2>3
<1>12. CASE link.op = "continue" /\ budgets' = NoBudgets
  <2>1. Live' = {}
    BY <1>12 DEF Live, Alive, NoBudgets, NoBudget
  <2> QED BY <1>5, <1>7, <1>12, <2>1
<1> QED BY <1>8, <1>9, <1>10, <1>11, <1>12 DEF Moves

(* A step keeps the budgets' accounts. *)
LEMMA SpentStep ==
  ASSUME RecordOK, RamOK, Fresh, InStep, Accounts, Spent, RamOK', Recorded, [Next]_vars
  PROVE  Spent'
<1>1. \A s \in {0, 1} : Readable(flash'[s]) => Kept(flash'[s].chain)
  BY FlashKept
<1>2. CASE Stays
  BY <1>1, <1>2, StaysSpent
<1>3. CASE \E link : Moves(link)
  BY <1>3, MovesSpent
<1>4. CASE budgets' = NoBudgets /\ (Booted \/ Wipe \/ Restore)
  <2>1. Kept(Newest.chain) /\ Kept(Empty.chain)
    BY NewestKept
  <2>2. CASE Booted
    <3>1. st' = Newest' /\ (Newest' = Newest \/ Newest' = Empty)
      BY <2>2, BootedRecord
    <3>2. Kept(st'.chain)
      BY <2>1, <3>1
    <3> QED BY <1>1, <1>4, <3>2, ClearedSpent
  <2>3. CASE Wipe
    <3>1. Kept(st'.chain)
      BY <2>1, <2>3 DEF Wipe
    <3> QED BY <1>1, <1>4, <3>1, ClearedSpent
  <2>4. CASE Restore
    <3>1. PICK n \in 1..Len(st.chain) : st' = Restored(Section(n))
      BY <2>4 DEF Restore
    <3>2. st'.chain = SubSeq(st.chain, 1, n)
      BY <3>1 DEF Restored, Section, Empty
    <3>3. st.chain \in Seq(Links) /\ Len(st.chain) \in Nat /\ n \in Nat /\ n <= Len(st.chain)
      BY LenProperties DEF RecordOK, Records
    <3>4. \A k \in 1..n : st.chain[k] \in Links
      BY <3>3, LenProperties
    <3>5. Len(SubSeq(st.chain, 1, n)) = n /\ \A k \in 1..n : SubSeq(st.chain, 1, n)[k] = st.chain[k]
      BY <3>3, <3>4, SubSeqProperties
    <3> DEFINE part == SubSeq(st.chain, 1, n)
    <3> HIDE DEF part
    <3>6. Len(part) = n /\ \A k \in 1..n : part[k] = st.chain[k]
      BY <3>5 DEF part
    <3>7. Kept(part)
      BY <3>3, <3>6, KeptOfPart DEF Spent
    <3>8. Kept(st'.chain)
      BY <3>2, <3>7 DEF part
    <3> QED BY <1>1, <1>4, <3>8, ClearedSpent
  <2> QED BY <1>4, <2>2, <2>3, <2>4
<1> QED BY <1>2, <1>3, <1>4, BudgetMoves

-----------------------------------------------------------------------------
(* The invariant. *)

IInv == TypeOK /\ InStep /\ Fresh /\ Accounts /\ History /\ Paid /\ Spent

LEMMA InitInv == Init => IInv
<1> SUFFICES ASSUME Init PROVE IInv
  OBVIOUS
<1>1. /\ flash = [s \in {0, 1} |-> Unreadable] /\ st = Empty /\ job = <<>>
      /\ sections = <<>> /\ salts = 0 /\ shown = [d \in 1..MaxSalts |-> <<>>] /\ erased = {}
      /\ ident = FALSE /\ budgets = NoBudgets /\ token = NoToken /\ pend = NoPend /\ press = NoPress
      /\ wait = "none" /\ config = FALSE
  BY DEF Init
<1>2. /\ flash \in [{0, 1} -> Sectors] /\ \A s \in {0, 1} : flash[s] = Unreadable /\ ~Readable(flash[s])
      /\ st \in Records /\ Newest = st
  <2>1. \A s \in {0, 1} : flash[s] = Unreadable /\ ~Readable(flash[s])
    BY <1>1, Blank
  <2> QED BY <1>1, <2>1, Blank DEF Newest, StateLoad
<1>3. job \in Rests /\ job \notin Welds /\ job \notin Erases /\ job # <<"eraseB">> /\ job # <<"decide">> /\ job # <<"serveUnlinked">>
      /\ job \notin Serving
  <2>1. job \in Rests
    BY <1>1 DEF Rests
  <2> QED BY <1>1, <2>1, JobSets DEF Erases, Serving
<1>4. <<>> \in Seq(Links) /\ <<>> \in Seq(Nat) /\ Len(<<>>) = 0
  BY EmptySeq
<1>5. RecordOK
  BY <1>1, <1>2, <1>3, <1>4, EdgeAssumption DEF RecordOK, Jobs
<1>6. RamOK
  <2>1. token.on = FALSE
    BY <1>1 DEF NoToken
  <2>2. NoBudgets \in [Slots -> Budgets \cup {NoBudget}]
    BY DEF NoBudgets
  <2> QED BY <1>1, <1>3, <2>1, <2>2 DEF RamOK
<1>7. InStep
  BY <1>2, <1>3 DEF InStep, Parity
<1>8. Fresh
  <2>1. st.cont = FALSE
    BY <1>1 DEF Empty
  <2> QED BY <1>1, <2>1 DEF Fresh
<1>9. Accounts
  <2>1. Debts = sections
    BY <1>3 DEF Debts
  <2>2. Len(sections) \in Nat
    BY <1>1, <1>4
  <2> QED BY <1>1, <1>2, <2>1, <2>2, EmptyLedger DEF Accounts
<1>10. History
  BY <1>1, <1>2, <1>3, EmptyBegun DEF History
<1>11. Paid
  BY <1>3 DEF Paid
<1>12. Spent
  <2>1. Live = {}
    BY <1>1 DEF Live, Alive, NoBudgets, NoBudget
  <2>2. Kept(st.chain)
    <3>1. Len(st.chain) = 0
      BY <1>1, <1>4 DEF Empty
    <3> QED BY <3>1 DEF Kept
  <2> QED BY <1>2, <2>1, <2>2 DEF Spent
<1> QED BY <1>5, <1>6, <1>7, <1>8, <1>9, <1>10, <1>11, <1>12 DEF IInv, TypeOK

LEMMA RecordStep ==
  ASSUME RecordOK, InStep, Accounts, Recorded
  PROVE  RecordOK' /\ InStep'
  BY QuietRecord, WeldedRecord, WrittenRecord, BootedRecord, ReplacedRecord DEF Recorded

LEMMA PaidStep ==
  ASSUME RecordOK, RamOK, Fresh, InStep, Accounts, Paid, Recorded, [Next]_vars
  PROVE  Paid'
<1>1. (job' \in Serving => EndsInUse')
  BY ServingEnds DEF Paid
<1>2. NoneFree
  <2>1. CASE UNCHANGED vars
    <3>1. job' = job /\ UNCHANGED <<st, budgets, token, pend, config, lapsed>>
      BY <2>1 DEF vars
    <3> QED BY <3>1, StillPaysOn DEF Paid, NoneFree
  <2>2. CASE Next
    BY <2>2, Decided
  <2> QED BY <2>1, <2>2
<1> QED BY <1>1, <1>2 DEF Paid, NoneFree

LEMMA StepInv == IInv /\ [Next]_vars => IInv'
<1> SUFFICES ASSUME IInv, [Next]_vars PROVE IInv'
  OBVIOUS
<1>1. RecordOK /\ RamOK /\ InStep /\ Fresh /\ Accounts /\ History /\ Paid /\ Spent
  BY DEF IInv, TypeOK
<1>2. RamOK' /\ Fresh' /\ Recorded
  BY <1>1, StepKinds
<1>3. RecordOK' /\ InStep'
  BY <1>1, <1>2, RecordStep
<1>4. Accounts'
  BY <1>1, <1>2, <1>3, AccountsStep
<1>5. History'
  BY <1>1, <1>2, <1>3, HistoryStep
<1>6. Paid'
  BY <1>1, <1>2, PaidStep
<1>7. Spent'
  BY <1>1, <1>2, SpentStep
<1> QED BY <1>2, <1>3, <1>4, <1>5, <1>6, <1>7 DEF IInv, TypeOK

LEMMA Invariance == Spec => []IInv
  BY InitInv, StepInv, PTL DEF Spec

-----------------------------------------------------------------------------
(* What it shows. *)

(* The records, the budgets and what a handler has left to do are what the   *)
(* handlers take them for.                                                   *)
THEOREM TypeCorrect == Spec => []TypeOK
<1>1. IInv => TypeOK
  BY DEF IInv
<1> QED BY <1>1, Invariance, PTL

(* Outside a write a restart loads the very record the key works on, and      *)
(* during one the record before it: never an older one, whichever sector a    *)
(* power cut tore (okplugin_edge.cpp:446).                                    *)
THEOREM BootLoadsTheRecord == Spec => []InStep
<1>1. IInv => InStep
  BY DEF IInv
<1> QED BY <1>1, Invariance, PTL

(* A restored key is its own chain's continuation before it is anything else: *)
(* nothing is paid, asked or linked before the continue link.                 *)
THEOREM ContinueComesFirst == Spec => []Fresh
<1>1. IInv => Fresh
  BY DEF IInv
<1> QED BY <1>1, Invariance, PTL

(* What the host was shown under a device id is a beginning of what the       *)
(* record, and the flash, go on with under it.                               *)
THEOREM NoSecondHistoryHolds == Spec => []NoSecondHistory
<1>1. IInv => NoSecondHistory
  <2> SUFFICES ASSUME IInv PROVE NoSecondHistory
    OBVIOUS
  <2>1. Begun(st) /\ Begun(StateLoad(flash))
    BY DEF IInv, History, Newest
  <2> QED BY <2>1 DEF NoSecondHistory, Begun
<1> QED BY <1>1, Invariance, PTL

(* OwedBy's account of a chain, unfolded. *)
LEMMA OwedByUnfolds ==
  ASSUME NEW chain, NEW debts, Len(chain) \in Nat,
         \A n \in 1..Len(chain) : debts[n] = After(At(debts, n - 1), chain[n], n)
  PROVE  \A m \in 0..Len(chain) : Follows(OwedBy(chain), chain, m)
<1> DEFINE f == [n \in 0..Len(chain) |-> At(debts, n)]
<1>1. f = [n \in 0..Len(chain) |-> IF n = 0 THEN None ELSE After(f[n - 1], chain[n], n)]
  <2>1. ASSUME NEW n \in 0..Len(chain) PROVE At(debts, n) = IF n = 0 THEN None ELSE After(f[n - 1], chain[n], n)
    <3>1. CASE n = 0
      BY <3>1 DEF At
    <3>2. CASE n # 0
      <4>1. n \in 1..Len(chain) /\ n - 1 \in 0..Len(chain)
        BY <3>2
      <4>2. f[n - 1] = At(debts, n - 1) /\ At(debts, n) = debts[n]
        BY <3>2, <4>1 DEF At
      <4> QED BY <3>2, <4>1, <4>2
    <3> QED BY <3>1, <3>2
  <2> QED BY <2>1
<1> HIDE DEF f
<1>2. OwedBy(chain) = [n \in 0..Len(chain) |-> IF n = 0 THEN None ELSE After(OwedBy(chain)[n - 1], chain[n], n)]
  BY <1>1 DEF OwedBy
<1>3. ASSUME NEW m \in 0..Len(chain) PROVE Follows(OwedBy(chain), chain, m)
  <2>1. OwedBy(chain)[0] = None
    <3>1. 0 \in 0..Len(chain)
      OBVIOUS
    <3> QED BY <1>2, <3>1
  <2>2. ASSUME NEW n \in 1..m PROVE OwedBy(chain)[n] = After(OwedBy(chain)[n - 1], chain[n], n)
    <3>1. n \in 0..Len(chain) /\ n # 0
      OBVIOUS
    <3> QED BY <1>2, <3>1
  <2> QED BY <2>1, <2>2 DEF Follows
<1> QED BY <1>3

(* The debt the key holds is the one a host finds by welding the chain        *)
(* itself, and no use, opening or resume was linked on a debt.               *)
THEOREM DebtFollowsChainHolds == Spec => []DebtFollowsChain
<1>1. IInv => DebtFollowsChain
  <2> SUFFICES ASSUME IInv PROVE DebtFollowsChain
    OBVIOUS
  <2>1. Ledger(st, Debts) /\ Len(st.chain) \in Nat
    BY LenProperties DEF IInv, Accounts, TypeOK, RecordOK, Records
  <2>2. \A m \in 0..Len(st.chain) : Follows(OwedBy(st.chain), st.chain, m)
    BY <2>1, OwedByUnfolds DEF Ledger
  <2>3. \A m \in 0..Len(st.chain) : OwedBy(st.chain)[m] = At(Debts, m)
    BY <2>1, <2>2 DEF Ledger
  <2>4. st.owed = OwedBy(st.chain)[Len(st.chain)]
    BY <2>1, <2>3 DEF Ledger
  <2>5. ASSUME NEW n \in 1..Len(st.chain), st.chain[n].op \in {"use", "grant_create", "grant_resume"}
        PROVE  OwedBy(st.chain)[n - 1] = None
    <3>1. n - 1 \in 0..Len(st.chain)
      BY <2>1
    <3> QED BY <2>1, <2>3, <2>5, <3>1 DEF Ledger, Starts
  <2> QED BY <2>4, <2>5 DEF DebtFollowsChain
<1> QED BY <1>1, Invariance, PTL

(* When a result is released, the record a restart would load is the key's    *)
(* own and ends with the use that paid for it.                               *)
THEOREM ServedIsLinkedHolds == Spec => []ServedIsLinked
<1>1. IInv => ServedIsLinked
  <2> SUFFICES ASSUME IInv, Doing("serve") PROVE StateLoad(flash) = st /\ EndsInUse
    BY DEF ServedIsLinked, EndsInUse
  <2>1. job = <<"serve">>
    BY JobFacts DEF IInv, TypeOK
  <2>2. job \in Rests /\ job \in Serving
    BY <2>1 DEF Rests, Serving
  <2> QED BY <2>2 DEF IInv, InStep, Paid, Newest
<1> QED BY <1>1, Invariance, PTL

(* A request primed to be paid by a budget runs without a press and a link    *)
(* only if that budget's lifetime ended between the two looks taken at it in *)
(* that call (okplugin_edge.cpp:1417, 1364).                                 *)
THEOREM FreeOnlyIfLapsedHolds == Spec => []FreeOnlyIfLapsed
<1>1. IInv => FreeOnlyIfLapsed
  <2> SUFFICES ASSUME IInv, Doing("serveUnlinked") PROVE lapsed
    BY DEF FreeOnlyIfLapsed
  <2>1. job = <<"serveUnlinked">>
    BY JobFacts DEF IInv, TypeOK
  <2> QED BY <2>1 DEF IInv, Paid
<1> QED BY <1>1, Invariance, PTL

(* Every use on the chain was paid by a budget then open and off hold, in its *)
(* turn, and no scope of it past its cap, over restarts and restores.        *)
THEOREM BudgetKeptHolds == Spec => []BudgetKept
<1>1. IInv => BudgetKept
  <2> SUFFICES ASSUME Kept(st.chain) PROVE BudgetKept
    BY DEF IInv, Spent
  <2> QED BY DEF Kept, KeptAt, Under, BudgetKept
<1> QED BY <1>1, Invariance, PTL
=============================================================================

------------------------ MODULE WorkspaceLaunchProofs ------------------------
(***************************************************************************)
(* Proofs about WorkspaceLaunch for any number of concurrent passes. The    *)
(* inductive invariant says what a pass may rely on at each of its steps:   *)
(* outside a write, everything it knows is stored (but a key on its way to  *)
(* the frozen command); while it holds the lease it knows everything that   *)
(* is stored; and what any copy of the result says of an owner is so.       *)
(***************************************************************************)
EXTENDS WorkspaceLaunch, TLAPS

-----------------------------------------------------------------------------
(* The inductive invariant.                                                 *)

\* The owners among themselves.
OwnersAgree ==
    /\ charge # "none" => order.paid
    /\ "funding" \in receipts /\ order.paid => charge = "confirmed"
    /\ set \notin {"none", "intended"} => "funding" \in receipts
    /\ runtime # "none" => "funding" \in receipts
    /\ runtime = "ready" => fulfilled
    /\ fulfilled => "funding" \in receipts

\* A copy of the result is closed under what each fact rests on, and true.
Copy(r) ==
    /\ "set" \in r.facts => "acceptance" \in r.facts
    /\ "acceptance" \in r.facts => quote = "accepted"
    /\ "receipt" \in r.facts => "set" \in r.facts /\ "funding" \in receipts
    /\ "command" \in r.facts => /\ {"receipt", "source", "reservation"} \subseteq r.facts
                                /\ order.keyed => "key" \in r.facts
    /\ r.charge \in Settled => charge = r.charge

\* What is stored before an owner acts.
Recorded ==
    /\ charge # "none" => {"acceptance", "set"} \subseteq result.facts
    /\ set # "none" => "acceptance" \in result.facts
    /\ runtime \in Started => /\ {"receipt", "reservation", "command"} \subseteq result.facts
                              /\ order.keyed => "key" \in result.facts

Charging == {"wallet_charge", "read_charge"}
Receipting == {"zero_charge_receipt", "wallet_action_receipt"}
AfterReceipt == {"reuse_charge", "provision", "runtime_capability", "reserve_runtime",
                 "create_managed_key", "freeze_command", "deploy_runtime", "read_runtime", "activate"}

\* What a step needs of the copy it is taken with.
Ready(s, r) ==
    /\ s = "ensure_resources" => "acceptance" \in r.facts
    /\ s \in Charging \cup Receipting => "set" \in r.facts
    /\ s \in Charging => order.paid /\ r.charge \notin Settled
    /\ s \in AfterReceipt => "receipt" \in r.facts
    /\ s \in {"reserve_runtime", "create_managed_key", "freeze_command"} => "source" \in r.facts
    /\ s \in {"create_managed_key", "freeze_command"} => "reservation" \in r.facts
    /\ s = "create_managed_key" => order.keyed /\ "key" \notin r.facts
    /\ s = "freeze_command" => (order.keyed => "key" \in r.facts)
    /\ s \in {"deploy_runtime", "read_runtime", "activate"} => "command" \in r.facts
    /\ s = "activate" => order.paid /\ fulfilled

\* A key that was handed over is stored with the command that needs it.
Unstored(s) == IF s = "freeze_command" THEN {"resources", "key"} ELSE {"resources"}

\* Where a pass stands, what it knows and what it is about to write.
Stands(w) ==
    /\ at[w].step \notin Step => at[w].phase = "begin"
    /\ at[w].step \in Step /\ at[w].phase # "save" =>
         /\ Ready(at[w].step, mem[w])
         /\ mem[w].facts \ Unstored(at[w].step) \subseteq result.facts
    /\ at[w].phase = "save" /\ outcome[w].next \in Step => Ready(outcome[w].next, mem[w])
    /\ at[w].step \in Step /\ holder = w =>
         /\ result.facts \ {"resources"} \subseteq mem[w].facts
         /\ result.charge \in Settled => mem[w].charge = result.charge
    /\ outcome[w].status # "succeeded"
    /\ outcome[w].status = "failed" => quote = "expired"

\* The operation and the Workspace row.
RowAgrees ==
    /\ subscribed <=> status = "succeeded"
    /\ workspace = "active" => subscribed
    /\ subscribed => order.paid /\ fulfilled /\ {"receipt", "command"} \subseteq result.facts
    /\ status = "failed" => quote = "expired"

LaunchInv ==
    /\ LaunchTypeOK
    /\ OwnersAgree /\ Recorded /\ RowAgrees
    /\ Copy(result)
    /\ \A w \in Worker : Copy(mem[w]) /\ Stands(w)

\* An order that was not placed yet satisfies the invariant.
LEMMA InitLaunchInv == LaunchInit => LaunchInv
  <1> SUFFICES ASSUME LaunchInit PROVE LaunchInv
      OBVIOUS
  <1>1. LaunchTypeOK
    <2>1. OwnersTypeOK
          BY DEF LaunchInit, OwnersInit, OwnersTypeOK, Money
    <2>2. NoResult \in Result /\ NoOutcome \in Outcome /\ Start("idle") \in Place
          BY DEF NoResult, Result, NoOutcome, Outcome, Status, Start, Unbegun, Place, Money
    <2> QED BY <2>1, <2>2 DEF LaunchInit, LaunchTypeOK, Status
  <1>2. OwnersAgree /\ Recorded /\ RowAgrees
        BY DEF LaunchInit, OwnersInit, OwnersAgree, Recorded, RowAgrees, Started
  <1>3. Copy(NoResult)
        BY DEF Copy, NoResult, Settled
  <1>4. ASSUME NEW w \in Worker PROVE Copy(mem[w]) /\ Stands(w)
        BY <1>3 DEF LaunchInit, Stands, Start, Unbegun, NoOutcome, Step
  <1> QED BY <1>1, <1>2, <1>3, <1>4 DEF LaunchInv, LaunchInit

-----------------------------------------------------------------------------
(* What the owners may do to the knowledge of a pass: nothing it relies on  *)
(* is taken back.                                                           *)

OwnersKeep ==
    /\ OwnersTypeOK'
    /\ order' = order
    /\ quote # "offered" => quote' = quote
    /\ charge # "none" => charge' # "none"
    /\ charge \in Settled => charge' = charge
    /\ "funding" \in receipts => "funding" \in receipts'
    /\ fulfilled => fulfilled'

\* Owners that stand still keep everything.
LEMMA OwnersStutter ==
    ASSUME LaunchInv, UNCHANGED owners
    PROVE  OwnersKeep /\ OwnersAgree'
  BY DEF LaunchInv, LaunchTypeOK, OwnersKeep, OwnersTypeOK, OwnersAgree, owners, gateway, fabric,
         serve

\* A copy that was true stays true, and a step that was ready stays ready.
LEMMA CopyKept ==
    ASSUME OwnersKeep
    PROVE  /\ \A r : Copy(r) => Copy(r)'
           /\ \A s, r : Ready(s, r) => Ready(s, r)'
  BY DEF OwnersKeep, Copy, Ready

\* What is recorded stays sufficient when neither money, resources nor the
\* workload begin anew.
LEMMA RecordedKept ==
    ASSUME LaunchInv, order' = order, result' = result,
           charge' # "none" => charge # "none" \/ {"acceptance", "set"} \subseteq result.facts,
           set' # "none" => set # "none" \/ "acceptance" \in result.facts,
           runtime' \in Started =>
             \/ runtime \in Started
             \/ /\ {"receipt", "reservation", "command"} \subseteq result.facts
                /\ order.keyed => "key" \in result.facts
    PROVE  Recorded'
  BY DEF LaunchInv, Recorded

\* Catalog answers a quote once.
LEMMA AskAcceptQuote ==
    ASSUME LaunchInv, NEW heard \in Answer, Ask(AcceptQuote, heard)
    PROVE  /\ OwnersKeep /\ OwnersAgree'
           /\ heard = "ok" => quote' = "accepted"
           /\ heard = "refused" => quote' = "expired"
           /\ UNCHANGED <<charge, set, runtime>>
  <1>t. OwnersTypeOK /\ OwnersAgree
        BY DEF LaunchInv, LaunchTypeOK
  <1>1. CASE UNCHANGED owners /\ heard = "lost"
        BY <1>1, OwnersStutter DEF owners, gateway, fabric, serve
  <1>2. ASSUME NEW a \in Answer, AcceptQuote(a), a = heard \/ heard = "lost"
        PROVE  /\ OwnersKeep /\ OwnersAgree'
               /\ heard = "ok" => quote' = "accepted"
               /\ heard = "refused" => quote' = "expired"
               /\ UNCHANGED <<charge, set, runtime>>
        BY <1>t, <1>2 DEF AcceptQuote, OwnersTypeOK, OwnersKeep, OwnersAgree, gateway, fabric, serve
  <1> QED BY <1>1, <1>2 DEF Ask

\* The wallet's definite answers are true; it moves money only for an order
\* that is paid, and decides a charge once.
LEMMA AskDebit ==
    ASSUME LaunchInv, NEW heard \in Answer, Ask(Debit, heard), order.paid
    PROVE  /\ OwnersKeep /\ OwnersAgree'
           /\ heard \in Settled => charge' = heard
           /\ UNCHANGED <<set, runtime>>
  <1>t. OwnersTypeOK /\ OwnersAgree
        BY DEF LaunchInv, LaunchTypeOK
  <1>1. CASE UNCHANGED owners /\ heard = "lost"
        BY <1>1, OwnersStutter DEF owners, gateway, fabric, serve, Settled
  <1>2. ASSUME NEW a \in Answer, Debit(a), a = heard \/ heard = "lost"
        PROVE  /\ OwnersKeep /\ OwnersAgree'
               /\ heard \in Settled => charge' = heard
               /\ UNCHANGED <<set, runtime>>
    <2>1. /\ charge' \in Money /\ (charge # "none" => charge' = charge)
          /\ a \in Settled => charge' = a
          /\ UNCHANGED <<order, quote, refund, key, closing, receipts, fabric, serve>>
          BY <1>t, <1>2 DEF Debit, OwnersTypeOK, Money, Settled
    <2>2. OwnersKeep
          BY <1>t, <2>1 DEF OwnersKeep, OwnersTypeOK, Settled, fabric, serve
    <2>3. OwnersAgree'
          BY <1>t, <2>1 DEF OwnersAgree, fabric, serve
    <2> QED BY <1>2, <2>1, <2>2, <2>3 DEF fabric, serve, Settled
  <1> QED BY <1>1, <1>2 DEF Ask

\* A read of the charge changes nothing and its definite answers are true.
LEMMA AskReadCharge ==
    ASSUME LaunchInv, NEW heard \in Answer, Ask(ReadCharge, heard)
    PROVE  UNCHANGED owners /\ (heard \in Settled => charge = heard)
  BY DEF Ask, ReadCharge, WalletAnswers, Settled

\* A read of the resources changes nothing.
LEMMA AskReadResources ==
    ASSUME NEW heard \in Answer, Ask(ReadResources, heard)
    PROVE  UNCHANGED owners
  BY DEF Ask, ReadResources

\* Ledger records the funding of a paid order only for a confirmed charge.
LEMMA AskAppendFunding ==
    ASSUME LaunchInv, NEW heard \in Answer, Ask(AppendFunding, heard)
    PROVE  /\ OwnersKeep /\ OwnersAgree'
           /\ heard = "ok" => "funding" \in receipts'
           /\ UNCHANGED <<charge, set, runtime>>
  <1>t. OwnersTypeOK /\ OwnersAgree
        BY DEF LaunchInv, LaunchTypeOK
  <1>1. CASE UNCHANGED owners /\ heard = "lost"
        BY <1>1, OwnersStutter DEF owners, gateway, fabric, serve
  <1>2. ASSUME NEW a \in Answer, AppendFunding(a), a = heard \/ heard = "lost"
        PROVE  /\ OwnersKeep /\ OwnersAgree'
               /\ heard = "ok" => "funding" \in receipts'
               /\ UNCHANGED <<charge, set, runtime>>
        BY <1>t, <1>2 DEF AppendFunding, OwnersTypeOK, OwnersKeep, OwnersAgree, gateway, fabric,
                          serve
  <1> QED BY <1>1, <1>2 DEF Ask

\* Fabric reaches the provider only for a receipt that Ledger has.
LEMMA AskEnsureResources ==
    ASSUME LaunchInv, NEW heard \in Answer, NEW receipt \in BOOLEAN,
           Ask(LAMBDA a : EnsureResources(receipt, a), heard)
    PROVE  OwnersKeep /\ OwnersAgree' /\ UNCHANGED <<charge, runtime>>
  <1>t. OwnersTypeOK /\ OwnersAgree
        BY DEF LaunchInv, LaunchTypeOK
  <1>1. CASE UNCHANGED owners
        BY <1>1, OwnersStutter DEF owners, gateway, fabric, serve
  <1>2. ASSUME NEW a \in Answer, EnsureResources(receipt, a)
        PROVE  OwnersKeep /\ OwnersAgree' /\ UNCHANGED <<charge, runtime>>
    <2>1. /\ set' \in {"none", "intended", "partial", "provisioned", "absent"}
          /\ \/ set' = set \/ set' = "intended" \/ "funding" \in receipts
          /\ UNCHANGED <<order, quote, gateway, receipts, releasing, serve>>
          BY <1>t, <1>2 DEF EnsureResources, MayDispatch, OwnersTypeOK
    <2> QED BY <1>t, <2>1 DEF OwnersTypeOK, OwnersKeep, OwnersAgree, gateway, serve
  <1> QED BY <1>1, <1>2 DEF Ask

\* Serve's reservation, for a copy that has the receipt.
LEMMA AskReserve ==
    ASSUME LaunchInv, NEW heard \in Answer, Ask(Reserve, heard), "funding" \in receipts
    PROVE  /\ OwnersKeep /\ OwnersAgree' /\ UNCHANGED <<charge, set>>
           /\ runtime' \in Started => runtime \in Started
  <1>t. OwnersTypeOK /\ OwnersAgree
        BY DEF LaunchInv, LaunchTypeOK
  <1>1. CASE UNCHANGED owners
        BY <1>1, OwnersStutter DEF owners, gateway, fabric, serve
  <1>2. ASSUME NEW a \in Answer, Reserve(a)
        PROVE  /\ OwnersKeep /\ OwnersAgree' /\ UNCHANGED <<charge, set>>
               /\ runtime' \in Started => runtime \in Started
    <2>1. /\ runtime' = runtime \/ runtime' = "reserved"
          /\ UNCHANGED <<order, quote, gateway, receipts, fabric, retiring, fulfilled>>
          BY <1>2 DEF Reserve
    <2> QED BY <1>t, <2>1 DEF OwnersTypeOK, OwnersKeep, OwnersAgree, gateway, fabric, Started
  <1> QED BY <1>1, <1>2 DEF Ask

\* Gateway's managed key.
LEMMA AskCreateManagedKey ==
    ASSUME LaunchInv, NEW heard \in Answer, Ask(CreateManagedKey, heard)
    PROVE  OwnersKeep /\ OwnersAgree' /\ UNCHANGED <<charge, set, runtime>>
  <1>t. OwnersTypeOK /\ OwnersAgree
        BY DEF LaunchInv, LaunchTypeOK
  <1>1. CASE UNCHANGED owners
        BY <1>1, OwnersStutter DEF owners, gateway, fabric, serve
  <1>2. ASSUME NEW a \in Answer, CreateManagedKey(a)
        PROVE  OwnersKeep /\ OwnersAgree' /\ UNCHANGED <<charge, set, runtime>>
    <2>1. /\ key' \in {"none", "pending", "issued", "refused", "disabled"}
          /\ UNCHANGED <<order, quote, charge, refund, closing, receipts, fabric, serve>>
          BY <1>t, <1>2 DEF CreateManagedKey, OwnersTypeOK
    <2> QED BY <1>t, <2>1 DEF OwnersTypeOK, OwnersKeep, OwnersAgree, fabric, serve
  <1> QED BY <1>1, <1>2 DEF Ask

\* Serve's start, for a copy that has the receipt.
LEMMA AskDeploy ==
    ASSUME LaunchInv, NEW heard \in Answer, Ask(Deploy, heard), "funding" \in receipts
    PROVE  OwnersKeep /\ OwnersAgree' /\ UNCHANGED <<charge, set>>
  <1>t. OwnersTypeOK /\ OwnersAgree
        BY DEF LaunchInv, LaunchTypeOK
  <1>1. CASE UNCHANGED owners
        BY <1>1, OwnersStutter DEF owners, gateway, fabric, serve
  <1>2. ASSUME NEW a \in Answer, Deploy(a)
        PROVE  OwnersKeep /\ OwnersAgree' /\ UNCHANGED <<charge, set>>
    <2>1. /\ \/ runtime' = runtime /\ fulfilled' = fulfilled
             \/ runtime' = "accepted" /\ fulfilled' = fulfilled
             \/ /\ runtime' \in {"starting", "ready", "failed", "stopped"}
                /\ fulfilled' = (fulfilled \/ runtime' = "ready")
          /\ UNCHANGED <<order, quote, gateway, receipts, fabric, retiring>>
          BY <1>2 DEF Deploy, Observe
    <2>2. /\ fulfilled' \in BOOLEAN /\ (fulfilled => fulfilled')
          /\ runtime' \in {"none", "reserved", "retired"} \cup Started
          BY <1>t, <2>1 DEF OwnersTypeOK, Started
    <2>3. OwnersKeep
          BY <1>t, <2>1, <2>2 DEF OwnersTypeOK, OwnersKeep, gateway, fabric
    <2>4. OwnersAgree'
          BY <1>t, <2>1 DEF OwnersAgree, gateway, fabric
    <2> QED BY <2>1, <2>3, <2>4 DEF gateway, fabric
  <1> QED BY <1>1, <1>2 DEF Ask

\* Serve's readback: ready means that the delivery was fulfilled.
LEMMA AskReadRuntime ==
    ASSUME LaunchInv, NEW heard \in Answer, Ask(ReadRuntime, heard)
    PROVE  /\ OwnersKeep /\ OwnersAgree' /\ UNCHANGED <<charge, set>>
           /\ heard = "ready" => fulfilled'
           /\ runtime' \in Started => runtime \in Started
  <1>t. OwnersTypeOK /\ OwnersAgree
        BY DEF LaunchInv, LaunchTypeOK
  <1>1. CASE UNCHANGED owners /\ heard = "lost"
        BY <1>1, OwnersStutter DEF owners, gateway, fabric, serve
  <1>2. ASSUME NEW a \in Answer, ReadRuntime(a), a = heard \/ heard = "lost"
        PROVE  /\ OwnersKeep /\ OwnersAgree' /\ UNCHANGED <<charge, set>>
               /\ heard = "ready" => fulfilled'
               /\ runtime' \in Started => runtime \in Started
    <2>1. /\ \/ runtime' = runtime /\ fulfilled' = fulfilled
             \/ /\ runtime \in Started /\ runtime' \in {"starting", "ready", "failed", "stopped"}
                /\ fulfilled' = (fulfilled \/ runtime' = "ready")
          /\ UNCHANGED <<order, quote, gateway, receipts, fabric, retiring>>
          BY <1>2 DEF ReadRuntime, Observe
    <2>2. OwnersKeep
      <3>1. /\ fulfilled' \in BOOLEAN /\ (fulfilled => fulfilled')
            /\ runtime' \in {"none", "reserved", "retired"} \cup Started
            BY <1>t, <2>1 DEF OwnersTypeOK, Started
      <3> QED BY <1>t, <2>1, <3>1 DEF OwnersTypeOK, OwnersKeep, gateway, fabric
    <2>3. OwnersAgree'
      <3>1. fulfilled' => fulfilled \/ runtime \in Started
            BY <2>1, Zenon
      <3>2. runtime' = "ready" => fulfilled'
            BY <1>t, <2>1, Zenon DEF OwnersAgree
      <3>3. runtime \in Started \/ runtime' # "none" => runtime # "none"
            BY <2>1 DEF Started
      <3>4. UNCHANGED <<order, charge, receipts, set>>
            BY <2>1 DEF gateway, fabric
      <3> QED BY <1>t, <3>1, <3>2, <3>3, <3>4 DEF OwnersAgree
    <2>4. a = "ready" => runtime' = "ready"
          BY <1>2 DEF ReadRuntime, RuntimeAnswer
    <2>5. runtime' = "ready" => fulfilled'
          BY <2>3 DEF OwnersAgree
    <2> QED BY <1>2, <2>1, <2>2, <2>3, <2>4, <2>5 DEF gateway, fabric
  <1> QED BY <1>1, <1>2 DEF Ask

-----------------------------------------------------------------------------
(* Where the steps lead.                                                    *)

\* The next step of a copy with a receipt is ready.
LEMMA ToRuntimeReady ==
    ASSUME NEW r \in Result, "receipt" \in r.facts, Copy(r)
    PROVE  ToRuntime(r) \in Step /\ Ready(ToRuntime(r), r)
  BY DEF ToRuntime, Ready, Copy, Step, Charging, Receipting, AfterReceipt

\* The next step of a copy with a resource intent is ready.
LEMMA ToFundingReady ==
    ASSUME NEW r \in Result, "set" \in r.facts
    PROVE  ToFunding(r) \in Step /\ Ready(ToFunding(r), r)
  <1>1. r.charge \in {"none", "open", "confirmed", "rejected"}
        BY DEF Result, Money
  <1>2. CASE order.paid
        BY <1>1, <1>2 DEF ToFunding, Ready, Step, Charging, Receipting, AfterReceipt, Settled
  <1>3. CASE ~order.paid
        BY <1>3 DEF ToFunding, Ready, Step, Charging, Receipting, AfterReceipt, Settled
  <1> QED BY <1>2, <1>3

\* The first step of any copy is ready.
LEMMA ToFirstReady ==
    ASSUME NEW r \in Result
    PROVE  /\ ToFirst(r) \in Step /\ Ready(ToFirst(r), r)
           /\ "acceptance" \in r.facts => ToResources(r) \in Step /\ Ready(ToResources(r), r)
  <1>1. ASSUME "acceptance" \in r.facts
        PROVE  ToResources(r) \in Step /\ Ready(ToResources(r), r)
    <2>1. CASE "set" \in r.facts /\ "resources" \in r.facts
          BY <2>1, ToFundingReady DEF ToResources
    <2>2. CASE ~("set" \in r.facts /\ "resources" \in r.facts)
          BY <1>1, <2>2 DEF ToResources, Ready, Step, Charging, Receipting, AfterReceipt
    <2> QED BY <2>1, <2>2
  <1>2. CASE "grant" \notin r.facts
        BY <1>1, <1>2 DEF ToFirst, Ready, Step, Charging, Receipting, AfterReceipt
  <1>3. CASE "grant" \in r.facts /\ "acceptance" \notin r.facts
        BY <1>3 DEF ToFirst, Ready, Step, Charging, Receipting, AfterReceipt
  <1>4. CASE "grant" \in r.facts /\ "acceptance" \in r.facts
        BY <1>1, <1>4 DEF ToFirst
  <1> QED BY <1>1, <1>2, <1>3, <1>4

\* A step starts at its beginning.
LEMMA StartFacts ==
    ASSUME NEW s \in Step \cup {"idle", "load", "end"}
    PROVE  /\ Start(s) \in Place /\ Start(s).step = s /\ Start(s).phase \in {"begin", "call"}
           /\ s \notin Step => Start(s).phase = "begin"
  BY DEF Start, Place, Unbegun, Step

\* A fact added to or taken from a copy.
LEMMA WithFacts ==
    ASSUME NEW r \in Result, NEW f \in Fact
    PROVE  /\ With(r, f) \in Result /\ With(r, f).facts = r.facts \cup {f}
           /\ With(r, f).charge = r.charge
           /\ Without(r, f) \in Result /\ Without(r, f).facts = r.facts \ {f}
           /\ Without(r, f).charge = r.charge
  BY DEF With, Without, Result

-----------------------------------------------------------------------------
(* How a pass moves.                                                        *)

\* A step of one pass that writes no row: it is enough that the owners keep
\* what was true and that this pass stands where it should.
LEMMA PassStep ==
    ASSUME LaunchInv, OwnersKeep, OwnersAgree', Recorded', NEW w \in Worker,
           NEW place \in Place, NEW r \in Result, NEW o \in Outcome,
           at' = [at EXCEPT ![w] = place], mem' = [mem EXCEPT ![w] = r],
           outcome' = [outcome EXCEPT ![w] = o], UNCHANGED <<row, holder>>,
           Copy(r)', Stands(w)'
    PROVE  LaunchInv'
  <1>t. LaunchTypeOK
        BY DEF LaunchInv
  <1>1. LaunchTypeOK'
        BY <1>t DEF LaunchTypeOK, OwnersKeep, row
  <1>2. Copy(result)'
        BY CopyKept DEF LaunchInv, row, OwnersKeep, Copy
  <1>3. RowAgrees'
        BY <1>t DEF LaunchInv, RowAgrees, OwnersKeep, row
  <1>4. ASSUME NEW v \in Worker PROVE Copy(mem[v])' /\ Stands(v)'
    <2>1. CASE v = w
      <3>1. mem'[v] = r
            BY <1>t, <2>1 DEF LaunchTypeOK
      <3> QED BY <2>1, <3>1 DEF Copy
    <2>2. CASE v # w
      <3>1. at'[v] = at[v] /\ mem'[v] = mem[v] /\ outcome'[v] = outcome[v]
            BY <1>t, <2>2 DEF LaunchTypeOK
      <3>2. Copy(mem[v]) /\ Stands(v)
            BY DEF LaunchInv
      <3>3. Copy(mem[v])'
            BY <3>1, <3>2 DEF Copy, OwnersKeep
      <3>4. /\ Ready(at[v].step, mem[v]) => Ready(at[v].step, mem[v])'
            /\ Ready(outcome[v].next, mem[v]) => Ready(outcome[v].next, mem[v])'
            BY <3>1 DEF Ready, OwnersKeep
      <3>5. Stands(v)'
            BY <3>1, <3>2, <3>4 DEF Stands, OwnersKeep, row
      <3> QED BY <3>3, <3>5
    <2> QED BY <2>1, <2>2
  <1> QED BY <1>1, <1>2, <1>3, <1>4 DEF LaunchInv

\* A step that reports what the owner answered.
LEMMA ReportStep ==
    ASSUME LaunchInv, OwnersKeep, OwnersAgree', Recorded', NEW w \in Worker,
           at[w].step \in Step, at[w].phase = "call",
           NEW r \in Result, NEW s \in Status \ {"succeeded"}, NEW next \in Step \cup {"end"},
           Report(w, r, s, next), Copy(r)', next \in Step => Ready(next, r)',
           s = "failed" => quote' = "expired",
           mem[w].facts \ {"resources"} \subseteq r.facts,
           mem[w].charge \in Settled => r.charge = mem[w].charge
    PROVE  LaunchInv'
  <1> DEFINE place == [at[w] EXCEPT !.phase = "save"]
             o == [status |-> s, next |-> next]
  <1>t. LaunchTypeOK /\ at[w] \in Place
        BY DEF LaunchInv, LaunchTypeOK
  <1>1. place \in Place /\ place.step = at[w].step /\ place.phase = "save" /\ o \in Outcome
        BY <1>t DEF Place, Outcome
  <1>2. /\ at' = [at EXCEPT ![w] = place] /\ mem' = [mem EXCEPT ![w] = r]
        /\ outcome' = [outcome EXCEPT ![w] = o] /\ UNCHANGED <<row, holder>>
        BY DEF Report
  <1>3. at'[w] = place /\ mem'[w] = r /\ outcome'[w] = o
        BY <1>t, <1>2 DEF LaunchTypeOK
  <1>4. Stands(w)
        BY DEF LaunchInv
  <1> HIDE DEF place
  <1>5. Ready(outcome[w].next, mem[w])' <=> Ready(next, r)'
        BY <1>3 DEF Ready
  <1>6. Stands(w)'
        BY <1>1, <1>2, <1>3, <1>4, <1>5 DEF Stands, row
  <1> QED BY <1>1, <1>2, <1>6, PassStep

\* The names of steps, states and facts that the lemmas below use.
LEMMA Labels ==
    /\ {"running", "failed", "awaiting_confirmation", "needs_attention"} \subseteq Status
    /\ "end" \notin Step /\ "idle" \notin Step /\ "load" \notin Step
    /\ Step \subseteq Step \cup {"idle", "load", "end"}
    /\ {"grant", "acceptance", "set", "resources", "receipt", "source", "reservation", "key",
        "command", "deployed"} \subseteq Fact
  BY DEF Status, Terminal, Step, Fact

\* A report that adds nothing to the copy.
LEMMA KeepStep ==
    ASSUME LaunchInv, OwnersKeep, OwnersAgree', Recorded', NEW w \in Worker,
           at[w].step \in Step, at[w].phase = "call",
           NEW s \in Status \ {"succeeded"}, NEW next \in Step \cup {"end"},
           Report(w, mem[w], s, next), next \in Step => Ready(next, mem[w]) \/ next = "activate",
           next = "activate" => /\ {"receipt", "command"} \subseteq mem[w].facts
                                /\ order.paid /\ fulfilled',
           s = "failed" => quote' = "expired"
    PROVE  LaunchInv'
  <1>1. mem[w] \in Result /\ Copy(mem[w])
        BY DEF LaunchInv, LaunchTypeOK
  <1>2. PICK r : r = mem[w]
        OBVIOUS
  <1>3. r \in Result /\ Copy(r)' /\ Report(w, r, s, next)
        BY <1>1, <1>2 DEF Copy, OwnersKeep
  <1>4. next \in Step => Ready(next, r)'
    <2>1. CASE next = "activate"
          BY <1>2, <2>1 DEF Ready, OwnersKeep, Charging, Receipting, AfterReceipt
    <2>2. CASE next # "activate"
          BY <1>2, <2>2, CopyKept
    <2> QED BY <2>1, <2>2
  <1> QED BY <1>2, <1>3, <1>4, ReportStep

\* The answer decided nothing.
LEMMA AwaitStep ==
    ASSUME LaunchInv, OwnersKeep, OwnersAgree', Recorded', NEW w \in Worker,
           at[w].step \in Step, at[w].phase = "call", Await(w)
    PROVE  LaunchInv'
  <1>1. Report(w, mem[w], "awaiting_confirmation", "end")
        BY DEF Await
  <1>2. "awaiting_confirmation" \in Status \ {"succeeded"} /\ "end" \notin Step
        BY Labels
  <1> QED BY <1>1, <1>2, KeepStep, "end" # "activate"

\* A step that goes on without a write: it learned at most the managed key.
LEMMA ProceedStep ==
    ASSUME LaunchInv, OwnersKeep, OwnersAgree', Recorded', NEW w \in Worker,
           at[w].step \in Step, at[w].phase = "call", at[w].step # "freeze_command",
           NEW r \in Result, NEW place \in Place, place.step \in Step, place.phase # "save",
           Proceed(w, r, place), Copy(r)', Ready(place.step, r)',
           mem[w].facts \subseteq r.facts,
           r.facts \ Unstored(place.step) \subseteq mem[w].facts,
           mem[w].charge \in Settled => r.charge = mem[w].charge
    PROVE  LaunchInv'
  <1>t. LaunchTypeOK /\ outcome[w] \in Outcome
        BY DEF LaunchInv, LaunchTypeOK
  <1>1. /\ at' = [at EXCEPT ![w] = place] /\ mem' = [mem EXCEPT ![w] = r]
        /\ outcome' = [outcome EXCEPT ![w] = outcome[w]] /\ UNCHANGED <<row, holder, outcome>>
        BY <1>t DEF Proceed, Goto, LaunchTypeOK
  <1>2. at'[w] = place /\ mem'[w] = r /\ outcome'[w] = outcome[w]
        BY <1>t, <1>1 DEF LaunchTypeOK
  <1>3. Stands(w)
        BY DEF LaunchInv
  <1>4. Ready(at[w].step, mem[w])' <=> Ready(place.step, r)'
        BY <1>2 DEF Ready
  <1>5. mem[w].facts \ {"resources"} \subseteq result.facts
        BY <1>3 DEF Stands, Unstored
  <1>6. r.facts \ Unstored(place.step) \subseteq result.facts
        BY <1>5 DEF Unstored
  <1>7. Stands(w)'
        BY <1>1, <1>2, <1>3, <1>4, <1>6 DEF Stands, row, OwnersKeep
  <1> QED BY <1>t, <1>1, <1>7, PassStep

\* What a pass has when it calls an owner.
LEMMA CallFacts ==
    ASSUME LaunchInv, NEW w \in Worker, NEW s \in Step, Calls(w, s)
    PROVE  /\ at[w].step = s /\ at[w].phase = "call"
           /\ mem[w] \in Result /\ Copy(mem[w]) /\ Ready(s, mem[w])
           /\ mem[w].facts \ Unstored(s) \subseteq result.facts
           /\ s # "freeze_command" => mem[w].facts \ {"resources"} \subseteq result.facts
  <1>1. at[w].step = s /\ at[w].phase = "call"
        BY DEF Calls
  <1>2. mem[w] \in Result /\ Copy(mem[w]) /\ Stands(w)
        BY DEF LaunchInv, LaunchTypeOK
  <1> QED BY <1>1, <1>2 DEF Stands, Unstored

-----------------------------------------------------------------------------
(* The calls, one lemma for each part of the order.                         *)

\* Grant, quote and resource intent.
LEMMA IntentSteps ==
    ASSUME LaunchInv, NEW w \in Worker, NEW heard \in Answer,
           IssueGrant(w, heard) \/ AcceptQuoteStep(w, heard) \/ IntendResources(w, heard)
    PROVE  LaunchInv'
  <1>s. /\ "running" \in Status \ {"succeeded"} /\ "failed" \in Status \ {"succeeded"}
        /\ "awaiting_confirmation" \in Status \ {"succeeded"}
        /\ "needs_attention" \in Status \ {"succeeded"} /\ "end" \notin Step
        /\ {"grant", "accept_quote", "ensure_resources"} \subseteq Step
        /\ {"grant", "acceptance", "set"} \subseteq Fact
        BY Labels DEF Step
  <1>1. CASE IssueGrant(w, heard)
    <2>1. /\ at[w].step \in Step /\ at[w].phase = "call" /\ mem[w] \in Result /\ Copy(mem[w])
          BY <1>s, <1>1, CallFacts DEF IssueGrant
    <2>2. UNCHANGED owners /\ OwnersKeep /\ OwnersAgree'
          BY <1>1, OwnersStutter DEF IssueGrant
    <2>3. result' = result
          BY <1>1 DEF IssueGrant, Await, Report, row
    <2>4. Recorded'
          BY <2>2, <2>3, RecordedKept DEF owners, gateway, fabric, serve
    <2>5. CASE Await(w)
          BY <2>1, <2>2, <2>4, <2>5, AwaitStep
    <2>6. CASE Report(w, With(mem[w], "grant"), "running", ToFirst(With(mem[w], "grant")))
      <3>1. PICK r : r = With(mem[w], "grant")
            OBVIOUS
      <3>2. r \in Result /\ r.facts = mem[w].facts \cup {"grant"} /\ r.charge = mem[w].charge
            BY <1>s, <2>1, <3>1, WithFacts
      <3>3. Copy(r)'
            BY <2>1, <2>2, <3>2 DEF Copy, OwnersKeep
      <3>4. PICK next : next = ToFirst(r)
            OBVIOUS
      <3>5. next \in Step /\ Ready(next, r)'
            BY <2>2, <3>2, <3>4, ToFirstReady, CopyKept
      <3>6. Report(w, r, "running", next)
            BY <2>6, <3>1, <3>4
      <3> QED BY <1>s, <2>1, <2>2, <2>4, <3>2, <3>3, <3>5, <3>6, ReportStep
    <2> QED BY <1>1, <2>5, <2>6 DEF IssueGrant
  <1>2. CASE AcceptQuoteStep(w, heard)
    <2>1. /\ at[w].step \in Step /\ at[w].phase = "call" /\ mem[w] \in Result /\ Copy(mem[w])
          BY <1>s, <1>2, CallFacts DEF AcceptQuoteStep
    <2>2. /\ Ask(AcceptQuote, heard)
          /\ CASE heard = "ok" -> LET r == With(mem[w], "acceptance")
                                  IN Report(w, r, "running", ToResources(r))
               [] heard = "refused" -> Report(w, mem[w], "failed", "end")
               [] OTHER -> Await(w)
          BY <1>2 DEF AcceptQuoteStep
    <2>3. /\ OwnersKeep /\ OwnersAgree'
          /\ heard = "ok" => quote' = "accepted"
          /\ heard = "refused" => quote' = "expired"
          /\ UNCHANGED <<charge, set, runtime>>
          BY <2>2, AskAcceptQuote
    <2>4. result' = result
          BY <2>2 DEF Await, Report, row
    <2>5. Recorded'
          BY <2>3, <2>4, RecordedKept DEF OwnersKeep
    <2>6. CASE heard = "ok"
      <3>1. PICK r : r = With(mem[w], "acceptance")
            OBVIOUS
      <3>2. r \in Result /\ r.facts = mem[w].facts \cup {"acceptance"} /\ r.charge = mem[w].charge
            BY <1>s, <2>1, <3>1, WithFacts
      <3>3. Copy(r)'
            BY <2>1, <2>3, <2>6, <3>2 DEF Copy, OwnersKeep
      <3>4. PICK next : next = ToResources(r)
            OBVIOUS
      <3>5. next \in Step /\ Ready(next, r)'
            BY <2>3, <3>2, <3>4, ToFirstReady, CopyKept
      <3>6. Report(w, r, "running", next)
            BY <2>2, <2>6, <3>1, <3>4
      <3> QED BY <1>s, <2>1, <2>3, <2>5, <3>2, <3>3, <3>5, <3>6, ReportStep
    <2>7. CASE heard = "refused"
      <3>1. Report(w, mem[w], "failed", "end")
            BY <2>2, <2>7
      <3> QED BY <1>s, <2>1, <2>3, <2>5, <2>7, <3>1, KeepStep
    <2>8. CASE heard \notin {"ok", "refused"}
          BY <2>1, <2>2, <2>3, <2>5, <2>8, AwaitStep
    <2> QED BY <2>6, <2>7, <2>8
  <1>3. CASE IntendResources(w, heard)
    <2>1. /\ at[w].step \in Step /\ at[w].phase = "call" /\ mem[w] \in Result /\ Copy(mem[w])
          /\ "acceptance" \in mem[w].facts /\ "acceptance" \in result.facts
          BY <1>s, <1>3, CallFacts DEF IntendResources, Ready, Unstored
    <2>2. /\ Ask(LAMBDA a : EnsureResources(FALSE, a), heard)
          /\ CASE heard = "ok" -> LET r == With(mem[w], "set")
                                  IN Report(w, r, "awaiting_confirmation", ToFunding(r))
               [] heard = "denied" -> Report(w, mem[w], "needs_attention", "end")
               [] OTHER -> Await(w)
          BY <1>3 DEF IntendResources
    <2>3. OwnersKeep /\ OwnersAgree' /\ UNCHANGED <<charge, runtime>>
          BY <2>2, AskEnsureResources, FALSE \in BOOLEAN
    <2>4. result' = result
          BY <2>2 DEF Await, Report, row
    <2>5. Recorded'
          BY <2>1, <2>3, <2>4, RecordedKept DEF OwnersKeep
    <2>6. CASE heard = "ok"
      <3>1. PICK r : r = With(mem[w], "set")
            OBVIOUS
      <3>2. r \in Result /\ r.facts = mem[w].facts \cup {"set"} /\ r.charge = mem[w].charge
            BY <1>s, <2>1, <3>1, WithFacts
      <3>3. Copy(r)'
            BY <2>1, <2>3, <3>2 DEF Copy, OwnersKeep
      <3>4. PICK next : next = ToFunding(r)
            OBVIOUS
      <3>5. next \in Step /\ Ready(next, r)'
            BY <2>3, <3>2, <3>4, ToFundingReady, CopyKept
      <3>6. Report(w, r, "awaiting_confirmation", next)
            BY <2>2, <2>6, <3>1, <3>4
      <3> QED BY <1>s, <2>1, <2>3, <2>5, <3>2, <3>3, <3>5, <3>6, ReportStep
    <2>7. CASE heard = "denied"
      <3>1. Report(w, mem[w], "needs_attention", "end")
            BY <2>2, <2>7
      <3> QED BY <1>s, <2>1, <2>3, <2>5, <3>1, KeepStep
    <2>8. CASE heard \notin {"ok", "denied"}
          BY <2>1, <2>2, <2>3, <2>5, <2>8, AwaitStep
    <2> QED BY <2>6, <2>7, <2>8
  <1> QED BY <1>1, <1>2, <1>3

\* What the wallet answered, written or carried on: the copy takes the answer
\* only from a charge that was not settled in it.
LEMMA FinishChargeStep ==
    ASSUME LaunchInv, OwnersKeep, OwnersAgree', Recorded', NEW w \in Worker,
           NEW s \in Charging, Calls(w, s),
           NEW answer \in Settled \cup {"open"}, answer \in Settled => charge' = answer,
           FinishCharge(w, answer)
    PROVE  LaunchInv'
  <1>1. /\ at[w].step = s /\ at[w].phase = "call" /\ s \in Step /\ s # "freeze_command"
        /\ mem[w] \in Result /\ Copy(mem[w])
        /\ "set" \in mem[w].facts /\ mem[w].charge \notin Settled
    <2>1. s \in Step /\ s # "freeze_command"
          BY DEF Charging, Step
    <2> QED BY <2>1, CallFacts DEF Ready
  <1>2. PICK r : r = [mem[w] EXCEPT !.charge = answer]
        OBVIOUS
  <1>3. r \in Result /\ r.facts = mem[w].facts /\ r.charge = answer
        BY <1>1, <1>2 DEF Result, Money, Settled
  <1>4. Copy(r)'
        BY <1>1, <1>3 DEF Copy, OwnersKeep
  <1>5. CASE answer = "confirmed"
    <2>1. PICK place : place = Start("wallet_action_receipt")
          OBVIOUS
    <2>2. /\ place \in Place /\ place.step = "wallet_action_receipt" /\ place.phase # "save"
          /\ place.step \in Step
          BY <2>1, StartFacts, "wallet_action_receipt" \in Step DEF Step
    <2>3. Proceed(w, r, place)
          BY <1>2, <1>5, <2>1 DEF FinishCharge
    <2>4. Ready(place.step, r)'
          BY <1>1, <1>3, <2>2 DEF Ready, Charging, AfterReceipt
    <2> QED BY <1>1, <1>3, <1>4, <2>2, <2>3, <2>4, ProceedStep
  <1>6. CASE answer = "rejected"
    <2>1. Report(w, r, "needs_attention", "end")
          BY <1>2, <1>6 DEF FinishCharge
    <2> QED BY <1>1, <1>3, <1>4, <2>1, ReportStep, Labels
  <1>7. CASE answer = "open"
    <2>1. Report(w, r, "awaiting_confirmation", "read_resources")
          BY <1>2, <1>7 DEF FinishCharge
    <2>2. "read_resources" \in Step /\ Ready("read_resources", r)'
          BY DEF Step, Ready, Charging, Receipting, AfterReceipt
    <2> QED BY <1>1, <1>3, <1>4, <2>1, <2>2, ReportStep, Labels
  <1> QED BY <1>5, <1>6, <1>7 DEF Settled

\* Funding.
LEMMA FundingSteps ==
    ASSUME LaunchInv, NEW w \in Worker, NEW heard \in Answer,
           WalletCharge(w, heard) \/ ReadChargeStep(w, heard) \/ ReuseCharge(w) \/ RefuseOrder(w)
           \/ FundingReceipt(w, heard)
    PROVE  LaunchInv'
  <1>s. /\ {"running", "awaiting_confirmation", "needs_attention"} \subseteq Status \ {"succeeded"}
        /\ "end" \notin Step /\ "receipt" \in Fact
        /\ {"wallet_charge", "read_charge", "reuse_charge", "refuse_order", "zero_charge_receipt",
            "wallet_action_receipt", "provision"} \subseteq Step
        BY Labels DEF Step
  <1>1. CASE WalletCharge(w, heard)
    <2>1. /\ Calls(w, "wallet_charge") /\ "wallet_charge" \in Charging
          /\ at[w].step = "wallet_charge" /\ at[w].phase = "call"
          /\ mem[w] \in Result /\ Copy(mem[w]) /\ order.paid
          /\ Ready("wallet_charge", mem[w]) /\ {"acceptance", "set"} \subseteq result.facts
          BY <1>s, <1>1, CallFacts DEF WalletCharge, Ready, Charging, Copy
    <2>2. /\ Ask(Debit, heard)
          /\ CASE heard \in Settled -> FinishCharge(w, heard)
               [] heard = "refused" -> Await(w)
               [] OTHER -> Proceed(w, mem[w], [step |-> "read_charge", phase |-> "call"])
          BY <1>1 DEF WalletCharge
    <2>3. /\ OwnersKeep /\ OwnersAgree' /\ UNCHANGED <<set, runtime>>
          /\ heard \in Settled => charge' = heard
          BY <2>1, <2>2, AskDebit
    <2>4. result' = result
          BY <2>2 DEF FinishCharge, Await, Report, Proceed, row, Settled
    <2>5. Recorded'
          BY <2>1, <2>3, <2>4, RecordedKept DEF OwnersKeep
    <2>6. CASE heard \in Settled
      <3>1. FinishCharge(w, heard) /\ heard \in Settled \cup {"open"} /\ charge' = heard
            BY <2>2, <2>3, <2>6 DEF Settled
      <3> QED BY <2>1, <2>3, <2>5, <3>1, FinishChargeStep
    <2>7. CASE heard = "refused"
          BY <1>s, <2>1, <2>2, <2>3, <2>5, <2>7, AwaitStep DEF Settled
    <2>8. CASE heard \notin Settled \cup {"refused"}
      <3>1. PICK r, place : r = mem[w] /\ place = [step |-> "read_charge", phase |-> "call"]
            OBVIOUS
      <3>2. /\ place \in Place /\ place.step = "read_charge" /\ place.phase # "save"
            /\ Proceed(w, r, place)
            BY <1>s, <2>2, <2>8, <3>1 DEF Place
      <3>3. Copy(r)' /\ Ready(place.step, r)'
        <4>1. Ready(place.step, r)
              BY <2>1, <3>1, <3>2 DEF Ready, Charging, AfterReceipt
        <4> QED BY <2>1, <2>3, <3>1, <4>1, CopyKept
      <3> QED BY <1>s, <2>1, <2>3, <2>5, <3>1, <3>2, <3>3, ProceedStep
    <2> QED BY <2>6, <2>7, <2>8
  <1>2. CASE ReadChargeStep(w, heard)
    <2>1. /\ Calls(w, "read_charge") /\ "read_charge" \in Charging
          /\ at[w].step = "read_charge" /\ at[w].phase = "call"
          BY <1>s, <1>2, CallFacts DEF ReadChargeStep, Charging
    <2>2. /\ Ask(ReadCharge, heard)
          /\ IF heard \in Settled \cup {"open"} THEN FinishCharge(w, heard) ELSE Await(w)
          BY <1>2 DEF ReadChargeStep
    <2>3. UNCHANGED owners /\ (heard \in Settled => charge = heard)
          BY <2>2, AskReadCharge
    <2>4. OwnersKeep /\ OwnersAgree' /\ (heard \in Settled => charge' = heard)
          BY <2>3, OwnersStutter DEF owners, gateway
    <2>5. result' = result
          BY <2>2 DEF FinishCharge, Await, Report, Proceed, row, Settled
    <2>6. Recorded'
          BY <2>3, <2>5, RecordedKept DEF owners, gateway, fabric, serve
    <2>7. CASE heard \in Settled \cup {"open"}
          BY <2>1, <2>2, <2>4, <2>6, <2>7, FinishChargeStep
    <2>8. CASE heard \notin Settled \cup {"open"}
          BY <1>s, <2>1, <2>2, <2>4, <2>6, <2>8, AwaitStep
    <2> QED BY <2>7, <2>8
  <1>3. CASE ReuseCharge(w) \/ RefuseOrder(w)
    <2>1. UNCHANGED owners /\ OwnersKeep /\ OwnersAgree'
          BY <1>3, OwnersStutter DEF ReuseCharge, RefuseOrder
    <2>2. result' = result
          BY <1>3 DEF ReuseCharge, RefuseOrder, Report, row
    <2>3. Recorded'
          BY <2>1, <2>2, RecordedKept DEF owners, gateway, fabric, serve
    <2>4. CASE ReuseCharge(w)
      <3>1. /\ at[w].step \in Step /\ at[w].phase = "call" /\ "receipt" \in mem[w].facts
            BY <1>s, <2>4, CallFacts DEF ReuseCharge, Ready, AfterReceipt
      <3>2. Ready("provision", mem[w]) /\ Report(w, mem[w], "running", "provision")
            BY <2>4, <3>1 DEF ReuseCharge, Ready, Charging, Receipting
      <3> QED BY <1>s, <2>1, <2>3, <3>1, <3>2, KeepStep
    <2>5. CASE RefuseOrder(w)
      <3>1. /\ at[w].step \in Step /\ at[w].phase = "call"
            /\ Report(w, mem[w], "needs_attention", "end")
            BY <1>s, <2>5, CallFacts DEF RefuseOrder
      <3> QED BY <1>s, <2>1, <2>3, <3>1, KeepStep
    <2> QED BY <1>3, <2>4, <2>5
  <1>4. CASE FundingReceipt(w, heard)
    <2>1. /\ at[w].step \in Step /\ at[w].phase = "call" /\ mem[w] \in Result /\ Copy(mem[w])
          /\ "set" \in mem[w].facts
          BY <1>s, <1>4, CallFacts DEF FundingReceipt, Ready, Receipting
    <2>2. /\ Ask(AppendFunding, heard)
          /\ IF heard = "ok" THEN Report(w, With(mem[w], "receipt"), "running", "provision")
             ELSE Await(w)
          BY <1>4 DEF FundingReceipt
    <2>3. /\ OwnersKeep /\ OwnersAgree' /\ UNCHANGED <<charge, set, runtime>>
          /\ heard = "ok" => "funding" \in receipts'
          BY <2>2, AskAppendFunding
    <2>4. result' = result
          BY <2>2 DEF Await, Report, row
    <2>5. Recorded'
          BY <2>3, <2>4, RecordedKept DEF OwnersKeep
    <2>6. CASE heard = "ok"
      <3>1. PICK r : r = With(mem[w], "receipt")
            OBVIOUS
      <3>2. r \in Result /\ r.facts = mem[w].facts \cup {"receipt"} /\ r.charge = mem[w].charge
            BY <1>s, <2>1, <3>1, WithFacts
      <3>3. Copy(r)'
            BY <2>1, <2>3, <2>6, <3>2 DEF Copy, OwnersKeep
      <3>4. Ready("provision", r)' /\ Report(w, r, "running", "provision")
            BY <2>2, <2>6, <3>1, <3>2 DEF Ready, Charging, Receipting
      <3> QED BY <1>s, <2>1, <2>3, <2>5, <3>2, <3>3, <3>4, ReportStep
    <2>7. CASE heard # "ok"
          BY <2>1, <2>2, <2>3, <2>5, <2>7, AwaitStep
    <2> QED BY <2>6, <2>7
  <1> QED BY <1>1, <1>2, <1>3, <1>4

\* Resources: the continuation with a receipt, and the readbacks.
LEMMA ResourceSteps ==
    ASSUME LaunchInv, NEW w \in Worker, NEW heard \in Answer,
           Provision(w, heard) \/ ReadResourcesStep(w, heard) \/ CloseoutRead(w, heard)
    PROVE  LaunchInv'
  <1>s. /\ {"awaiting_confirmation", "needs_attention"} \subseteq Status \ {"succeeded"}
        /\ "end" \notin Step /\ "resources" \in Fact
        /\ {"provision", "read_resources", "closeout_read"} \subseteq Step
        BY Labels DEF Step
  <1>1. CASE Provision(w, heard)
    <2>1. /\ at[w].step \in Step /\ at[w].phase = "call" /\ mem[w] \in Result
          /\ "acceptance" \in result.facts
          BY <1>s, <1>1, CallFacts DEF Provision, Ready, AfterReceipt, Copy
    <2>2. /\ Ask(LAMBDA a : EnsureResources(TRUE, a), heard)
          /\ CASE heard = "ok" -> Report(w, mem[w], "awaiting_confirmation", "read_resources")
               [] heard = "denied" -> Report(w, mem[w], "needs_attention", "closeout_read")
               [] OTHER -> Await(w)
          BY <1>1 DEF Provision
    <2>3. OwnersKeep /\ OwnersAgree' /\ UNCHANGED <<charge, runtime>>
          BY <2>2, AskEnsureResources, TRUE \in BOOLEAN
    <2>4. result' = result
          BY <2>2 DEF Await, Report, row
    <2>5. Recorded'
          BY <2>1, <2>3, <2>4, RecordedKept DEF OwnersKeep
    <2>6. Ready("read_resources", mem[w]) /\ Ready("closeout_read", mem[w])
          BY DEF Ready, Charging, Receipting, AfterReceipt
    <2>7. CASE heard = "ok"
      <3>1. Report(w, mem[w], "awaiting_confirmation", "read_resources")
            BY <2>2, <2>7
      <3> QED BY <1>s, <2>1, <2>3, <2>5, <2>6, <3>1, KeepStep
    <2>8. CASE heard = "denied"
      <3>1. Report(w, mem[w], "needs_attention", "closeout_read")
            BY <2>2, <2>8
      <3> QED BY <1>s, <2>1, <2>3, <2>5, <2>6, <3>1, KeepStep
    <2>9. CASE heard \notin {"ok", "denied"}
          BY <2>1, <2>2, <2>3, <2>5, <2>9, AwaitStep
    <2> QED BY <2>7, <2>8, <2>9
  <1>2. ASSUME NEW r, r = Observed(mem[w], heard), mem[w] \in Result,
               Copy(mem[w]), UNCHANGED owners
        PROVE  /\ r \in Result /\ r.charge = mem[w].charge /\ Copy(r) /\ Copy(r)'
               /\ mem[w].facts \ {"resources"} \subseteq r.facts
    <2>1. /\ r \in Result /\ r.charge = mem[w].charge
          /\ mem[w].facts \ {"resources"} \subseteq r.facts
          /\ r.facts \subseteq mem[w].facts \cup {"resources"}
          BY <1>s, <1>2, WithFacts DEF Observed
    <2>2. Copy(r)
          BY <1>2, <2>1 DEF Copy
    <2> QED BY <1>2, <2>1, <2>2 DEF Copy, owners, gateway
  <1>3. CASE ReadResourcesStep(w, heard)
    <2>1. /\ at[w].step \in Step /\ at[w].phase = "call" /\ mem[w] \in Result /\ Copy(mem[w])
          BY <1>s, <1>3, CallFacts DEF ReadResourcesStep
    <2>2. /\ Ask(ReadResources, heard)
          /\ LET r == Observed(mem[w], heard)
                 next == IF heard = "confirmed" /\ "receipt" \in r.facts THEN ToRuntime(r)
                         ELSE "end"
             IN IF heard = "lost" THEN Await(w)
                ELSE Report(w, r, "awaiting_confirmation", next)
          BY <1>3 DEF ReadResourcesStep
    <2>3. UNCHANGED owners /\ OwnersKeep /\ OwnersAgree'
          BY <2>2, AskReadResources, OwnersStutter
    <2>4. result' = result
          BY <2>2 DEF Await, Report, row
    <2>5. Recorded'
          BY <2>3, <2>4, RecordedKept DEF owners, gateway, fabric, serve
    <2>6. CASE heard = "lost"
          BY <2>1, <2>2, <2>3, <2>5, <2>6, AwaitStep
    <2>7. CASE heard # "lost"
      <3>1. PICK r : r = Observed(mem[w], heard)
            OBVIOUS
      <3>2. PICK next : next = IF heard = "confirmed" /\ "receipt" \in r.facts THEN ToRuntime(r)
                               ELSE "end"
            OBVIOUS
      <3>3. Report(w, r, "awaiting_confirmation", next)
            BY <2>2, <2>7, <3>1, <3>2
      <3>4. /\ r \in Result /\ r.charge = mem[w].charge /\ Copy(r) /\ Copy(r)'
            /\ mem[w].facts \ {"resources"} \subseteq r.facts
            BY <1>2, <2>1, <2>3, <3>1
      <3>5. next \in Step \cup {"end"} /\ (next \in Step => Ready(next, r)')
        <4>1. CASE heard = "confirmed" /\ "receipt" \in r.facts
              BY <2>3, <3>2, <3>4, <4>1, ToRuntimeReady, CopyKept
        <4>2. CASE ~(heard = "confirmed" /\ "receipt" \in r.facts)
              BY <1>s, <3>2, <4>2
        <4> QED BY <4>1, <4>2
      <3> QED BY <1>s, <2>1, <2>3, <2>5, <3>3, <3>4, <3>5, ReportStep
    <2> QED BY <2>6, <2>7
  <1>4. CASE CloseoutRead(w, heard)
    <2>1. /\ at[w].step \in Step /\ at[w].phase = "call" /\ mem[w] \in Result /\ Copy(mem[w])
          BY <1>s, <1>4, CallFacts DEF CloseoutRead
    <2>2. /\ Ask(ReadResources, heard)
          /\ Report(w, IF heard = "lost" THEN mem[w] ELSE Observed(mem[w], heard),
                    "needs_attention", "end")
          BY <1>4 DEF CloseoutRead
    <2>3. UNCHANGED owners /\ OwnersKeep /\ OwnersAgree'
          BY <2>2, AskReadResources, OwnersStutter
    <2>4. result' = result
          BY <2>2 DEF Report, row
    <2>5. Recorded'
          BY <2>3, <2>4, RecordedKept DEF owners, gateway, fabric, serve
    <2>6. PICK r : r = Observed(mem[w], heard)
          OBVIOUS
    <2>7. /\ r \in Result /\ r.charge = mem[w].charge /\ Copy(r)'
          /\ mem[w].facts \ {"resources"} \subseteq r.facts
          BY <1>2, <2>1, <2>3, <2>6
    <2>8. CASE heard = "lost"
      <3>1. Report(w, mem[w], "needs_attention", "end")
            BY <2>2, <2>8
      <3> QED BY <1>s, <2>1, <2>3, <2>5, <3>1, KeepStep
    <2>9. CASE heard # "lost"
      <3>1. Report(w, r, "needs_attention", "end")
            BY <2>2, <2>6, <2>9
      <3> QED BY <1>s, <2>1, <2>3, <2>5, <2>7, <3>1, ReportStep
    <2> QED BY <2>8, <2>9
  <1> QED BY <1>1, <1>3, <1>4

\* Runtime: source, reservation, key, command, start and readback.
LEMMA RuntimeSteps ==
    ASSUME LaunchInv, NEW w \in Worker, NEW heard \in Answer,
           \/ ResolveSource(w, heard) \/ ReserveRuntime(w, heard) \/ BindManagedKey(w, heard)
           \/ FreezeCommand(w)
           \/ DeployRuntime(w, heard) \/ ReadRuntimeStep(w, heard)
    PROVE  LaunchInv'
  <1>s. /\ {"running", "awaiting_confirmation", "needs_attention"} \subseteq Status \ {"succeeded"}
        /\ "end" \notin Step
        /\ {"source", "reservation", "key", "command", "deployed"} \subseteq Fact
        /\ {"runtime_capability", "reserve_runtime", "create_managed_key", "freeze_command",
            "deploy_runtime", "read_runtime", "activate"} \subseteq Step
        BY Labels DEF Step
  <1>1. CASE ResolveSource(w, heard)
    <2>1. /\ at[w].step \in Step /\ at[w].phase = "call" /\ mem[w] \in Result /\ Copy(mem[w])
          /\ "receipt" \in mem[w].facts
          BY <1>s, <1>1, CallFacts DEF ResolveSource, Ready, AfterReceipt
    <2>2. UNCHANGED owners /\ OwnersKeep /\ OwnersAgree'
          BY <1>1, OwnersStutter DEF ResolveSource
    <2>3. result' = result
          BY <1>1 DEF ResolveSource, Await, Report, row
    <2>4. Recorded'
          BY <2>2, <2>3, RecordedKept DEF owners, gateway, fabric, serve
    <2>5. CASE Await(w)
          BY <2>1, <2>2, <2>4, <2>5, AwaitStep
    <2>6. CASE Report(w, With(mem[w], "source"), "running", ToRuntime(With(mem[w], "source")))
      <3>1. PICK r : r = With(mem[w], "source")
            OBVIOUS
      <3>2. r \in Result /\ r.facts = mem[w].facts \cup {"source"} /\ r.charge = mem[w].charge
            BY <1>s, <2>1, <3>1, WithFacts
      <3>3. Copy(r) /\ Copy(r)'
        <4>1. Copy(r)
              BY <2>1, <3>2 DEF Copy
        <4> QED BY <2>2, <4>1, CopyKept
      <3>4. PICK next : next = ToRuntime(r)
            OBVIOUS
      <3>5. next \in Step /\ Ready(next, r)'
            BY <2>1, <2>2, <3>2, <3>3, <3>4, ToRuntimeReady, CopyKept
      <3>6. Report(w, r, "running", next)
            BY <2>6, <3>1, <3>4
      <3> QED BY <1>s, <2>1, <2>2, <2>4, <3>2, <3>3, <3>5, <3>6, ReportStep
    <2> QED BY <1>1, <2>5, <2>6 DEF ResolveSource
  <1>2. CASE ReserveRuntime(w, heard)
    <2>1. /\ at[w].step \in Step /\ at[w].phase = "call" /\ mem[w] \in Result /\ Copy(mem[w])
          /\ "receipt" \in mem[w].facts /\ "funding" \in receipts
          BY <1>s, <1>2, CallFacts DEF ReserveRuntime, Ready, AfterReceipt, Copy
    <2>2. /\ Ask(Reserve, heard)
          /\ LET r == With(mem[w], "reservation")
             IN IF heard = "ok" THEN Report(w, r, "running", ToRuntime(r)) ELSE Await(w)
          BY <1>2 DEF ReserveRuntime
    <2>3. /\ OwnersKeep /\ OwnersAgree' /\ UNCHANGED <<charge, set>>
          /\ runtime' \in Started => runtime \in Started
          BY <2>1, <2>2, AskReserve
    <2>4. result' = result
          BY <2>2 DEF Await, Report, row
    <2>5. Recorded'
          BY <2>3, <2>4, RecordedKept DEF OwnersKeep
    <2>6. CASE heard = "ok"
      <3>1. PICK r : r = With(mem[w], "reservation")
            OBVIOUS
      <3>2. r \in Result /\ r.facts = mem[w].facts \cup {"reservation"} /\ r.charge = mem[w].charge
            BY <1>s, <2>1, <3>1, WithFacts
      <3>3. Copy(r) /\ Copy(r)'
        <4>1. Copy(r)
              BY <2>1, <3>2 DEF Copy
        <4> QED BY <2>3, <4>1, CopyKept
      <3>4. PICK next : next = ToRuntime(r)
            OBVIOUS
      <3>5. next \in Step /\ Ready(next, r)'
            BY <2>1, <2>3, <3>2, <3>3, <3>4, ToRuntimeReady, CopyKept
      <3>6. Report(w, r, "running", next)
            BY <2>2, <2>6, <3>1, <3>4
      <3> QED BY <1>s, <2>1, <2>3, <2>5, <3>2, <3>3, <3>5, <3>6, ReportStep
    <2>7. CASE heard # "ok"
          BY <2>1, <2>2, <2>3, <2>5, <2>7, AwaitStep
    <2> QED BY <2>6, <2>7
  <1>3. CASE BindManagedKey(w, heard)
    <2>1. /\ at[w].step = "create_managed_key" /\ at[w].phase = "call" /\ mem[w] \in Result
          /\ Copy(mem[w]) /\ {"receipt", "source", "reservation"} \subseteq mem[w].facts
          /\ order.keyed /\ "key" \notin mem[w].facts
          BY <1>s, <1>3, CallFacts DEF BindManagedKey, Ready, AfterReceipt
    <2>2. /\ Ask(CreateManagedKey, heard)
          /\ LET r == With(mem[w], "key")
             IN IF heard = "ok" THEN Proceed(w, r, Start(ToRuntime(r))) ELSE Await(w)
          BY <1>3 DEF BindManagedKey
    <2>3. OwnersKeep /\ OwnersAgree' /\ UNCHANGED <<charge, set, runtime>>
          BY <2>2, AskCreateManagedKey
    <2>4. result' = result
          BY <2>2 DEF Await, Report, Proceed, row
    <2>5. Recorded'
          BY <2>3, <2>4, RecordedKept DEF OwnersKeep
    <2>6. CASE heard = "ok"
      <3>1. PICK r : r = With(mem[w], "key")
            OBVIOUS
      <3>2. r \in Result /\ r.facts = mem[w].facts \cup {"key"} /\ r.charge = mem[w].charge
            BY <1>s, <2>1, <3>1, WithFacts
      <3>3. Copy(r) /\ "command" \notin r.facts
            BY <2>1, <3>2 DEF Copy
      <3>4. ToRuntime(r) = "freeze_command"
            BY <2>1, <3>2, <3>3 DEF ToRuntime
      <3>5. PICK place : place = Start("freeze_command")
            OBVIOUS
      <3>6. /\ place \in Place /\ place.step = "freeze_command" /\ place.phase # "save"
            /\ Proceed(w, r, place)
            BY <1>s, <2>2, <2>6, <3>1, <3>4, <3>5, StartFacts
      <3>7. Copy(r)' /\ Ready(place.step, r)'
        <4>1. Ready(place.step, r)
              BY <2>1, <3>2, <3>6 DEF Ready, Charging, Receipting
        <4> QED BY <2>3, <3>3, <4>1, CopyKept
      <3>8. r.facts \ Unstored(place.step) \subseteq mem[w].facts
            BY <3>2, <3>6 DEF Unstored
      <3> QED BY <1>s, <2>1, <2>3, <2>5, <3>2, <3>6, <3>7, <3>8, ProceedStep
    <2>7. CASE heard # "ok"
          BY <1>s, <2>1, <2>2, <2>3, <2>5, <2>7, AwaitStep
    <2> QED BY <2>6, <2>7
  <1>4. CASE FreezeCommand(w)
    <2>1. /\ at[w].step \in Step /\ at[w].phase = "call" /\ mem[w] \in Result /\ Copy(mem[w])
          /\ {"receipt", "source", "reservation"} \subseteq mem[w].facts
          /\ order.keyed => "key" \in mem[w].facts
          BY <1>s, <1>4, CallFacts DEF FreezeCommand, Ready, AfterReceipt
    <2>2. UNCHANGED owners /\ OwnersKeep /\ OwnersAgree'
          BY <1>4, OwnersStutter DEF FreezeCommand
    <2>3. result' = result
          BY <1>4 DEF FreezeCommand, Report, row
    <2>4. Recorded'
          BY <2>2, <2>3, RecordedKept DEF owners, gateway, fabric, serve
    <2>5. PICK r : r = With(mem[w], "command")
          OBVIOUS
    <2>6. r \in Result /\ r.facts = mem[w].facts \cup {"command"} /\ r.charge = mem[w].charge
          BY <1>s, <2>1, <2>5, WithFacts
    <2>7. Copy(r)' /\ Ready("deploy_runtime", r)'
      <3>1. Copy(r) /\ Ready("deploy_runtime", r)
            BY <2>1, <2>6 DEF Copy, Ready, Charging, Receipting
      <3> QED BY <2>2, <3>1, CopyKept
    <2>8. Report(w, r, "running", "deploy_runtime")
          BY <1>4, <2>5 DEF FreezeCommand
    <2> QED BY <1>s, <2>1, <2>2, <2>4, <2>6, <2>7, <2>8, ReportStep
  <1>5. CASE DeployRuntime(w, heard)
    <2>1. /\ at[w].step \in Step /\ at[w].phase = "call" /\ mem[w] \in Result /\ Copy(mem[w])
          /\ {"receipt", "command"} \subseteq mem[w].facts /\ "funding" \in receipts
          /\ {"receipt", "reservation", "command"} \subseteq result.facts
          /\ order.keyed => "key" \in result.facts
          BY <1>s, <1>5, CallFacts DEF DeployRuntime, Ready, AfterReceipt, Copy
    <2>2. /\ Ask(Deploy, heard)
          /\ IF heard = "ok"
             THEN Report(w, With(mem[w], "deployed"), "awaiting_confirmation", "read_runtime")
             ELSE Await(w)
          BY <1>5 DEF DeployRuntime
    <2>3. OwnersKeep /\ OwnersAgree' /\ UNCHANGED <<charge, set>>
          BY <2>1, <2>2, AskDeploy
    <2>4. result' = result
          BY <2>2 DEF Await, Report, row
    <2>5. Recorded'
          BY <2>1, <2>3, <2>4, RecordedKept DEF OwnersKeep
    <2>6. CASE heard = "ok"
      <3>1. PICK r : r = With(mem[w], "deployed")
            OBVIOUS
      <3>2. r \in Result /\ r.facts = mem[w].facts \cup {"deployed"} /\ r.charge = mem[w].charge
            BY <1>s, <2>1, <3>1, WithFacts
      <3>3. Copy(r)' /\ Ready("read_runtime", r)'
        <4>1. Copy(r) /\ Ready("read_runtime", r)
              BY <2>1, <3>2 DEF Copy, Ready, Charging, Receipting
        <4> QED BY <2>3, <4>1, CopyKept
      <3>4. Report(w, r, "awaiting_confirmation", "read_runtime")
            BY <2>2, <2>6, <3>1
      <3> QED BY <1>s, <2>1, <2>3, <2>5, <3>2, <3>3, <3>4, ReportStep
    <2>7. CASE heard # "ok"
          BY <2>1, <2>2, <2>3, <2>5, <2>7, AwaitStep
    <2> QED BY <2>6, <2>7
  <1>6. CASE ReadRuntimeStep(w, heard)
    <2>1. /\ at[w].step \in Step /\ at[w].phase = "call"
          /\ {"receipt", "command"} \subseteq mem[w].facts
          BY <1>s, <1>6, CallFacts DEF ReadRuntimeStep, Ready, AfterReceipt
    <2>2. /\ Ask(ReadRuntime, heard)
          /\ LET again == "deployed" \notin mem[w].facts /\ heard \in {"unstarted", "lost"}
                 next == CASE again -> "deploy_runtime"
                           [] ~again /\ heard = "ready" /\ order.paid -> "activate"
                           [] OTHER -> "end"
             IN Report(w, mem[w], IF heard = "failed" THEN "needs_attention"
                                  ELSE "awaiting_confirmation", next)
          BY <1>6 DEF ReadRuntimeStep
    <2>3. /\ OwnersKeep /\ OwnersAgree' /\ UNCHANGED <<charge, set>>
          /\ heard = "ready" => fulfilled'
          /\ runtime' \in Started => runtime \in Started
          BY <2>2, AskReadRuntime
    <2>4. result' = result
          BY <2>2 DEF Report, row
    <2>5. Recorded'
          BY <2>3, <2>4, RecordedKept DEF OwnersKeep
    <2>6. PICK s \in {"needs_attention", "awaiting_confirmation"},
               next \in {"deploy_runtime", "activate", "end"} :
             /\ Report(w, mem[w], s, next)
             /\ next = "activate" => heard = "ready" /\ order.paid
          BY <2>2
    <2>7. Ready("deploy_runtime", mem[w])
          BY <2>1 DEF Ready, Charging, Receipting
    <2> QED BY <1>s, <2>1, <2>3, <2>5, <2>6, <2>7, KeepStep
  <1> QED BY <1>1, <1>2, <1>3, <1>4, <1>5, <1>6

-----------------------------------------------------------------------------
(* The operation, its lease and its passes.                                 *)

\* The other passes stand as they did when a pass moves, a lease ends or
\* passes to it, or its holder writes what it knows.
LEMMA OthersStand ==
    ASSUME LaunchInv, OwnersKeep, NEW w \in Worker, holder' \in {holder, None, w},
           \/ result' = result
           \/ holder' = w /\ result.facts \ {"resources"} \subseteq result'.facts,
           NEW v \in Worker, v # w,
           at'[v] = at[v], mem'[v] = mem[v], outcome'[v] = outcome[v]
    PROVE  Copy(mem[v])' /\ Stands(v)'
  <1>1. Copy(mem[v]) /\ Stands(v)
        BY DEF LaunchInv
  <1>2. Copy(mem[v])'
        BY <1>1 DEF Copy, OwnersKeep
  <1>3. /\ Ready(at[v].step, mem[v]) => Ready(at[v].step, mem[v])'
        /\ Ready(outcome[v].next, mem[v]) => Ready(outcome[v].next, mem[v])'
        BY DEF Ready, OwnersKeep
  <1>4. holder' = v => holder = v /\ result' = result
        BY NoneAssumption
  <1>5. mem[v].facts \ Unstored(at[v].step) \subseteq result.facts
        => mem[v].facts \ Unstored(at[v].step) \subseteq result'.facts
        BY DEF Unstored
  <1>6. Stands(v)'
        BY <1>1, <1>3, <1>4, <1>5 DEF Stands, OwnersKeep
  <1> QED BY <1>2, <1>6

\* A pass that ends, or whose process dies, relies on nothing any more.
LEMMA LeavesStand ==
    ASSUME LaunchInv, NEW w \in Worker, NEW s \in {"idle", "end"},
           Goto(w, Start(s)), mem' = [mem EXCEPT ![w] = NoResult],
           outcome' = [outcome EXCEPT ![w] = NoOutcome]
    PROVE  /\ at' \in [Worker -> Place] /\ mem' \in [Worker -> Result]
           /\ outcome' \in [Worker -> Outcome]
           /\ Copy(mem[w])' /\ Stands(w)'
           /\ \A v \in Worker : v # w => at'[v] = at[v] /\ mem'[v] = mem[v] /\ outcome'[v] = outcome[v]
  <1>t. LaunchTypeOK
        BY DEF LaunchInv
  <1>1. Start(s) \in Place /\ Start(s).step = s /\ Start(s).phase = "begin" /\ s \notin Step
        BY Labels, StartFacts
  <1>2. NoResult \in Result /\ NoOutcome \in Outcome /\ NoOutcome.status = "none"
        BY DEF NoResult, Result, NoOutcome, Outcome, Status, Money
  <1>3. /\ at' \in [Worker -> Place] /\ at'[w] = Start(s)
        /\ mem' \in [Worker -> Result] /\ mem'[w] = NoResult
        /\ outcome' \in [Worker -> Outcome] /\ outcome'[w] = NoOutcome
        /\ \A v \in Worker : v # w => at'[v] = at[v] /\ mem'[v] = mem[v] /\ outcome'[v] = outcome[v]
        BY <1>t, <1>1, <1>2 DEF LaunchTypeOK, Goto
  <1>4. Copy(mem[w])'
        BY <1>3 DEF Copy, NoResult, Settled
  <1>5. Stands(w)'
        BY <1>1, <1>2, <1>3 DEF Stands
  <1> QED BY <1>3, <1>4, <1>5

\* A pass that ends without a row written.
LEMMA LeaveSteps ==
    ASSUME LaunchInv, NEW w \in Worker, NEW s \in {"idle", "end"},
           Goto(w, Start(s)), mem' = [mem EXCEPT ![w] = NoResult],
           outcome' = [outcome EXCEPT ![w] = NoOutcome], UNCHANGED <<owners, row, holder>>
    PROVE  LaunchInv'
  <1>1. /\ at' \in [Worker -> Place] /\ mem' \in [Worker -> Result]
        /\ outcome' \in [Worker -> Outcome]
        /\ Copy(mem[w])' /\ Stands(w)'
        /\ \A v \in Worker : v # w => at'[v] = at[v] /\ mem'[v] = mem[v] /\ outcome'[v] = outcome[v]
        BY LeavesStand
  <1>2. OwnersKeep /\ OwnersAgree'
        BY OwnersStutter
  <1>3. result' = result /\ holder' = holder /\ UNCHANGED row
        BY DEF row
  <1>4. Recorded'
        BY <1>2, <1>3, RecordedKept DEF owners, gateway, fabric, serve
  <1>5. LaunchTypeOK'
        BY <1>1, <1>2, <1>3 DEF LaunchInv, LaunchTypeOK, OwnersKeep, row
  <1>6. RowAgrees'
        BY <1>3 DEF LaunchInv, RowAgrees, owners, gateway, serve, row
  <1>7. Copy(result)'
        BY <1>2, <1>3 DEF LaunchInv, Copy, OwnersKeep
  <1>8. \A v \in Worker : Copy(mem[v])' /\ Stands(v)'
        BY <1>1, <1>2, <1>3, OthersStand
  <1> QED BY <1>2, <1>4, <1>5, <1>6, <1>7, <1>8 DEF LaunchInv

\* A step that moves no pass and keeps the result: a row may change, and a
\* lease may end.
LEMMA RowStep ==
    ASSUME LaunchInv, OwnersKeep, OwnersAgree', Recorded', UNCHANGED <<pass, result, subscribed>>,
           holder' \in {holder, None},
           workspace' \in {"none", "provisioning", "active", "failed", "deleting", "deleted"},
           status' \in Status,
           workspace' = "active" => workspace = "active",
           status' \in {"failed", "succeeded"} => status' = status,
           subscribed => status' = status
    PROVE  LaunchInv'
  <1>t. LaunchTypeOK /\ OwnersTypeOK /\ RowAgrees
        BY DEF LaunchInv, LaunchTypeOK
  <1>1. LaunchTypeOK'
        BY <1>t DEF LaunchTypeOK, OwnersKeep, pass
  <1>2. RowAgrees'
        BY <1>t DEF RowAgrees, OwnersKeep, OwnersTypeOK
  <1>3. Copy(result)'
        BY DEF LaunchInv, Copy, OwnersKeep
  <1>4. ASSUME NEW v \in Worker PROVE Copy(mem[v])' /\ Stands(v)'
    <2>1. Copy(mem[v]) /\ Stands(v) /\ at' = at /\ mem' = mem /\ outcome' = outcome
          BY DEF LaunchInv, pass
    <2>2. Copy(mem[v])'
          BY <2>1 DEF Copy, OwnersKeep
    <2>3. /\ Ready(at[v].step, mem[v]) => Ready(at[v].step, mem[v])'
          /\ Ready(outcome[v].next, mem[v]) => Ready(outcome[v].next, mem[v])'
          BY <2>1 DEF Ready, OwnersKeep
    <2>4. holder' = v => holder = v
          BY NoneAssumption
    <2>5. Stands(v)'
          BY <2>1, <2>3, <2>4 DEF Stands, OwnersKeep
    <2> QED BY <2>2, <2>5
  <1> QED BY <1>1, <1>2, <1>3, <1>4 DEF LaunchInv

\* A step that moves no pass.
LEMMA StillSteps ==
    ASSUME LaunchInv,
           \/ CreateWorkspace \/ LeaseExpires
           \/ WalletDecides /\ UNCHANGED launch
           \/ UNCHANGED vars
    PROVE  LaunchInv'
  <1>t. LaunchTypeOK /\ OwnersTypeOK /\ OwnersAgree /\ RowAgrees
        BY DEF LaunchInv, LaunchTypeOK
  <1>1. UNCHANGED <<pass, result, subscribed>> /\ holder' \in {holder, None}
        BY DEF CreateWorkspace, LeaseExpires, vars, launch, row
  <1>2. OwnersKeep /\ OwnersAgree' /\ UNCHANGED <<set, runtime>> /\ (charge' # "none" => charge # "none")
    <2>1. CASE UNCHANGED owners
          BY <2>1, OwnersStutter DEF owners, gateway, fabric, serve
    <2>2. CASE WalletDecides
      <3>1. /\ charge' \in Money /\ refund' \in Money
            /\ charge # "open" => charge' = charge
            /\ charge' # "none" <=> charge # "none"
            /\ UNCHANGED <<order, quote, key, closing, receipts, fabric, serve>>
            BY <1>t, <2>2 DEF WalletDecides, OwnersTypeOK, Money, Settled
      <3>2. OwnersKeep
            BY <1>t, <3>1 DEF OwnersKeep, OwnersTypeOK, Settled, fabric, serve
      <3>3. OwnersAgree'
            BY <1>t, <3>1 DEF OwnersAgree, fabric, serve
      <3> QED BY <3>1, <3>2, <3>3 DEF fabric, serve
    <2> QED BY <2>1, <2>2 DEF CreateWorkspace, LeaseExpires, vars
  <1>3. Recorded'
        BY <1>1, <1>2, RecordedKept DEF OwnersKeep
  <1>4. /\ workspace' \in {"none", "provisioning", "active", "failed", "deleting", "deleted"}
        /\ status' \in Status
        /\ workspace' = "active" => workspace = "active"
        /\ status' \in {"failed", "succeeded"} => status' = status
        /\ subscribed => status' = status
        BY <1>t DEF CreateWorkspace, LeaseExpires, vars, launch, row, LaunchTypeOK, RowAgrees, Status
  <1> QED BY <1>1, <1>2, <1>3, <1>4, RowStep

\* A pass begins, ends or is interrupted.
LEMMA PassEnds ==
    ASSUME LaunchInv, NEW w \in Worker,
           Lease(w) \/ Load(w) \/ Release(w) \/ TimeOut(w) \/ Crash(w)
    PROVE  LaunchInv'
  <1>t. LaunchTypeOK /\ RowAgrees /\ Copy(result) /\ Copy(mem[w]) /\ Stands(w)
        BY DEF LaunchInv
  <1>1. CASE TimeOut(w)
        BY <1>1, LeaveSteps DEF TimeOut, Leave
  <1>2. CASE Crash(w)
        BY <1>2, LeaveSteps DEF Crash
  <1>3. CASE Lease(w) \/ Release(w)
    <2>1. PICK s \in {"load", "idle"} : Goto(w, Start(s))
          BY <1>3 DEF Lease, Release
    <2>2. UNCHANGED <<owners, row, mem, outcome>> /\ holder' \in {holder, None, w}
          BY <1>3 DEF Lease, Release
    <2>3. Start(s) \in Place /\ Start(s).step = s /\ Start(s).phase = "begin" /\ s \notin Step
          BY Labels, StartFacts
    <2>4. /\ at' \in [Worker -> Place] /\ at'[w] = Start(s)
          /\ \A v \in Worker : v # w => at'[v] = at[v]
          BY <1>t, <2>1, <2>3 DEF Goto, LaunchTypeOK
    <2>5. OwnersKeep /\ OwnersAgree'
          BY <2>2, OwnersStutter
    <2>6. result' = result /\ Recorded'
      <3>1. result' = result
            BY <2>2 DEF row
      <3> QED BY <2>2, <2>5, <3>1, RecordedKept DEF owners, gateway, fabric, serve
    <2>7. LaunchTypeOK'
          BY <1>t, <2>2, <2>4, <2>5 DEF LaunchTypeOK, OwnersKeep, row
    <2>8. RowAgrees' /\ Copy(result)'
          BY <1>t, <2>2 DEF RowAgrees, Copy, owners, gateway, serve, row
    <2>9. Copy(mem[w])' /\ Stands(w)'
      <3>1. Copy(mem[w])'
            BY <1>t, <2>2 DEF Copy, owners, gateway
      <3>2. Stands(w)'
            BY <1>t, <2>2, <2>3, <2>4 DEF Stands, owners
      <3> QED BY <3>1, <3>2
    <2>10. \A v \in Worker : Copy(mem[v])' /\ Stands(v)'
          BY <2>2, <2>4, <2>5, <2>6, <2>9, OthersStand
    <2> QED BY <2>5, <2>6, <2>7, <2>8, <2>10 DEF LaunchInv
  <1>4. CASE Load(w)
    <2>1. PICK s : s = ToFirst(result)
          OBVIOUS
    <2>2. s \in Step /\ Ready(s, result)
          BY <1>t, <2>1, ToFirstReady DEF LaunchTypeOK
    <2>3. PICK place : place = Start(s)
          OBVIOUS
    <2>4. place \in Place /\ place.step = s /\ place.phase # "save"
          BY <2>2, <2>3, StartFacts
    <2>5. OwnersKeep /\ OwnersAgree' /\ UNCHANGED owners
          BY <1>4, OwnersStutter DEF Load
    <2>6. /\ at' = [at EXCEPT ![w] = place] /\ mem' = [mem EXCEPT ![w] = result]
          /\ outcome' = [outcome EXCEPT ![w] = outcome[w]] /\ UNCHANGED <<row, holder>>
          BY <1>4, <1>t, <2>1, <2>3 DEF Load, Proceed, Goto, LaunchTypeOK
    <2>7. at'[w] = place /\ mem'[w] = result /\ outcome'[w] = outcome[w] /\ result' = result
          BY <1>t, <2>6 DEF LaunchTypeOK, row
    <2>8. Recorded'
          BY <2>5, <2>7, RecordedKept DEF owners, gateway, fabric, serve
    <2>9. Ready(at[w].step, mem[w])'
          BY <2>2, <2>4, <2>5, <2>7 DEF Ready, owners, serve
    <2>10. Stands(w)'
          BY <1>t, <2>2, <2>4, <2>5, <2>7, <2>9 DEF Stands, owners
    <2>11. PICK r : r = result
          OBVIOUS
    <2>12. r \in Result /\ Copy(r)' /\ outcome[w] \in Outcome /\ mem' = [mem EXCEPT ![w] = r]
          BY <1>t, <2>5, <2>6, <2>11 DEF LaunchTypeOK, Copy, OwnersKeep
    <2> QED BY <2>4, <2>5, <2>6, <2>8, <2>10, <2>12, PassStep
  <1> QED BY <1>1, <1>2, <1>3, <1>4

\* A step is begun in a transaction that the lease fences.
LEMMA BeginSteps ==
    ASSUME LaunchInv, NEW w \in Worker, BeginStep(w)
    PROVE  LaunchInv'
  <1>t. LaunchTypeOK /\ RowAgrees /\ Copy(result) /\ Copy(mem[w]) /\ Stands(w) /\ at[w] \in Place
        BY DEF LaunchInv, LaunchTypeOK
  <1>1. CASE Holds(w)
    <2>1. /\ status' = "running" /\ at' = [at EXCEPT ![w].phase = "call"]
          /\ UNCHANGED <<owners, mem, outcome, workspace, subscribed, result, holder>>
          BY <1>1 DEF BeginStep
    <2>2. /\ at' \in [Worker -> Place]
          /\ at'[w].step = at[w].step /\ at'[w].phase = "call"
          /\ \A v \in Worker : v # w => at'[v] = at[v]
          BY <1>t, <2>1 DEF LaunchTypeOK, Place
    <2>3. OwnersKeep /\ OwnersAgree'
          BY <2>1, OwnersStutter
    <2>4. Recorded'
          BY <2>1, <2>3, RecordedKept DEF owners, gateway, fabric, serve
    <2>5. LaunchTypeOK'
          BY <1>t, <2>1, <2>2, <2>3 DEF LaunchTypeOK, OwnersKeep, Status
    <2>6. RowAgrees' /\ Copy(result)'
          BY <1>1, <1>t, <2>1 DEF RowAgrees, Copy, Holds, Terminal, owners, gateway, serve
    <2>7. Copy(mem[w])' /\ Stands(w)'
      <3>1. Copy(mem[w])'
            BY <1>t, <2>1 DEF Copy, owners, gateway
      <3>2. Ready(at[w].step, mem[w]) => Ready(at[w].step, mem[w])'
            BY <2>1, <2>2 DEF Ready, owners, serve
      <3>3. at[w].step \in Step /\ at[w].phase = "begin"
            BY DEF BeginStep
      <3>4. Stands(w)'
            BY <1>t, <2>1, <2>2, <3>2, <3>3 DEF Stands, owners
      <3> QED BY <3>1, <3>4
    <2>8. \A v \in Worker : Copy(mem[v])' /\ Stands(v)'
          BY <2>1, <2>2, <2>3, <2>7, OthersStand
    <2> QED BY <2>3, <2>4, <2>5, <2>6, <2>8 DEF LaunchInv
  <1>2. CASE ~Holds(w)
        BY <1>2, LeaveSteps DEF BeginStep, Leave, row
  <1> QED BY <1>1, <1>2

\* What a pass that holds the lease writes keeps everything that is stored.
LEMMA HolderKnows ==
    ASSUME LaunchInv, NEW w \in Worker, at[w].phase = "save", Holds(w)
    PROVE  /\ at[w].step \in Step
           /\ result.facts \ {"resources"} \subseteq mem[w].facts
           /\ result.charge \in Settled => mem[w].charge = result.charge
  BY DEF LaunchInv, Stands, Holds

\* The fenced write of what the owner answered.
LEMMA CheckpointSteps ==
    ASSUME LaunchInv, NEW w \in Worker, Checkpoint(w)
    PROVE  LaunchInv'
  <1>t. /\ LaunchTypeOK /\ RowAgrees /\ Copy(mem[w]) /\ Stands(w)
        /\ mem[w] \in Result /\ outcome[w] \in Outcome /\ at[w].phase = "save"
        BY DEF LaunchInv, LaunchTypeOK, Checkpoint
  <1>1. CASE Holds(w)
    <2>1. /\ result' = mem[w] /\ status' = outcome[w].status
          /\ workspace' = IF status' = "failed" THEN "failed" ELSE workspace
          /\ GoOn(w, outcome[w].next)
          /\ UNCHANGED <<owners, subscribed, holder>> /\ holder = w
          BY <1>1 DEF Checkpoint, Holds
    <2>2. /\ at[w].step \in Step
          /\ result.facts \ {"resources"} \subseteq mem[w].facts
          /\ result.charge \in Settled => mem[w].charge = result.charge
          BY <1>1, <1>t, HolderKnows
    <2>3. OwnersKeep /\ OwnersAgree'
          BY <2>1, OwnersStutter
    <2>4. Recorded'
          BY <2>1, <2>2 DEF LaunchInv, Recorded, owners, gateway, fabric, serve
    <2>5. RowAgrees'
      <3>1. outcome[w].status # "succeeded" /\ (outcome[w].status = "failed" => quote = "expired")
            BY <1>t DEF Stands
      <3>2. ~subscribed
            BY <1>1, <1>t DEF RowAgrees, Holds, Terminal
      <3> QED BY <1>t, <2>1, <3>1, <3>2 DEF RowAgrees, owners
    <2>6. Copy(result)'
          BY <1>t, <2>1 DEF Copy, owners, gateway
    <2>7. /\ at' \in [Worker -> Place] /\ mem' \in [Worker -> Result]
          /\ outcome' \in [Worker -> Outcome]
          /\ Copy(mem[w])' /\ Stands(w)'
          /\ \A v \in Worker : v # w => at'[v] = at[v] /\ mem'[v] = mem[v] /\ outcome'[v] = outcome[v]
      <3>1. CASE outcome[w].next = "end"
        <4>1. Goto(w, Start("end")) /\ mem' = [mem EXCEPT ![w] = NoResult]
              /\ outcome' = [outcome EXCEPT ![w] = NoOutcome]
              BY <2>1, <3>1 DEF GoOn, Leave
        <4> QED BY <4>1, LeavesStand
      <3>2. CASE outcome[w].next # "end"
        <4>1. PICK s : s = outcome[w].next
              OBVIOUS
        <4>2. s \in Step /\ Ready(s, mem[w])
              BY <1>t, <3>2, <4>1 DEF Outcome, Stands
        <4>3. Start(s) \in Place /\ Start(s).step = s /\ Start(s).phase # "save"
              BY <4>2, StartFacts
        <4>4. /\ at' = [at EXCEPT ![w] = Start(s)] /\ mem' = mem
              /\ outcome' = [outcome EXCEPT ![w] = NoOutcome]
              BY <2>1, <3>2, <4>1 DEF GoOn, Goto
        <4>5. NoOutcome \in Outcome /\ NoOutcome.status = "none"
              BY DEF NoOutcome, Outcome, Status
        <4>6. /\ at' \in [Worker -> Place] /\ at'[w] = Start(s)
              /\ outcome' \in [Worker -> Outcome] /\ outcome'[w] = NoOutcome
              /\ \A v \in Worker : v # w => at'[v] = at[v] /\ outcome'[v] = outcome[v]
              BY <1>t, <4>3, <4>4, <4>5 DEF LaunchTypeOK
        <4>7. Copy(mem[w])'
              BY <1>t, <2>1, <4>4 DEF Copy, owners, gateway
        <4>8. Ready(at[w].step, mem[w])'
              BY <2>1, <4>2, <4>3, <4>4, <4>6 DEF Ready, owners, serve
        <4>9. Stands(w)'
              BY <2>1, <4>2, <4>3, <4>4, <4>5, <4>6, <4>8 DEF Stands
        <4> QED BY <1>t, <4>4, <4>6, <4>7, <4>9 DEF LaunchTypeOK
      <3> QED BY <3>1, <3>2
    <2>8. LaunchTypeOK'
          BY <1>t, <2>1, <2>3, <2>7 DEF LaunchTypeOK, OwnersKeep, Outcome
    <2>9. \A v \in Worker : Copy(mem[v])' /\ Stands(v)'
          BY <2>1, <2>2, <2>3, <2>7, OthersStand
    <2> QED BY <2>3, <2>4, <2>5, <2>6, <2>8, <2>9 DEF LaunchInv
  <1>2. CASE ~Holds(w)
        BY <1>2, LeaveSteps DEF Checkpoint, Leave, row
  <1> QED BY <1>1, <1>2

\* The transaction that activates: a pass that holds the lease and saw the
\* workload ready, for an order whose receipt is stored.
LEMMA ActivateSteps ==
    ASSUME LaunchInv, NEW w \in Worker, Activate(w)
    PROVE  LaunchInv'
  <1>t. LaunchTypeOK /\ RowAgrees /\ Copy(result)
        BY DEF LaunchInv
  <1>1. /\ at[w].step \in Step /\ at[w].phase = "call" /\ order.paid /\ fulfilled
        /\ {"receipt", "command"} \subseteq result.facts
    <2>1. "activate" \in Step
          BY DEF Step
    <2> QED BY <2>1, CallFacts DEF Activate, Ready, AfterReceipt
  <1>2. OwnersKeep /\ OwnersAgree' /\ UNCHANGED owners /\ result' = result
    <2>1. UNCHANGED owners /\ result' = result
          BY DEF Activate, Await, Report, row
    <2> QED BY <2>1, OwnersStutter
  <1>3. Recorded'
        BY <1>2, RecordedKept DEF owners, gateway, fabric, serve
  <1>4. CASE Holds(w) /\ workspace = "provisioning"
    <2>1. /\ subscribed' = TRUE /\ workspace' = "active" /\ status' = "succeeded"
          /\ Leave(w) /\ holder' = holder
          BY <1>4 DEF Activate
    <2>2. /\ at' \in [Worker -> Place] /\ mem' \in [Worker -> Result]
          /\ outcome' \in [Worker -> Outcome]
          /\ Copy(mem[w])' /\ Stands(w)'
          /\ \A v \in Worker : v # w => at'[v] = at[v] /\ mem'[v] = mem[v] /\ outcome'[v] = outcome[v]
          BY <2>1, LeavesStand DEF Leave
    <2>3. LaunchTypeOK'
          BY <1>t, <1>2, <2>1, <2>2 DEF LaunchTypeOK, OwnersKeep, Status, Terminal
    <2>4. RowAgrees' /\ Copy(result)'
          BY <1>1, <1>2, <1>t, <2>1 DEF RowAgrees, Copy, owners, gateway, serve
    <2>5. \A v \in Worker : Copy(mem[v])' /\ Stands(v)'
          BY <1>2, <2>1, <2>2, OthersStand
    <2> QED BY <1>2, <1>3, <2>3, <2>4, <2>5 DEF LaunchInv
  <1>5. CASE ~(Holds(w) /\ workspace = "provisioning")
        BY <1>1, <1>2, <1>3, <1>5, AwaitStep DEF Activate
  <1> QED BY <1>4, <1>5

\* Every step of a pass keeps the invariant.
LEMMA PassSteps ==
    ASSUME LaunchInv, NEW w \in Worker, Lease(w) \/ Pass(w) \/ TimeOut(w) \/ Crash(w)
    PROVE  LaunchInv'
  <1>1. "ok" \in Answer
        BY DEF Answer
  <1>2. CASE Lease(w) \/ Walk(w) \/ TimeOut(w) \/ Crash(w)
        BY <1>1, <1>2, PassEnds, BeginSteps, CheckpointSteps, FundingSteps, RuntimeSteps, ActivateSteps
        DEF Walk
  <1>3. ASSUME NEW heard \in Answer, Called(w, heard)
        PROVE  LaunchInv'
        BY <1>3, IntentSteps, FundingSteps, ResourceSteps, RuntimeSteps DEF Called
  <1> QED BY <1>2, <1>3 DEF Pass

\* The invariant is inductive.
LEMMA NextLaunchInv == LaunchInv /\ [LaunchNext]_vars => LaunchInv'
  BY StillSteps, PassSteps DEF LaunchNext, Settles

\* Only the write of a pass that holds the lease touches the stored result.
LEMMA ResultStep ==
    ASSUME LaunchInv, [LaunchNext]_vars
    PROVE  \/ result' = result
           \/ \E w \in Worker : Checkpoint(w) /\ Holds(w) /\ result' = mem[w]
  <1>1. CASE CreateWorkspace \/ LeaseExpires \/ (WalletDecides /\ UNCHANGED launch) \/ UNCHANGED vars
        BY <1>1 DEF CreateWorkspace, LeaseExpires, vars, launch, row
  <1>2. ASSUME NEW w \in Worker, Lease(w) \/ TimeOut(w) \/ Crash(w) \/ Load(w) \/ BeginStep(w)
                                 \/ Release(w) \/ Activate(w)
        PROVE  result' = result
        BY <1>2 DEF Lease, TimeOut, Crash, Load, BeginStep, Release, Activate, Proceed, Await, Report,
                    row
  <1>3. ASSUME NEW w \in Worker, NEW heard \in Answer,
               IssueGrant(w, heard) \/ AcceptQuoteStep(w, heard) \/ IntendResources(w, heard)
                                 \/ FundingReceipt(w, heard) \/ ReuseCharge(w) \/ RefuseOrder(w)
        PROVE  result' = result
        BY <1>3 DEF IssueGrant, AcceptQuoteStep, IntendResources, FundingReceipt, ReuseCharge,
                    RefuseOrder, Await, Report, row
  <1>4. ASSUME NEW w \in Worker, NEW heard \in Answer,
               WalletCharge(w, heard) \/ ReadChargeStep(w, heard)
        PROVE  result' = result
        BY <1>4 DEF WalletCharge, ReadChargeStep, FinishCharge, Settled, Proceed, Await, Report, row
  <1>5. ASSUME NEW w \in Worker, NEW heard \in Answer,
               Provision(w, heard) \/ ReadResourcesStep(w, heard) \/ CloseoutRead(w, heard)
        PROVE  result' = result
        BY <1>5 DEF Provision, ReadResourcesStep, CloseoutRead, Await, Report, row
  <1>6. ASSUME NEW w \in Worker, NEW heard \in Answer,
               \/ ResolveSource(w, heard) \/ ReserveRuntime(w, heard) \/ BindManagedKey(w, heard)
               \/ FreezeCommand(w)
               \/ DeployRuntime(w, heard) \/ ReadRuntimeStep(w, heard)
        PROVE  result' = result
        BY <1>6 DEF ResolveSource, ReserveRuntime, BindManagedKey, FreezeCommand, DeployRuntime,
                    ReadRuntimeStep, Proceed, Await, Report, row
  <1>7. ASSUME NEW w \in Worker, Checkpoint(w)
        PROVE  result' = result \/ (Holds(w) /\ result' = mem[w])
        BY <1>7 DEF Checkpoint
  <1>8. "ok" \in Answer
        BY DEF Answer
  <1> QED BY <1>1, <1>2, <1>3, <1>4, <1>5, <1>6, <1>7, <1>8 DEF LaunchNext, Settles, Pass, Walk, Called

-----------------------------------------------------------------------------
(* The theorems.                                                            *)

\* The invariant holds in every reachable state.
LEMMA LaunchInvHolds == LaunchSpec => []LaunchInv
  BY InitLaunchInv, NextLaunchInv, PTL DEF LaunchSpec

\* The operation row, the Workspace row, the owners and the copies of all
\* passes stay in their types, for any number of passes.
THEOREM TypeCorrect == LaunchSpec => []LaunchTypeOK
  <1>1. LaunchInv => LaunchTypeOK
        BY DEF LaunchInv
  <1> QED BY <1>1, LaunchInvHolds, PTL

\* No effect comes before its record: whatever passes overlap, money moves
\* only for a stored acceptance and resource intent, and a workload starts
\* only for a stored receipt, reservation, command and key handover.
THEOREM EffectsAreRecorded == LaunchSpec => []RecordedBeforeEffect
  <1>1. LaunchInv => RecordedBeforeEffect
        BY DEF LaunchInv, Recorded, RecordedBeforeEffect
  <1> QED BY <1>1, LaunchInvHolds, PTL

\* A launch that ends as failed was refused its quote, so there is neither a
\* charge nor a resource set that nobody would look after.
THEOREM FailureOwesNothing == LaunchSpec => []FailedOwesNothing
  <1>1. LaunchInv => FailedOwesNothing
        BY DEF LaunchInv, RowAgrees, Recorded, Copy, FailedOwesNothing
  <1> QED BY <1>1, LaunchInvHolds, PTL

\* The entitlement and the success of the order are one, it was paid,
\* recorded and served, and a rejected charge buys nothing.
THEOREM EntitlementIsServed == LaunchSpec => []EntitledIsServed
  <1>1. LaunchInv => EntitledIsServed
    <2> SUFFICES ASSUME LaunchInv PROVE EntitledIsServed
        OBVIOUS
    <2>1. OwnersTypeOK /\ OwnersAgree /\ RowAgrees /\ Copy(result)
          BY DEF LaunchInv, LaunchTypeOK
    <2>2. charge = "rejected" => "funding" \notin receipts
          BY <2>1 DEF OwnersAgree
    <2> QED BY <2>1, <2>2 DEF EntitledIsServed, OwnersAgree, RowAgrees, Copy
  <1> QED BY <1>1, LaunchInvHolds, PTL

\* No pass, however late, takes back a fact another one stored, and a charge
\* stored as settled is never rewritten.
THEOREM ResultIsKept == LaunchSpec => FactsAreKept
  <1>1. LaunchInv /\ [LaunchNext]_vars
        => [/\ result.facts \ {"resources"} \subseteq result'.facts
            /\ result.charge \in Settled => result'.charge = result.charge]_vars
    <2> SUFFICES ASSUME LaunchInv, [LaunchNext]_vars
                 PROVE  /\ result.facts \ {"resources"} \subseteq result'.facts
                        /\ result.charge \in Settled => result'.charge = result.charge
        OBVIOUS
    <2>1. CASE result' = result
          BY <2>1
    <2>2. ASSUME NEW w \in Worker, Checkpoint(w), Holds(w), result' = mem[w]
          PROVE  /\ result.facts \ {"resources"} \subseteq result'.facts
                 /\ result.charge \in Settled => result'.charge = result.charge
          BY <2>2, HolderKnows DEF Checkpoint
    <2> QED BY <2>1, <2>2, ResultStep
  <1> QED BY <1>1, LaunchInvHolds, PTL DEF LaunchSpec, FactsAreKept

=============================================================================

------------------------- MODULE WorkspaceOrderProofs -------------------------
(***************************************************************************)
(* Proof that the launch and the deletion together implement WorkspaceOrder *)
(* for any number of passes of both: every step of theirs is a step of the  *)
(* contract, or one that its customer does not see. The invariant of the    *)
(* deletion gives what a call rests on; a small one is added here for when  *)
(* the order exists at all.                                                 *)
(***************************************************************************)
EXTENDS WorkspaceDeletionProofs

\* A step of the contract, or one that changes nothing in it.
Allowed == [Contract!Next]_(Contract!order)

\* A Workspace stands as soon as it was ordered. Nothing is released or
\* retired before the deletion was accepted, and no pass runs, or writes, for
\* an order that was not placed.
Placed ==
    /\ workspace = "none" <=> status = "none"
    /\ releasing \/ retiring => deletion # "none"
    /\ \A w \in Worker : /\ at[w].step # "idle" => status # "none"
                         /\ at[w].phase = "save" => outcome[w].status # "none"

OrderInv == DeletionInv /\ Placed

-----------------------------------------------------------------------------
(* What the customer sees of the owners.                                    *)

\* Each part of the order depends on its owner alone.
LEMMA SameParts ==
    /\ UNCHANGED fabric => Held' = Held
    /\ UNCHANGED <<runtime, retiring>> => Workload' = Workload
    /\ UNCHANGED receipts => Funded' = Funded /\ Attested' = Attested
    /\ UNCHANGED deletion => Closed' = Closed
  BY DEF fabric, Held, ResourcesAbsent, Workload, Funded, Attested, Closed

\* A step that touches no owner, nor the rows of the Workspace and its
\* deletion, is not seen.
LEMMA StillSeen ==
    ASSUME UNCHANGED owners, UNCHANGED <<workspace, deletion>>
    PROVE  Allowed /\ UNCHANGED <<releasing, retiring>>
  <1>1. /\ UNCHANGED <<order, quote, charge, refund, key, closing, receipts, set, releasing>>
        /\ UNCHANGED <<runtime, retiring, fulfilled>>
        BY DEF owners, gateway, fabric, serve
  <1>2. Held' = Held /\ Workload' = Workload /\ Funded' = Funded /\ Attested' = Attested
        /\ Closed' = Closed
        BY <1>1, SameParts DEF fabric
  <1> QED BY <1>1, <1>2 DEF Allowed, Contract!order

\* Resources are held once Fabric reached the provider, and until it proved
\* them absent.
LEMMA HeldIs ==
    ASSUME DeletionInv
    PROVE  /\ Held = "gone" <=> ResourcesAbsent
           /\ Held = "none" <=> ~ResourcesAbsent /\ set \in {"none", "intended"}
           /\ Held = "held" <=> ~ResourcesAbsent /\ set \notin {"none", "intended"}
           /\ ResourcesAbsent => releasing
  BY DEF DeletionInv, RefundIsDue, Held, ResourcesAbsent

\* A closed order has nothing to be settled.
LEMMA ClosedFacts ==
    ASSUME DeletionInv, Closed
    PROVE  /\ refund # "none" \/ NothingOwed
           /\ order.paid /\ charge = "confirmed" => Funded
           /\ order.paid /\ ~closing => charge # "none"
           /\ order.keyed /\ ~closing => key \notin {"none", "pending"}
  <1>1. /\ Evidence(closeout) /\ RefundIsDue /\ OwnersAgree
        /\ closeout.key \in {"confirmed", "not_applicable"}
        /\ closeout.refund \in {"confirmed", "not_applicable"}
        BY DEF DeletionInv, LaunchInv, DeletionAgrees, Closed
  <1>2. refund # "none" \/ NothingOwed
        BY <1>1 DEF Evidence, Settled
  <1>3. "spent" \in closeout.facts => Funded /\ (order.paid => charge = "confirmed")
        BY <1>1 DEF Evidence, OwnersAgree, Funded
  <1>4. refund # "none" => Funded /\ charge = "confirmed"
        BY <1>1 DEF RefundIsDue, Funded
  <1>5. order.keyed /\ ~closing => key \notin {"none", "pending"}
        BY <1>1 DEF Evidence, KeyNeverIssued
  <1> QED BY <1>2, <1>3, <1>4, <1>5 DEF NothingOwed, NeverCharged

-----------------------------------------------------------------------------
(* What the launch asks of the owners.                                      *)

\* The step leaves the rows of the Workspace and of the deletion alone.
SameRows == UNCHANGED <<workspace, deletion>>

\* Catalog accepts the quote of an order that was placed.
LEMMA SeenAcceptQuote ==
    ASSUME OrderInv, SameRows, NEW a, AcceptQuote(a), status # "none"
    PROVE  Allowed /\ UNCHANGED <<releasing, retiring>>
  <1>1. /\ UNCHANGED <<order, gateway, receipts, fabric, serve, workspace, deletion>>
        /\ workspace # "none"
        BY DEF AcceptQuote, SameRows, OrderInv, Placed
  <1>2. UNCHANGED <<charge, refund, key, fulfilled, Held, Workload, Funded, Attested, Closed>>
        BY <1>1, SameParts DEF gateway, serve
  <1>3. quote' = quote \/ (quote = "offered" /\ quote' \in {"accepted", "expired"})
        BY DEF AcceptQuote
  <1>4. CASE quote' = quote
        BY <1>1, <1>2, <1>4 DEF Allowed, Contract!order, fabric, serve
  <1>5. CASE quote = "offered" /\ quote' \in {"accepted", "expired"}
        BY <1>1, <1>2, <1>5 DEF Allowed, Contract!Next, Contract!Agree, fabric, serve
  <1> QED BY <1>3, <1>4, <1>5

\* Gateway charges an accepted order that is paid, and none that is closed.
LEMMA SeenDebit ==
    ASSUME OrderInv, SameRows, NEW a, Debit(a), order.paid, quote = "accepted"
    PROVE  Allowed /\ UNCHANGED <<releasing, retiring>>
  <1>1. UNCHANGED <<order, quote, refund, key, closing, receipts, fabric, serve, workspace, deletion>>
        BY DEF Debit, SameRows
  <1>2. UNCHANGED <<fulfilled, Held, Workload, Funded, Attested, Closed>>
        BY <1>1, SameParts DEF serve
  <1>3. charge' = charge \/ (~closing /\ charge = "none" /\ charge' \in {"open", "confirmed", "rejected"})
        BY DEF Debit, Money
  <1>4. CASE charge' = charge
        BY <1>1, <1>2, <1>4 DEF Allowed, Contract!order, fabric, serve
  <1>5. CASE ~closing /\ charge = "none" /\ charge' \in {"open", "confirmed", "rejected"}
    <2>1. ~Closed
          BY <1>5, ClosedFacts DEF OrderInv
    <2> QED BY <1>1, <1>2, <1>5, <2>1
            DEF Allowed, Contract!Next, Contract!Charge, Contract!Decided, fabric, serve
  <1> QED BY <1>3, <1>4, <1>5

\* Ledger records the funding of an accepted order, and of a paid one only
\* its charge.
LEMMA SeenAppendFunding ==
    ASSUME OrderInv, SameRows, NEW a, AppendFunding(a), quote = "accepted"
    PROVE  Allowed /\ UNCHANGED <<releasing, retiring>>
  <1>1. UNCHANGED <<order, quote, gateway, fabric, serve, workspace, deletion>>
        BY DEF AppendFunding, SameRows
  <1>2. UNCHANGED <<charge, refund, key, fulfilled, Held, Workload, Closed>>
        BY <1>1, SameParts DEF gateway, serve
  <1>3. \/ receipts' = receipts
        \/ (order.paid => charge = "confirmed") /\ receipts' = receipts \cup {"funding"}
        BY DEF AppendFunding
  <1>4. CASE receipts' = receipts
        BY <1>1, <1>2, <1>4, SameParts DEF Allowed, Contract!order, fabric, serve
  <1>5. CASE (order.paid => charge = "confirmed") /\ receipts' = receipts \cup {"funding"}
    <2>1. Funded' = TRUE /\ Attested' = Attested
          BY <1>5 DEF Funded, Attested
    <2>2. CASE Funded
          BY <1>1, <1>2, <2>1, <2>2 DEF Allowed, Contract!order, Funded, fabric, serve
    <2>3. CASE ~Funded
      <3>1. order.paid => charge = "confirmed" /\ ~Closed
            BY <1>5, <2>3, ClosedFacts DEF OrderInv
      <3> QED BY <1>1, <1>2, <2>1, <2>3, <3>1 DEF Allowed, Contract!Next, Contract!Fund, fabric, serve
    <2> QED BY <2>2, <2>3
  <1> QED BY <1>3, <1>4, <1>5

\* Fabric reaches the provider only for an order whose funding is on record.
LEMMA SeenEnsureResources ==
    ASSUME OrderInv, SameRows, NEW a, NEW receipt, EnsureResources(receipt, a)
    PROVE  Allowed /\ UNCHANGED <<releasing, retiring>>
  <1>1. UNCHANGED <<order, quote, gateway, receipts, releasing, serve, workspace, deletion>>
        BY DEF EnsureResources, SameRows
  <1>2. UNCHANGED <<charge, refund, key, fulfilled, Workload, Funded, Attested, Closed>>
        BY <1>1, SameParts DEF gateway, serve
  <1>3. \/ set' = set
        \/ ~releasing /\ set = "none" /\ set' = "intended"
        \/ /\ ~releasing /\ set \in {"intended", "partial"} /\ "funding" \in receipts
           /\ set' \in {"partial", "provisioned"}
        BY DEF EnsureResources, MayDispatch
  <1>4. CASE set' = set \/ (~releasing /\ set = "none" /\ set' = "intended")
    <2>1. Held' = Held
          BY <1>1, <1>4 DEF Held, ResourcesAbsent
    <2> QED BY <1>1, <1>2, <2>1 DEF Allowed, Contract!order, serve
  <1>5. CASE /\ ~releasing /\ set \in {"intended", "partial"} /\ "funding" \in receipts
             /\ set' \in {"partial", "provisioned"}
    <2>1. Funded /\ Held' = "held" /\ Held \in {"none", "held"}
          BY <1>1, <1>5 DEF Funded, Held, ResourcesAbsent
    <2> QED BY <1>1, <1>2, <2>1 DEF Allowed, Contract!Next, Contract!Hold, Contract!order, serve
  <1> QED BY <1>3, <1>4, <1>5

\* Serve starts a workload only on resources that are there, and none that
\* is being retired.
LEMMA SeenServe ==
    ASSUME OrderInv, SameRows, NEW a, Reserve(a) \/ Deploy(a) \/ ReadRuntime(a)
    PROVE  Allowed /\ UNCHANGED <<releasing, retiring>>
  <1>1. UNCHANGED <<order, quote, gateway, receipts, fabric, retiring, workspace, deletion>>
        BY DEF Reserve, Deploy, ReadRuntime, SameRows
  <1>2. UNCHANGED <<charge, refund, key, Held, Funded, Attested, Closed>>
        BY <1>1, SameParts DEF gateway
  <1>3. \/ UNCHANGED <<runtime, fulfilled>>
        \/ /\ ~retiring /\ runtime \in {"none", "reserved"} /\ runtime' \in {"reserved", "accepted"}
           /\ UNCHANGED fulfilled
        \/ ~retiring /\ set = "provisioned" /\ Observe
        BY DEF Reserve, Deploy, ReadRuntime
  <1>4. CASE UNCHANGED <<runtime, fulfilled>>
        BY <1>1, <1>2, <1>4, SameParts DEF Allowed, Contract!order, fabric
  <1>5. CASE /\ ~retiring /\ runtime \in {"none", "reserved"} /\ runtime' \in {"reserved", "accepted"}
             /\ UNCHANGED fulfilled
    <2>1. Workload' = Workload
          BY <1>1, <1>5 DEF Workload, Started
    <2> QED BY <1>1, <1>2, <1>5, <2>1 DEF Allowed, Contract!order, fabric
  <1>6. CASE ~retiring /\ set = "provisioned" /\ Observe
    <2>1. Held = "held" /\ Workload # "gone"
          BY <1>6 DEF Held, ResourcesAbsent, Workload
    <2>2. Workload' = "started"
          BY <1>1, <1>6 DEF Observe, Workload, Started
    <2>3. fulfilled' \in {fulfilled, TRUE}
      <3>1. fulfilled \in BOOLEAN /\ fulfilled' = (fulfilled \/ runtime' = "ready")
            BY <1>6 DEF Observe, OrderInv, DeletionInv, LaunchInv, LaunchTypeOK, OwnersTypeOK
      <3> QED BY <3>1, Zenon
    <2> QED BY <1>1, <1>2, <2>1, <2>2, <2>3 DEF Allowed, Contract!Next, Contract!Serve, fabric
  <1> QED BY <1>3, <1>4, <1>5, <1>6

\* Gateway issues a key for an application that declares one, once the order
\* is funded and before it is closed.
LEMMA SeenCreateManagedKey ==
    ASSUME OrderInv, SameRows, NEW a, CreateManagedKey(a), order.keyed, Funded
    PROVE  Allowed /\ UNCHANGED <<releasing, retiring>>
  <1>1. UNCHANGED <<order, quote, charge, refund, closing, receipts, fabric, serve, workspace, deletion>>
        BY DEF CreateManagedKey, SameRows
  <1>2. UNCHANGED <<fulfilled, Held, Workload, Funded, Attested, Closed>>
        BY <1>1, SameParts DEF serve
  <1>3. \/ key' = key
        \/ ~closing /\ key \in {"none", "pending"} /\ key' \in {"pending", "issued", "refused"}
        BY DEF CreateManagedKey
  <1>4. CASE key' = key
        BY <1>1, <1>2, <1>4 DEF Allowed, Contract!order, fabric, serve
  <1>5. CASE ~closing /\ key \in {"none", "pending"} /\ key' \in {"pending", "issued", "refused"}
    <2>1. ~Closed
          BY <1>5, ClosedFacts DEF OrderInv
    <2> QED BY <1>1, <1>2, <1>5, <2>1 DEF Allowed, Contract!Next, Contract!IssueKey, fabric, serve
  <1> QED BY <1>3, <1>4, <1>5

\* The wallet decides what was open.
LEMMA SeenWalletDecides ==
    ASSUME OrderInv, SameRows, WalletDecides
    PROVE  Allowed /\ UNCHANGED <<releasing, retiring>>
  <1>1. UNCHANGED <<order, quote, key, closing, receipts, fabric, serve, workspace, deletion>>
        BY DEF WalletDecides, SameRows
  <1>2. UNCHANGED <<fulfilled, Held, Workload, Funded, Attested, Closed>>
        BY <1>1, SameParts DEF serve
  <1> QED BY <1>1, <1>2 DEF WalletDecides, Settled, Allowed, Contract!Next, Contract!Decide,
                             Contract!Decided, fabric, serve

-----------------------------------------------------------------------------
(* The launch.                                                              *)

\* A step of a launch pass that calls an owner, or only decides how to go on,
\* writes no row.
LEMMA LaunchCallsWriteNothing ==
    ASSUME NEW w \in Worker, NEW heard \in Answer,
           \/ Load(w) \/ Release(w) \/ Lease(w) \/ TimeOut(w) \/ Crash(w)
           \/ IssueGrant(w, heard) \/ AcceptQuoteStep(w, heard) \/ IntendResources(w, heard)
           \/ WalletCharge(w, heard)
           \/ ReadChargeStep(w, heard) \/ ReuseCharge(w) \/ RefuseOrder(w) \/ FundingReceipt(w, heard)
           \/ Provision(w, heard) \/ ReadResourcesStep(w, heard) \/ CloseoutRead(w, heard)
           \/ ResolveSource(w, heard)
           \/ ReserveRuntime(w, heard) \/ BindManagedKey(w, heard) \/ FreezeCommand(w)
           \/ DeployRuntime(w, heard)
           \/ ReadRuntimeStep(w, heard)
    PROVE  UNCHANGED <<workspace, status>>
  <1>1. CASE Load(w) \/ Release(w) \/ Lease(w) \/ TimeOut(w) \/ Crash(w)
        BY <1>1 DEF Lease, TimeOut, Crash, Load, Release, Proceed, row
  <1>2. CASE \/ IssueGrant(w, heard) \/ AcceptQuoteStep(w, heard) \/ IntendResources(w, heard)
             \/ WalletCharge(w, heard)
             \/ ReadChargeStep(w, heard) \/ ReuseCharge(w) \/ RefuseOrder(w) \/ FundingReceipt(w, heard)
        BY <1>2 DEF IssueGrant, AcceptQuoteStep, IntendResources, WalletCharge, ReadChargeStep,
                    ReuseCharge, RefuseOrder, FundingReceipt, FinishCharge, Settled, Await, Report,
                    Proceed, row
  <1>3. CASE \/ Provision(w, heard) \/ ReadResourcesStep(w, heard) \/ CloseoutRead(w, heard)
             \/ ResolveSource(w, heard)
             \/ ReserveRuntime(w, heard) \/ BindManagedKey(w, heard) \/ FreezeCommand(w)
             \/ DeployRuntime(w, heard)
             \/ ReadRuntimeStep(w, heard)
        BY <1>3 DEF Provision, ReadResourcesStep, CloseoutRead, ResolveSource, ReserveRuntime,
                    BindManagedKey, FreezeCommand, DeployRuntime, ReadRuntimeStep, Await, Report,
                    Proceed, row
  <1> QED BY <1>1, <1>2, <1>3

\* A launch pass asks each owner only for what the contract allows next.
LEMMA LaunchCallsAllowed ==
    ASSUME OrderInv, SameRows, NEW w \in Worker, NEW heard \in Answer,
           \/ AcceptQuoteStep(w, heard) \/ IntendResources(w, heard) \/ WalletCharge(w, heard)
           \/ FundingReceipt(w, heard)
           \/ Provision(w, heard) \/ ReserveRuntime(w, heard) \/ BindManagedKey(w, heard)
           \/ DeployRuntime(w, heard)
           \/ ReadRuntimeStep(w, heard)
    PROVE  Allowed /\ UNCHANGED <<releasing, retiring>>
  <1>t. LaunchInv /\ (UNCHANGED owners => Allowed /\ UNCHANGED <<releasing, retiring>>)
        BY StillSeen DEF OrderInv, DeletionInv, SameRows
  <1>1. CASE AcceptQuoteStep(w, heard)
    <2>1. Ask(AcceptQuote, heard)
          BY <1>1 DEF AcceptQuoteStep
    <2>2. status # "none"
          BY <1>1 DEF AcceptQuoteStep, Calls, OrderInv, Placed
    <2> QED BY <2>1, <2>2, <1>t, SeenAcceptQuote DEF Ask
  <1>2. CASE IntendResources(w, heard) \/ Provision(w, heard)
    <2>1. PICK receipt \in BOOLEAN : Ask(LAMBDA a : EnsureResources(receipt, a), heard)
          BY <1>2 DEF IntendResources, Provision
    <2> QED BY <2>1, <1>t, SeenEnsureResources DEF Ask
  <1>3. CASE WalletCharge(w, heard)
    <2>1. Ask(Debit, heard)
          BY <1>3 DEF WalletCharge
    <2>2. order.paid /\ quote = "accepted"
      <3>1. Calls(w, "wallet_charge") /\ "wallet_charge" \in Step
            BY <1>3 DEF WalletCharge, Step
      <3> QED BY <1>t, <3>1, CallFacts DEF Ready, Charging, Copy
    <2> QED BY <2>1, <2>2, <1>t, SeenDebit DEF Ask
  <1>4. CASE FundingReceipt(w, heard)
    <2>1. Ask(AppendFunding, heard)
          BY <1>4 DEF FundingReceipt
    <2>2. quote = "accepted"
      <3>1. PICK s \in Receipting : Calls(w, s) /\ s \in Step
            BY <1>4 DEF FundingReceipt, Receipting, Step
      <3> QED BY <1>t, <3>1, CallFacts DEF Ready, Copy
    <2> QED BY <2>1, <2>2, <1>t, SeenAppendFunding DEF Ask
  <1>5. CASE BindManagedKey(w, heard)
    <2>1. Ask(CreateManagedKey, heard)
          BY <1>5 DEF BindManagedKey
    <2>2. order.keyed /\ Funded
      <3>1. Calls(w, "create_managed_key") /\ "create_managed_key" \in Step
            BY <1>5 DEF BindManagedKey, Step
      <3> QED BY <1>t, <3>1, CallFacts DEF Ready, AfterReceipt, Copy, Funded
    <2> QED BY <2>1, <2>2, <1>t, SeenCreateManagedKey DEF Ask
  <1>6. CASE ReserveRuntime(w, heard) \/ DeployRuntime(w, heard) \/ ReadRuntimeStep(w, heard)
    <2>1. Ask(Reserve, heard) \/ Ask(Deploy, heard) \/ Ask(ReadRuntime, heard)
          BY <1>6 DEF ReserveRuntime, DeployRuntime, ReadRuntimeStep
    <2> QED BY <2>1, <1>t, SeenServe DEF Ask
  <1> QED BY <1>1, <1>2, <1>3, <1>4, <1>5, <1>6

\* Only an order that cost nothing and holds nothing ends as failed.
LEMMA SeenCheckpoint ==
    ASSUME OrderInv, NEW w \in Worker, Checkpoint(w), UNCHANGED deletion
    PROVE  Allowed /\ UNCHANGED <<releasing, retiring>>
  <1>1. CASE workspace' = workspace
        BY <1>1, StillSeen DEF Checkpoint
  <1>2. CASE workspace' # workspace
    <2>1. /\ UNCHANGED owners /\ Holds(w) /\ at[w].phase = "save"
          /\ outcome[w].status = "failed" /\ workspace' = "failed"
          BY <1>2 DEF Checkpoint
    <2>2. LaunchInv /\ Stands(w) /\ Copy(result) /\ Recorded /\ RowAgrees /\ DeletionAgrees /\ LaunchTypeOK
          BY DEF OrderInv, DeletionInv, LaunchInv
    <2>3. deletion = "none" /\ ~releasing /\ ~retiring
          BY <2>1, <2>2 DEF Holds, DeletionAgrees, OrderInv, Placed
    <2>4. workspace = "provisioning"
      <3>1. at[w].step # "idle"
            BY <2>1, <2>2 DEF Stands, Step
      <3>2. workspace # "none"
            BY <3>1 DEF OrderInv, Placed
      <3>3. workspace # "active"
            BY <2>1, <2>2 DEF RowAgrees, Holds, Terminal
      <3> QED BY <1>2, <2>1, <2>2, <2>3, <3>2, <3>3 DEF LaunchTypeOK, DeletionAgrees
    <2>5. quote = "expired"
          BY <2>1, <2>2 DEF Stands
    <2>6. charge = "none" /\ set = "none" /\ runtime \notin Started
          BY <2>2, <2>5 DEF Copy, Recorded
    <2>7. Held = "none" /\ Workload = "none"
          BY <2>3, <2>6 DEF Held, ResourcesAbsent, Workload
    <2>8. UNCHANGED <<order, quote, charge, refund, key, receipts, releasing, runtime, retiring, fulfilled,
                      Held, Workload, Funded, Attested, Closed>>
          BY <2>1, SameParts DEF owners, gateway, fabric, serve
    <2> QED BY <2>1, <2>4, <2>5, <2>6, <2>7, <2>8
            DEF Allowed, Contract!Next, Contract!Fail, Contract!Stands
  <1> QED BY <1>1, <1>2

\* Only an order that was paid, recorded and delivered is entitled.
LEMMA SeenActivate ==
    ASSUME OrderInv, NEW w \in Worker, Activate(w), UNCHANGED deletion
    PROVE  Allowed /\ UNCHANGED <<releasing, retiring>>
  <1>1. UNCHANGED owners
        BY DEF Activate
  <1>2. CASE workspace' = workspace
        BY <1>1, <1>2, StillSeen
  <1>3. CASE workspace' # workspace
    <2>1. workspace = "provisioning" /\ workspace' = "active" /\ Calls(w, "activate")
          BY <1>3 DEF Activate, Await, Report, row
    <2>2. LaunchInv /\ "activate" \in Step
          BY DEF OrderInv, DeletionInv, Step
    <2>3. order.paid /\ fulfilled /\ Funded
          BY <2>1, <2>2, CallFacts DEF Ready, AfterReceipt, Copy, Funded
    <2>4. charge = "confirmed"
          BY <2>2, <2>3 DEF LaunchInv, OwnersAgree, Funded
    <2>5. UNCHANGED <<order, quote, charge, refund, key, receipts, releasing, runtime, retiring, fulfilled,
                      Held, Workload, Funded, Attested, Closed>>
          BY <1>1, SameParts DEF owners, gateway, fabric, serve
    <2> QED BY <2>1, <2>3, <2>4, <2>5 DEF Allowed, Contract!Next, Contract!Entitle, Contract!Stands
  <1> QED BY <1>2, <1>3

\* The launch keeps the contract.
LEMMA LaunchAllowed ==
    ASSUME OrderInv, LaunchNext, UNCHANGED dvars
    PROVE  Allowed /\ UNCHANGED <<releasing, retiring>>
  <1>1. UNCHANGED deletion
        BY DEF dvars, drow
  <1>2. CASE CreateWorkspace
    <2>1. workspace = "none" /\ workspace' = "provisioning" /\ UNCHANGED owners
          BY <1>2 DEF CreateWorkspace, OrderInv, Placed
    <2>2. UNCHANGED <<order, quote, charge, refund, key, receipts, releasing, runtime, retiring, fulfilled,
                      Held, Workload, Funded, Attested, Closed>>
          BY <1>1, <2>1, SameParts DEF owners, gateway, fabric, serve
    <2> QED BY <2>1, <2>2 DEF Allowed, Contract!Next, Contract!Place, Contract!Stands
  <1>3. CASE LeaseExpires
        BY <1>1, <1>3, StillSeen DEF LeaseExpires, row
  <1>4. CASE WalletDecides /\ UNCHANGED launch
        BY <1>1, <1>4, SeenWalletDecides DEF SameRows, launch, row
  <1>5. ASSUME NEW w \in Worker, BeginStep(w)
        PROVE  Allowed /\ UNCHANGED <<releasing, retiring>>
        BY <1>1, <1>5, StillSeen DEF BeginStep
  <1>6. ASSUME NEW w \in Worker, NEW heard \in Answer,
               \/ Lease(w) \/ TimeOut(w) \/ Crash(w) \/ Load(w) \/ Release(w) \/ IssueGrant(w, heard)
               \/ ReadChargeStep(w, heard) \/ ReuseCharge(w) \/ RefuseOrder(w)
               \/ ReadResourcesStep(w, heard)
               \/ CloseoutRead(w, heard) \/ ResolveSource(w, heard) \/ FreezeCommand(w)
        PROVE  Allowed /\ UNCHANGED <<releasing, retiring>>
    <2>1. UNCHANGED <<workspace, status>>
          BY <1>6, LaunchCallsWriteNothing
    <2>2. CASE \/ Lease(w) \/ TimeOut(w) \/ Crash(w) \/ Load(w) \/ Release(w) \/ IssueGrant(w, heard)
               \/ ReuseCharge(w) \/ RefuseOrder(w) \/ ResolveSource(w, heard) \/ FreezeCommand(w)
      <3>1. UNCHANGED owners
            BY <2>2 DEF Lease, TimeOut, Crash, Load, Release, IssueGrant, ReuseCharge, RefuseOrder,
                        ResolveSource, FreezeCommand
      <3> QED BY <1>1, <2>1, <3>1, StillSeen
    <2>3. CASE ReadChargeStep(w, heard) \/ ReadResourcesStep(w, heard) \/ CloseoutRead(w, heard)
      <3>1. UNCHANGED owners
            BY <2>3, AskReadCharge, AskReadResources
            DEF ReadChargeStep, ReadResourcesStep, CloseoutRead, OrderInv, DeletionInv
      <3> QED BY <1>1, <2>1, <3>1, StillSeen
    <2> QED BY <1>6, <2>2, <2>3
  <1>7. ASSUME NEW w \in Worker, NEW heard \in Answer,
               \/ AcceptQuoteStep(w, heard) \/ IntendResources(w, heard) \/ WalletCharge(w, heard)
               \/ FundingReceipt(w, heard)
               \/ Provision(w, heard) \/ ReserveRuntime(w, heard) \/ BindManagedKey(w, heard)
               \/ DeployRuntime(w, heard)
               \/ ReadRuntimeStep(w, heard)
        PROVE  Allowed /\ UNCHANGED <<releasing, retiring>>
    <2>1. SameRows
          BY <1>1, <1>7, LaunchCallsWriteNothing DEF SameRows
    <2> QED BY <1>7, <2>1, LaunchCallsAllowed
  <1>8. "ok" \in Answer
        BY DEF Answer
  <1> QED BY <1>1, <1>2, <1>3, <1>4, <1>5, <1>6, <1>7, <1>8, SeenCheckpoint, SeenActivate
          DEF LaunchNext, Settles, Pass, Walk, Called

-----------------------------------------------------------------------------
(* What the deletion asks of the owners.                                    *)

\* A deletion pass that runs was preceded by the acceptance of the deletion.
LEMMA DeletionRuns ==
    ASSUME OrderInv, NEW d \in Deleter, dat[d].step # "idle"
    PROVE  deletion # "none" /\ Contract!Leaving /\ workspace # "none" /\ status # "none"
  BY DEF OrderInv, DeletionInv, DeletionStands, DeletionAgrees, Contract!Leaving, Terminal

\* A resource set seen absent and a runtime seen retired are an empty order.
LEMMA EmptyOrder ==
    ASSUME NEW r, Evidence(r), "deleted_at" \in r.facts
    PROVE  Contract!Emptied
  BY DEF Evidence, Retired, Released, Held, Workload, Contract!Emptied

\* Serve stops a workload only of an order that is leaving.
LEMMA SeenRetire ==
    ASSUME OrderInv, SameRows, NEW a, Retire(a), Contract!Leaving
    PROVE  Allowed
  <1>1. UNCHANGED <<order, quote, gateway, receipts, fabric, fulfilled, workspace, deletion>>
        BY DEF Retire, SameRows
  <1>2. UNCHANGED <<charge, refund, key, Held, Funded, Attested, Closed>>
        BY <1>1, SameParts DEF gateway
  <1>3. retiring' = TRUE /\ (runtime' \in {"none", "retired"} \/ (runtime' = runtime /\ runtime \in Started))
        BY DEF Retire
  <1>4. Workload' = "gone" \/ Workload' = Workload
        BY <1>3 DEF Workload, Started
  <1> QED BY <1>1, <1>2, <1>4 DEF Allowed, Contract!Next, Contract!Stop, Contract!order

\* Fabric releases only resources that no workload uses.
LEMMA SeenDeleteResources ==
    ASSUME OrderInv, SameRows, NEW a, NEW version, DeleteResources(version, a), Contract!Leaving, Retired
    PROVE  Allowed
  <1>1. UNCHANGED <<order, quote, gateway, receipts, serve, workspace, deletion>>
        BY DEF DeleteResources, SameRows
  <1>2. UNCHANGED <<charge, refund, key, fulfilled, Workload, Funded, Attested, Closed>>
        BY <1>1, SameParts DEF gateway, serve
  <1>3. UNCHANGED fabric \/ (releasing' = TRUE /\ (set' = set \/ set' = "absent"))
        BY DEF DeleteResources
  <1>4. Held' = "gone" \/ Held' = Held
        BY <1>3 DEF Held, ResourcesAbsent, fabric
  <1>5. Workload = "gone"
        BY DEF Retired, Workload
  <1> QED BY <1>1, <1>2, <1>4, <1>5 DEF Allowed, Contract!Next, Contract!Empty, Contract!order

\* Gateway disables a key once nothing is there that could use it.
LEMMA SeenDisableKey ==
    ASSUME OrderInv, SameRows, NEW a, CloseManagedKey(a) \/ DisableManagedKey(a),
           Contract!Leaving, Contract!Emptied
    PROVE  Allowed
  <1>1. UNCHANGED <<order, quote, charge, refund, receipts, fabric, serve, workspace, deletion>>
        BY DEF CloseManagedKey, DisableManagedKey, SameRows
  <1>2. UNCHANGED <<fulfilled, Held, Workload, Funded, Attested, Closed>>
        BY <1>1, SameParts DEF serve
  <1>3. key' = key \/ (key = "issued" /\ key' = "disabled")
        BY DEF CloseManagedKey, DisableManagedKey
  <1> QED BY <1>1, <1>2, <1>3 DEF Allowed, Contract!Next, Contract!DisableKey, Contract!order

\* Ledger attests the removal of an order that is empty.
LEMMA SeenAppendDeletion ==
    ASSUME OrderInv, SameRows, NEW a, AppendDeletion(a), Contract!Leaving, Contract!Emptied
    PROVE  Allowed
  <1>1. UNCHANGED <<order, quote, gateway, fabric, serve, workspace, deletion>>
        BY DEF AppendDeletion, SameRows
  <1>2. UNCHANGED <<charge, refund, key, fulfilled, Held, Workload, Closed>>
        BY <1>1, SameParts DEF gateway, serve
  <1>3. Attested' = TRUE /\ Funded' = Funded
        BY DEF AppendDeletion, Attested, Funded
  <1> QED BY <1>1, <1>2, <1>3 DEF Allowed, Contract!Next, Contract!Attest

\* Gateway gives back the recorded charge of an order that is erased and
\* neither closed nor spent.
LEMMA SeenRefund ==
    ASSUME OrderInv, SameRows, NEW a, Refund(a), Due
    PROVE  Allowed
  <1>1. UNCHANGED <<order, quote, charge, key, closing, receipts, fabric, serve, workspace, deletion>>
        BY DEF Refund, SameRows
  <1>2. UNCHANGED <<fulfilled, Held, Workload, Funded, Attested, Closed>>
        BY <1>1, SameParts DEF serve
  <1>3. refund' = refund \/ (refund = "none" /\ refund' \in {"open", "confirmed", "rejected"})
        BY DEF Refund, Money
  <1>4. CASE refund' = refund
        BY <1>1, <1>2, <1>4 DEF Allowed, Contract!order
  <1>5. CASE refund = "none" /\ refund' \in {"open", "confirmed", "rejected"}
    <2>1. ~Closed
          BY <1>5, ClosedFacts DEF OrderInv, NothingOwed, NeverCharged, Due
    <2> QED BY <1>1, <1>2, <1>5, <2>1
            DEF Allowed, Contract!Next, Contract!Return, Contract!Decided, Due, Funded
  <1> QED BY <1>3, <1>4, <1>5

-----------------------------------------------------------------------------
(* The deletion.                                                            *)

\* The calls of a deletion pass leave every row but their own memory alone.
LEMMA DeletionCallsWriteNothing ==
    ASSUME NEW d \in Deleter,
           \/ DLease(d) \/ DLoad(d) \/ DRelease(d) \/ DTimeOut(d) \/ DCrash(d)
           \/ IssueDeletionGrant(d) \/ RetireRuntime(d) \/ CloseResources(d) \/ ReadCloseout(d)
           \/ ObserveVersion(d) \/ ReleaseResources(d) \/ ReadReleased(d) \/ ResumeRelease(d)
           \/ NoKey(d) \/ DisableKey(d) \/ DeletionReceipt(d) \/ ReadOriginalCharge(d)
           \/ ReadOriginalFunding(d) \/ ReadOriginalFulfillment(d) \/ NoRefund(d) \/ IssueRefund(d)
           \/ ReadRefundStep(d) \/ SettleStored(d)
    PROVE  UNCHANGED <<launch, deletion>>
  <1>1. CASE DLease(d) \/ DLoad(d) \/ DRelease(d) \/ DTimeOut(d) \/ DCrash(d)
        BY <1>1 DEF DLease, DLoad, DRelease, DTimeOut, DCrash, DProceed, drow
  <1>2. CASE IssueDeletionGrant(d) \/ RetireRuntime(d) \/ CloseResources(d) \/ ReadCloseout(d)
             \/ ObserveVersion(d) \/ ReleaseResources(d) \/ ReadReleased(d) \/ ResumeRelease(d)
        BY <1>2 DEF IssueDeletionGrant, RetireRuntime, CloseResources, ReadCloseout, ObserveVersion,
                    ReleaseResources, ReadReleased, ResumeRelease, Absent, StillThere, Confirm, DAwait,
                    DReport, DProceed, drow
  <1>3. CASE NoKey(d) \/ DisableKey(d) \/ DeletionReceipt(d) \/ ReadOriginalCharge(d)
             \/ ReadOriginalFunding(d) \/ ReadOriginalFulfillment(d)
        BY <1>3 DEF NoKey, DisableKey, DeletionReceipt, ReadOriginalCharge, ReadOriginalFunding,
                    ReadOriginalFulfillment, Confirm, DAwait, DReport, DProceed, drow
  <1>4. CASE NoRefund(d) \/ IssueRefund(d) \/ ReadRefundStep(d) \/ SettleStored(d)
        BY <1>4 DEF NoRefund, IssueRefund, ReadRefundStep, SettleStored, SettleRefund, Confirm, DAwait,
                    DReport, drow
  <1> QED BY <1>1, <1>2, <1>3, <1>4

\* A deletion pass asks each owner only for what the contract allows next.
LEMMA DeletionCallsAllowed ==
    ASSUME OrderInv, SameRows, NEW d \in Deleter,
           \/ RetireRuntime(d) \/ CloseResources(d) \/ ReleaseResources(d) \/ ResumeRelease(d)
           \/ DisableKey(d) \/ DeletionReceipt(d) \/ ReadOriginalFunding(d) \/ IssueRefund(d)
    PROVE  Allowed
  <1>t. DeletionInv /\ (UNCHANGED owners => Allowed)
        BY StillSeen DEF OrderInv, SameRows
  <1>1. PICK s \in {"retire_runtime", "close_resources", "delete_resources", "resume_release",
                    "disable_managed_key", "deletion_receipt", "read_original_funding", "refund"} :
               DCalls(d, s) /\ s \in DeletionStep
        BY DEF RetireRuntime, CloseResources, ReleaseResources, ResumeRelease, DisableKey,
               DeletionReceipt, ReadOriginalFunding, IssueRefund, DeletionStep
  <1>2. /\ dat[d].step = s /\ Evidence(dmem[d].result) /\ Evident(s, dmem[d].result)
        /\ dmem[d].result.facts \subseteq closeout.facts
        /\ "deleted_at" \in dmem[d].result.facts /\ "spent" \in closeout.facts
           => "spent" \in dmem[d].result.facts
        BY <1>t, <1>1, DeletionCallFacts
  <1>3. Contract!Leaving
        BY <1>1, <1>2, DeletionRuns DEF OrderInv
  <1>4. CASE RetireRuntime(d)
    <2>1. PICK heard \in Answer : Ask(Retire, heard)
          BY <1>4 DEF RetireRuntime
    <2> QED BY <2>1, <1>3, <1>t, SeenRetire DEF Ask
  <1>5. CASE CloseResources(d) \/ ReleaseResources(d) \/ ResumeRelease(d)
    <2>1. PICK heard \in Answer :
                 \/ Ask(LAMBDA a : DeleteResources("any", a), heard)
                 \/ Ask(LAMBDA a : DeleteResources(dmem[d].version, a), heard)
                 \/ Ask(LAMBDA a : DeleteResources(command, a), heard)
          BY <1>5 DEF CloseResources, ReleaseResources, ResumeRelease
    <2>2. Retired
      <3>1. \E x \in {"close_resources", "delete_resources", "resume_release"} : DCalls(d, x)
            BY <1>5 DEF CloseResources, ReleaseResources, ResumeRelease
      <3>2. s \in {"close_resources", "delete_resources", "resume_release"}
            BY <1>2, <3>1 DEF DCalls
      <3> QED BY <1>1, <1>2, <3>2 DEF Evident, Evidence, AfterRetired
    <2> QED BY <2>1, <2>2, <1>3, <1>t, SeenDeleteResources DEF Ask
  <1>6. CASE DisableKey(d) \/ DeletionReceipt(d)
    <2>a. \E x \in {"disable_managed_key", "deletion_receipt"} : DCalls(d, x)
          BY <1>6 DEF DisableKey, DeletionReceipt
    <2>1. s \in {"disable_managed_key", "deletion_receipt"}
          BY <1>2, <2>a DEF DCalls
    <2>2. Contract!Emptied
          BY <1>2, <2>1, EmptyOrder DEF Evident, AfterAbsent
    <2>3. CASE DisableKey(d)
      <3>1. PICK heard \in Answer :
                   Ask(LAMBDA a : IF Unfinished THEN CloseManagedKey(a) ELSE DisableManagedKey(a), heard)
            BY <2>3 DEF DisableKey
      <3>2. \/ \E a \in Answer : CloseManagedKey(a) \/ DisableManagedKey(a)
            \/ UNCHANGED owners
            BY <3>1 DEF Ask
      <3> QED BY <3>2, <2>2, <1>3, <1>t, SeenDisableKey
    <2>4. CASE DeletionReceipt(d)
      <3>1. PICK heard \in Answer : Ask(AppendDeletion, heard)
            BY <2>4 DEF DeletionReceipt
      <3> QED BY <3>1, <2>2, <1>3, <1>t, SeenAppendDeletion DEF Ask
    <2> QED BY <1>6, <2>3, <2>4
  <1>7. CASE ReadOriginalFunding(d)
    <2>a. DCalls(d, "read_original_funding")
          BY <1>7 DEF ReadOriginalFunding
    <2>1. s = "read_original_funding"
          BY <1>2, <2>a DEF DCalls
    <2>2. charge = "confirmed"
          BY <1>2, <2>1 DEF Evident, Refunding
    <2>3. quote = "accepted"
          BY <2>2, <1>t DEF DeletionInv, LaunchInv, Recorded, Copy
    <2>4. UNCHANGED owners \/ \E heard \in Answer : Ask(AppendFunding, heard)
          BY <1>7 DEF ReadOriginalFunding
    <2> QED BY <2>3, <2>4, <1>t, SeenAppendFunding DEF Ask
  <1>8. CASE IssueRefund(d)
    <2>a. DCalls(d, "refund")
          BY <1>8 DEF IssueRefund
    <2>1. s = "refund"
          BY <1>2, <2>a DEF DCalls
    <2>2. Due
          BY <1>2, <2>1 DEF Evident, Refunding, Settling, AfterAbsent, Due
    <2>3. PICK heard \in Answer : Ask(Refund, heard)
          BY <1>8 DEF IssueRefund
    <2> QED BY <2>2, <2>3, <1>t, SeenRefund DEF Ask
  <1> QED BY <1>4, <1>5, <1>6, <1>7, <1>8

\* An order is erased when it is empty and its removal is on record.
LEMMA SeenRecordDeleted ==
    ASSUME OrderInv, NEW d \in Deleter, RecordDeletedWorkspace(d)
    PROVE  Allowed
  <1>1. UNCHANGED owners /\ UNCHANGED deletion
        BY DEF RecordDeletedWorkspace
  <1>2. CASE workspace' = workspace
        BY <1>1, <1>2, StillSeen
  <1>3. CASE workspace' # workspace
    <2>1. workspace = "deleting" /\ workspace' = "deleted" /\ DCalls(d, "record_deleted")
          BY <1>3 DEF RecordDeletedWorkspace
    <2>2. DeletionInv /\ "record_deleted" \in DeletionStep
          BY DEF OrderInv, DeletionStep
    <2>3. Evidence(dmem[d].result) /\ {"deleted_at", "receipt"} \subseteq dmem[d].result.facts
          BY <2>1, <2>2, DeletionCallFacts DEF Evident, AfterAbsent
    <2>4. Contract!Emptied /\ Attested
          BY <2>3, EmptyOrder DEF Evidence, Attested
    <2>5. UNCHANGED <<order, quote, charge, refund, key, receipts, releasing, runtime, retiring, fulfilled,
                      Held, Workload, Funded, Attested, Closed>>
          BY <1>1, SameParts DEF owners, gateway, fabric, serve
    <2> QED BY <2>1, <2>4, <2>5 DEF Allowed, Contract!Next, Contract!Erase, Contract!Stands
  <1> QED BY <1>2, <1>3

\* An order is closed when its key is gone and its money is settled.
LEMMA SeenComplete ==
    ASSUME OrderInv, NEW d \in Deleter, CompleteDeletion(d)
    PROVE  Allowed
  <1>1. UNCHANGED owners /\ UNCHANGED workspace
        BY DEF CompleteDeletion, DAwait, DReport, launch, row
  <1>2. CASE UNCHANGED deletion
        BY <1>1, <1>2, StillSeen
  <1>3. CASE deletion' # deletion
    <2> DEFINE r == dmem[d].result
    <2>1. DeletionInv /\ "complete" \in DeletionStep /\ DCalls(d, "complete")
          BY DEF OrderInv, DeletionStep, CompleteDeletion
    <2>2. /\ deletion' = "succeeded"
          /\ r.key \notin {"rejected", "unknown"} /\ r.refund \in {"confirmed", "not_applicable"}
          BY <1>3 DEF CompleteDeletion, DAwait, DReport, drow
    <2>3. /\ r \in Closeout /\ Evidence(r) /\ workspace = "deleted" /\ r.key # "none"
          BY <2>1, DeletionCallFacts DEF Evident, Settling
    <2>4. key \in {"none", "refused", "disabled"}
      <3>1. r.key \in {"confirmed", "not_applicable"}
            BY <2>2, <2>3 DEF Closeout, KeyCloseout
      <3> QED BY <2>3, <3>1 DEF Evidence, KeyNeverIssued
    <2>5. /\ Evidence(closeout) /\ RefundIsDue /\ OwnersAgree /\ charge \in Money
          BY <2>1 DEF DeletionInv, LaunchInv, LaunchTypeOK, OwnersTypeOK
    <2>6. Contract!MoneySettled
      <3>1. CASE r.refund = "confirmed"
            BY <2>3, <2>5, <3>1 DEF Evidence, RefundIsDue, Settled, Contract!MoneySettled
      <3>2. CASE r.refund = "not_applicable"
        <4>1. NothingOwed
              BY <2>3, <3>2 DEF Evidence
        <4>2. refund = "none"
              BY <2>5, <4>1 DEF RefundIsDue, NothingOwed, NeverCharged
        <4>3. "spent" \in closeout.facts => fulfilled /\ charge \in {"none", "confirmed"}
              BY <2>5 DEF Evidence, OwnersAgree
        <4> QED BY <4>1, <4>2, <4>3 DEF NothingOwed, NeverCharged, Contract!MoneySettled
      <3> QED BY <2>2, <3>1, <3>2
    <2>7. UNCHANGED <<order, quote, charge, refund, key, receipts, releasing, runtime, retiring, fulfilled,
                      Held, Workload, Funded, Attested>>
          BY <1>1, SameParts DEF owners, gateway, fabric, serve
    <2>8. Closed' = TRUE
          BY <2>2 DEF Closed
    <2> QED BY <1>1, <2>3, <2>4, <2>6, <2>7, <2>8 DEF Allowed, Contract!Next, Contract!Close
  <1> QED BY <1>2, <1>3

\* The deletion keeps the contract, and the launch's rows and passes but for
\* the Workspace that it erases.
LEMMA DeletionAllowed ==
    ASSUME OrderInv, NEW d \in Deleter, DLease(d) \/ DPass(d) \/ DTimeOut(d) \/ DCrash(d)
    PROVE  /\ Allowed /\ UNCHANGED <<status, pass>>
           /\ workspace' \in {workspace, "deleted"} /\ deletion' # "none"
  <1>t. DeletionInv /\ DeletionStands(d)
        BY DEF OrderInv, DeletionInv
  <1>1. deletion # "none"
    <2>1. CASE DLease(d)
          BY <2>1 DEF DLease
    <2>2. CASE DPass(d) \/ DTimeOut(d) \/ DCrash(d)
      <3>1. dat[d].step # "idle"
        <4>1. CASE DTimeOut(d) \/ DCrash(d) \/ DLoad(d) \/ DBegin(d) \/ DRelease(d)
              BY <4>1 DEF DTimeOut, DCrash, DLoad, DBegin, DRelease, DeletionStep
        <4>2. CASE DCheckpoint(d)
              BY <4>2, <1>t DEF DCheckpoint, DeletionStands, DeletionStep
        <4>3. ASSUME NEW s \in DeletionStep, DCalls(d, s) PROVE dat[d].step # "idle"
              BY <4>3 DEF DCalls, DeletionStep
        <4>4. \/ DTimeOut(d) \/ DCrash(d) \/ DLoad(d) \/ DBegin(d) \/ DRelease(d) \/ DCheckpoint(d)
              \/ \E s \in DeletionStep : DCalls(d, s)
          <5>1. \A s \in DeletionStep : DCalls(d, s) => \E x \in DeletionStep : DCalls(d, x)
                OBVIOUS
          <5>2. CASE \/ IssueDeletionGrant(d) \/ RetireRuntime(d) \/ CloseResources(d) \/ ReadCloseout(d)
                     \/ ObserveVersion(d) \/ ReleaseResources(d) \/ ReadReleased(d) \/ ResumeRelease(d)
                     \/ NoKey(d) \/ DisableKey(d) \/ DeletionReceipt(d) \/ RecordDeletedWorkspace(d)
                BY <5>1, <5>2
                DEF IssueDeletionGrant, RetireRuntime, CloseResources, ReadCloseout, ObserveVersion,
                    ReleaseResources, ReadReleased, ResumeRelease, NoKey, DisableKey, DeletionReceipt,
                    RecordDeletedWorkspace, DeletionStep
          <5>3. CASE \/ ReadOriginalCharge(d) \/ ReadOriginalFunding(d) \/ ReadOriginalFulfillment(d)
                     \/ NoRefund(d) \/ IssueRefund(d) \/ ReadRefundStep(d) \/ SettleStored(d)
                     \/ CompleteDeletion(d)
                BY <5>1, <5>3
                DEF ReadOriginalCharge, ReadOriginalFunding, ReadOriginalFulfillment, NoRefund,
                    IssueRefund, ReadRefundStep, SettleStored, CompleteDeletion, DeletionStep
          <5> QED BY <2>2, <5>2, <5>3 DEF DPass
        <4> QED BY <4>1, <4>2, <4>3, <4>4
      <3> QED BY <3>1, DeletionRuns
    <2> QED BY <2>1, <2>2
  <1>2. CASE DBegin(d) \/ DCheckpoint(d)
    <2>1. UNCHANGED owners /\ UNCHANGED launch
          BY <1>2 DEF DBegin, DCheckpoint
    <2>2. deletion' # "none" /\ Closed' = Closed
          BY <1>1, <1>2, <1>t DEF DBegin, DCheckpoint, DHolds, Terminal, Closed, DeletionStands
    <2>3. UNCHANGED <<order, quote, charge, refund, key, receipts, runtime, retiring, fulfilled,
                      Held, Workload, Funded, Attested>>
          BY <2>1, SameParts DEF owners, gateway, fabric, serve
    <2> QED BY <2>1, <2>2, <2>3 DEF launch, row, Allowed, Contract!order
  <1>3. CASE RecordDeletedWorkspace(d)
    <2>1. UNCHANGED <<status, pass, deletion>> /\ workspace' \in {workspace, "deleted"}
          BY <1>3 DEF RecordDeletedWorkspace
    <2> QED BY <1>1, <1>3, <2>1, SeenRecordDeleted
  <1>4. CASE CompleteDeletion(d)
    <2>1. UNCHANGED launch /\ deletion' \in {deletion, "succeeded"}
          BY <1>4 DEF CompleteDeletion, DAwait, DReport, drow
    <2> QED BY <1>1, <1>4, <2>1, SeenComplete DEF launch, row
  <1>5. ASSUME \/ DLease(d) \/ DLoad(d) \/ DRelease(d) \/ DTimeOut(d) \/ DCrash(d)
               \/ IssueDeletionGrant(d) \/ ReadCloseout(d) \/ ObserveVersion(d) \/ ReadReleased(d)
               \/ NoKey(d) \/ ReadOriginalCharge(d) \/ ReadOriginalFulfillment(d) \/ NoRefund(d)
               \/ ReadRefundStep(d) \/ SettleStored(d)
        PROVE  UNCHANGED <<owners, launch, deletion>>
    <2>1. UNCHANGED <<launch, deletion>>
          BY <1>5, DeletionCallsWriteNothing
    <2>2. CASE \/ DLease(d) \/ DLoad(d) \/ DRelease(d) \/ DTimeOut(d) \/ DCrash(d)
               \/ IssueDeletionGrant(d) \/ NoKey(d) \/ NoRefund(d) \/ SettleStored(d)
          BY <2>1, <2>2 DEF DLease, DLoad, DRelease, DTimeOut, DCrash, IssueDeletionGrant, NoKey, NoRefund,
                            SettleStored
    <2>3. CASE \/ ReadCloseout(d) \/ ObserveVersion(d) \/ ReadReleased(d) \/ ReadOriginalCharge(d)
               \/ ReadOriginalFulfillment(d) \/ ReadRefundStep(d)
      <3>1. PICK heard \in Answer :
                   \/ Ask(ReadResources, heard) \/ Ask(ReadClosedCharge, heard)
                   \/ Ask(ReadRetired, heard) \/ Ask(ReadRefund, heard)
            BY <2>3 DEF ReadCloseout, ObserveVersion, ReadReleased, ReadOriginalCharge,
                        ReadOriginalFulfillment, ReadRefundStep
      <3> QED BY <2>1, <3>1 DEF Ask, ReadResources, ReadClosedCharge, ReadRetired, ReadRefund
    <2> QED BY <1>5, <2>2, <2>3
  <1>6. CASE \/ RetireRuntime(d) \/ CloseResources(d) \/ ReleaseResources(d) \/ ResumeRelease(d)
             \/ DisableKey(d) \/ DeletionReceipt(d) \/ ReadOriginalFunding(d) \/ IssueRefund(d)
    <2>1. UNCHANGED <<launch, deletion>>
          BY <1>6, DeletionCallsWriteNothing
    <2>2. SameRows
          BY <2>1 DEF SameRows, launch, row
    <2> QED BY <1>1, <1>6, <2>1, <2>2, DeletionCallsAllowed DEF launch, row
  <1>7. UNCHANGED <<owners, launch, deletion>> =>
          /\ Allowed /\ UNCHANGED <<status, pass>>
          /\ workspace' \in {workspace, "deleted"} /\ deletion' # "none"
        BY <1>1, StillSeen DEF launch, row
  <1> QED BY <1>2, <1>3, <1>4, <1>5, <1>6, <1>7 DEF DPass

-----------------------------------------------------------------------------
(* Nothing happens to an order that was not placed.                         *)

\* Only pass w moves, and it writes no empty status.
Moves(w) ==
    /\ \A v \in Worker : v # w => at'[v] = at[v] /\ outcome'[v] = outcome[v]
    /\ at'[w].phase = "save" => outcome'[w].status # "none"

\* How a launch pass moves.
LEMMA HowItMoves ==
    ASSUME LaunchTypeOK, NEW w \in Worker
    PROVE  /\ \A r, s, next : s # "none" /\ Report(w, r, s, next) => Moves(w)
           /\ \A r, place : place.phase # "save" /\ Proceed(w, r, place) => Moves(w)
           /\ \A next : GoOn(w, next) => Moves(w)
           /\ Leave(w) => Moves(w)
           /\ \A s : Start(s).phase # "save"
  <1>1. /\ at \in [Worker -> Place] /\ outcome \in [Worker -> Outcome]
        BY DEF LaunchTypeOK
  <1>2. ASSUME NEW s PROVE Start(s).phase # "save"
        BY DEF Start
  <1>3. ASSUME NEW r, NEW s, NEW next, s # "none", Report(w, r, s, next) PROVE Moves(w)
        BY <1>1, <1>3 DEF Report, Moves
  <1>4. ASSUME NEW r, NEW place, place.phase # "save", Proceed(w, r, place) PROVE Moves(w)
        BY <1>1, <1>4 DEF Proceed, Goto, Moves
  <1>5. Leave(w) => Moves(w)
        BY <1>1, <1>2 DEF Leave, Goto, Moves
  <1>6. ASSUME NEW next, GoOn(w, next) PROVE Moves(w)
        BY <1>1, <1>2, <1>5, <1>6 DEF GoOn, Goto, Moves
  <1> QED BY <1>2, <1>3, <1>4, <1>5, <1>6

\* Every step of a launch pass is one of its moves, for an order that exists.
LEMMA PassMoves ==
    ASSUME OrderInv, NEW w \in Worker, Pass(w) \/ TimeOut(w) \/ Crash(w)
    PROVE  Moves(w) /\ status # "none"
  <1>t. LaunchTypeOK /\ at \in [Worker -> Place] /\ outcome \in [Worker -> Outcome]
        /\ Stands(w)
        BY DEF OrderInv, DeletionInv, LaunchInv, LaunchTypeOK
  <1>m. /\ \A r, s, next : s # "none" /\ Report(w, r, s, next) => Moves(w)
        /\ \A r, place : place.phase # "save" /\ Proceed(w, r, place) => Moves(w)
        /\ \A next : GoOn(w, next) => Moves(w)
        /\ Leave(w) => Moves(w)
        /\ \A s : Start(s).phase # "save"
        BY <1>t, HowItMoves
  <1>p. at[w].step # "idle" => status # "none"
        BY DEF OrderInv, Placed
  <1>1. CASE TimeOut(w) \/ Load(w)
        BY <1>1, <1>m, <1>p DEF TimeOut, Load
  <1>2. CASE Crash(w) \/ Release(w)
    <2>1. at' = [at EXCEPT ![w] = Start("idle")] /\ at[w].step # "idle"
          BY <1>2 DEF Crash, Release, Goto
    <2>2. \A v \in Worker : v # w => outcome'[v] = outcome[v]
          BY <1>2, <1>t DEF Crash, Release
    <2> QED BY <2>1, <2>2, <1>t, <1>m, <1>p DEF Moves
  <1>3. CASE BeginStep(w)
    <2>1. at[w].step # "idle"
          BY <1>3 DEF BeginStep, Step
    <2>2. CASE Leave(w)
          BY <2>1, <2>2, <1>m, <1>p
    <2>3. CASE at' = [at EXCEPT ![w].phase = "call"] /\ UNCHANGED outcome
          BY <2>1, <2>3, <1>t, <1>p DEF Moves
    <2> QED BY <1>3, <2>2, <2>3 DEF BeginStep
  <1>4. CASE Checkpoint(w)
    <2>1. at[w].step # "idle"
          BY <1>4, <1>t DEF Checkpoint, Stands, Step
    <2> QED BY <1>4, <2>1, <1>m, <1>p DEF Checkpoint
  <1>5. ASSUME NEW heard \in Answer,
               \/ IssueGrant(w, heard) \/ AcceptQuoteStep(w, heard) \/ IntendResources(w, heard)
               \/ ReuseCharge(w)
               \/ RefuseOrder(w) \/ FundingReceipt(w, heard)
        PROVE  Moves(w) /\ status # "none"
    <2>1. \/ Calls(w, "grant") \/ Calls(w, "accept_quote") \/ Calls(w, "ensure_resources")
          \/ Calls(w, "reuse_charge") \/ Calls(w, "refuse_order") \/ Calls(w, "zero_charge_receipt")
          \/ Calls(w, "wallet_action_receipt")
          BY <1>5 DEF IssueGrant, AcceptQuoteStep, IntendResources, ReuseCharge, RefuseOrder,
                      FundingReceipt
    <2>2. at[w].step # "idle"
          BY <2>1 DEF Calls
    <2> QED BY <1>5, <2>2, <1>m, <1>p DEF IssueGrant, AcceptQuoteStep, IntendResources, ReuseCharge,
                                          RefuseOrder, FundingReceipt, Await
  <1>6. ASSUME NEW heard \in Answer,
               WalletCharge(w, heard) \/ ReadChargeStep(w, heard)
        PROVE  Moves(w) /\ status # "none"
    <2>1. at[w].step # "idle"
          BY <1>6 DEF WalletCharge, ReadChargeStep, Calls
    <2>2. ASSUME NEW answer \in Settled \cup {"open"}, FinishCharge(w, answer) PROVE Moves(w)
          BY <2>2, <1>m DEF FinishCharge, Settled
    <2> QED BY <1>6, <2>1, <2>2, <1>m, <1>p DEF WalletCharge, ReadChargeStep, Await
  <1>7. ASSUME NEW heard \in Answer,
               \/ Provision(w, heard) \/ ReadResourcesStep(w, heard) \/ CloseoutRead(w, heard)
               \/ ResolveSource(w, heard)
               \/ ReserveRuntime(w, heard) \/ BindManagedKey(w, heard)
        PROVE  Moves(w) /\ status # "none"
    <2>1. \/ Calls(w, "provision") \/ Calls(w, "read_resources") \/ Calls(w, "closeout_read")
          \/ Calls(w, "runtime_capability") \/ Calls(w, "reserve_runtime")
          \/ Calls(w, "create_managed_key")
          BY <1>7 DEF Provision, ReadResourcesStep, CloseoutRead, ResolveSource, ReserveRuntime,
                      BindManagedKey
    <2>2. at[w].step # "idle"
          BY <2>1 DEF Calls
    <2> QED BY <1>7, <2>2, <1>m, <1>p DEF Provision, ReadResourcesStep, CloseoutRead, ResolveSource,
                                          ReserveRuntime, BindManagedKey, Await
  <1>8. ASSUME NEW heard \in Answer,
               FreezeCommand(w) \/ DeployRuntime(w, heard) \/ ReadRuntimeStep(w, heard) \/ Activate(w)
        PROVE  Moves(w) /\ status # "none"
    <2>1. at[w].step # "idle"
          BY <1>8 DEF FreezeCommand, DeployRuntime, ReadRuntimeStep, Activate, Calls
    <2> QED BY <1>8, <2>1, <1>m, <1>p DEF FreezeCommand, DeployRuntime, ReadRuntimeStep, Activate, Await
  <1>9. "ok" \in Answer
        BY DEF Answer
  <1> QED BY <1>1, <1>2, <1>3, <1>4, <1>5, <1>6, <1>7, <1>8, <1>9 DEF Pass, Walk, Called

\* What a launch pass writes keeps the order placed.
LEMMA PassWrites ==
    ASSUME OrderInv, NEW w \in Worker, Pass(w) \/ TimeOut(w) \/ Crash(w)
    PROVE  status' # "none" /\ workspace' # "none"
  <1>1. status # "none" /\ workspace # "none"
        BY PassMoves DEF OrderInv, Placed
  <1>2. CASE BeginStep(w)
        BY <1>1, <1>2 DEF BeginStep
  <1>3. CASE Checkpoint(w)
        BY <1>1, <1>3 DEF Checkpoint, OrderInv, Placed
  <1>4. CASE Activate(w)
        BY <1>1, <1>4 DEF Activate, Await, Report, row
  <1>5. "ok" \in Answer
        BY DEF Answer
  <1> QED BY <1>1, <1>2, <1>3, <1>4, <1>5, LaunchCallsWriteNothing DEF Pass, Walk, Called

\* Before the order exists nothing was placed.
LEMMA InitPlaced == DeletionInit => Placed
  BY DEF DeletionInit, LaunchInit, OwnersInit, Placed, Start, Unbegun

\* The launch keeps what it was placed for.
LEMMA LaunchPlaced ==
    ASSUME OrderInv, LaunchNext, UNCHANGED dvars
    PROVE  Placed'
  <1>1. UNCHANGED <<deletion, releasing, retiring>>
        BY LaunchAllowed DEF dvars, drow
  <1>2. releasing' \/ retiring' => deletion' # "none"
        BY <1>1 DEF OrderInv, Placed
  <1>3. CASE CreateWorkspace
        BY <1>2, <1>3 DEF CreateWorkspace, pass, OrderInv, Placed
  <1>4. CASE LeaseExpires \/ (WalletDecides /\ UNCHANGED launch)
        BY <1>2, <1>4 DEF LeaseExpires, launch, row, pass, OrderInv, Placed
  <1>5. ASSUME NEW w \in Worker, Lease(w) PROVE Placed'
    <2>1. /\ at \in [Worker -> Place] /\ UNCHANGED <<workspace, status, outcome>> /\ status # "none"
          /\ at' = [at EXCEPT ![w] = Start("load")] /\ Start("load").phase # "save"
          BY <1>5 DEF Lease, Picked, row, Goto, Start, OrderInv, DeletionInv, LaunchInv, LaunchTypeOK
    <2> QED BY <1>2, <2>1 DEF OrderInv, Placed
  <1>6. ASSUME NEW w \in Worker, Pass(w) \/ TimeOut(w) \/ Crash(w) PROVE Placed'
    <2>1. Moves(w) /\ status' # "none" /\ workspace' # "none"
          BY <1>6, PassMoves, PassWrites
    <2>2. ASSUME NEW v \in Worker, at'[v].phase = "save" PROVE outcome'[v].status # "none"
          BY <2>1, <2>2 DEF Moves, OrderInv, Placed
    <2> QED BY <1>2, <2>1, <2>2 DEF Placed
  <1> QED BY <1>3, <1>4, <1>5, <1>6 DEF LaunchNext, Settles

\* Accepting a deletion is a step of the contract.
LEMMA SeenDelete ==
    ASSUME OrderInv, DeleteWorkspace
    PROVE  Allowed /\ Placed'
  <1>1. /\ deletion = "none" /\ deletion' = "accepted" /\ workspace' = "deleting" /\ status # "none"
        /\ UNCHANGED owners /\ UNCHANGED <<at, mem, outcome>> /\ status' # "none"
        BY DEF DeleteWorkspace, pass
  <1>2. workspace \in {"provisioning", "active", "failed"}
        BY <1>1 DEF OrderInv, Placed, DeletionInv, DeletionAgrees, LaunchInv, LaunchTypeOK
  <1>3. UNCHANGED <<order, quote, charge, refund, key, receipts, runtime, retiring, fulfilled,
                    Held, Workload, Funded, Attested>>
        BY <1>1, SameParts DEF owners, gateway, fabric, serve
  <1>4. Closed' = Closed
        BY <1>1 DEF Closed
  <1>5. Allowed
        BY <1>1, <1>2, <1>3, <1>4 DEF Allowed, Contract!Next, Contract!Leave, Contract!Stands
  <1> QED BY <1>1, <1>5 DEF OrderInv, Placed

\* Every step keeps the invariant and the contract.
LEMMA OrderStep ==
    ASSUME OrderInv, [DeletionNext]_allvars
    PROVE  OrderInv' /\ Allowed
  <1>1. DeletionInv'
        BY NextDeletionInv DEF OrderInv
  <1>2. CASE UNCHANGED allvars \/ DLeaseExpires
    <2>1. UNCHANGED owners /\ UNCHANGED launch /\ UNCHANGED deletion
          BY <1>2 DEF allvars, vars, dvars, drow, DLeaseExpires
    <2>2. Allowed /\ UNCHANGED <<releasing, retiring>>
          BY <2>1, StillSeen DEF launch, row
    <2>3. Placed'
          BY <2>1, <2>2 DEF launch, row, pass, OrderInv, Placed
    <2> QED BY <1>1, <2>2, <2>3 DEF OrderInv
  <1>3. CASE LaunchNext /\ UNCHANGED dvars
        BY <1>1, <1>3, LaunchAllowed, LaunchPlaced DEF OrderInv
  <1>4. CASE DeleteWorkspace
        BY <1>1, <1>4, SeenDelete DEF OrderInv
  <1>5. ASSUME NEW d \in Deleter, DLease(d) \/ DPass(d) \/ DTimeOut(d) \/ DCrash(d)
        PROVE  Placed' /\ Allowed
    <2>1. /\ Allowed /\ UNCHANGED <<status, at, outcome>>
          /\ workspace' \in {workspace, "deleted"} /\ deletion' # "none"
          BY <1>5, DeletionAllowed DEF pass
    <2> QED BY <2>1, <1>1 DEF OrderInv, Placed, DeletionInv, DeletionAgrees, Terminal
  <1> QED BY <1>1, <1>2, <1>3, <1>4, <1>5 DEF OrderInv, DeletionNext

-----------------------------------------------------------------------------
(* The theorem.                                                             *)

\* A launch and a deletion of one Workspace, each in any number of passes that
\* overlap, stop and repeat, keep the contract of WorkspaceOrder: every change
\* their owners make is the next step of one order, or is not seen.
THEOREM DeletionKeepsContract == DeletionSpec => KeepsContract
  <1>1. DeletionInit => OrderInv
        BY InitDeletionInv, InitPlaced DEF OrderInv
  <1>2. DeletionInit => Contract!Init
        BY DEF DeletionInit, LaunchInit, OwnersInit, Contract!Init, Held, ResourcesAbsent, Workload,
               Started, Funded, Attested, Closed
  <1>3. OrderInv /\ [DeletionNext]_allvars => OrderInv' /\ [Contract!Next]_(Contract!order)
        BY OrderStep DEF Allowed
  <1> QED BY <1>1, <1>2, <1>3, PTL DEF DeletionSpec, KeepsContract, Contract!Spec

=============================================================================

----------------------- MODULE WorkspaceDeletionProofs -----------------------
(***************************************************************************)
(* Proofs about WorkspaceDeletion for any number of launch and deletion     *)
(* passes. A cancelled launch may still be calling owners while the         *)
(* deletion closes them, and a deletion pass that lost its lease may still  *)
(* be calling them while a second one settles the money. The inductive      *)
(* invariant extends the one of the launch: what a closeout says is true    *)
(* of the owners and stays true, a deletion step is taken only with the     *)
(* evidence that it needs, and money is owed or not owed for good.          *)
(***************************************************************************)
EXTENDS WorkspaceDeletion, WorkspaceLaunchProofs

-----------------------------------------------------------------------------
(* The inductive invariant.                                                 *)

\* Facts of the owners that no step takes back.
Retired == retiring /\ runtime \in {"none", "retired"}
Released == releasing /\ ResourcesAbsent
KeyNeverIssued == key \in {"none", "refused"} /\ (closing \/ ~order.keyed)
NeverCharged == charge = "none" /\ (closing \/ ~order.paid)

\* Nothing is to be refunded, now or later.
NothingOwed == "spent" \in closeout.facts \/ charge = "rejected" \/ NeverCharged

\* What a copy of the closeout says is so.
Evidence(r) ==
    /\ "retired" \in r.facts => Retired
    /\ "deleted_at" \in r.facts => "retired" \in r.facts /\ Released
    /\ "spent" \in r.facts => "deleted_at" \in r.facts /\ fulfilled
    /\ "receipt" \in r.facts => "deleted_at" \in r.facts /\ "deletion" \in receipts
    /\ r.key # "none" => "deleted_at" \in r.facts
    /\ r.key = "confirmed" => key = "disabled"
    /\ r.key = "not_applicable" => KeyNeverIssued
    /\ r.refund # "none" => "receipt" \in r.facts /\ workspace = "deleted"
    /\ r.refund \in Settled => refund = r.refund
    /\ r.refund = "open" => refund # "none"
    /\ r.refund = "not_applicable" => NothingOwed

\* The owners among themselves, and the refund against the stored closeout.
RefundIsDue ==
    /\ set = "absent" => releasing
    /\ key # "none" => order.keyed
    /\ refund # "none" => /\ charge = "confirmed" /\ workspace = "deleted"
                          /\ {"deleted_at", "receipt"} \subseteq closeout.facts
                          /\ "spent" \notin closeout.facts /\ "funding" \in receipts

AfterRetired == DeletionStep \ {"grant", "retire_runtime"}
Settling == {"read_original_charge", "read_original_funding", "read_original_fulfillment",
             "no_refund", "refund", "read_refund", "settle_refund", "complete"}
AfterAbsent == Settling \cup {"no_key", "disable_managed_key", "deletion_receipt", "record_deleted"}
Refunding == {"read_original_funding", "read_original_fulfillment", "refund", "read_refund",
              "settle_refund"}

\* What a deletion step needs of the copy it is taken with.
Evident(s, r) ==
    /\ s \in AfterRetired => "retired" \in r.facts
    /\ s \in AfterAbsent => "deleted_at" \in r.facts
    /\ s = "no_key" => ~order.keyed
    /\ s \in Settling \cup {"deletion_receipt", "record_deleted"} => r.key # "none"
    /\ s \in Settling \cup {"record_deleted"} => "receipt" \in r.facts
    /\ s \in Settling => workspace = "deleted"
    /\ s \in Refunding => charge = "confirmed"
    /\ s \in Refunding /\ s # "read_original_funding" => "funding" \in receipts
    /\ s \in {"refund", "read_refund"} => r.refund \notin Settled /\ "spent" \notin r.facts
    /\ s = "settle_refund" => r.refund \in Settled
    /\ s = "no_refund" => "spent" \in r.facts \/ charge = "rejected" \/ NeverCharged

\* Where a deletion pass stands, what it knows and what it is about to write.
\* Whether the month was spent is decided with the stored deletion time.
DeletionStands(d) ==
    /\ dat[d].step # "idle" => deletion # "none"
    /\ dat[d].step \notin DeletionStep => dat[d].phase = "begin"
    /\ dat[d].step \in DeletionStep /\ dat[d].phase # "save" =>
         /\ Evident(dat[d].step, dmem[d].result)
         /\ dmem[d].result.facts \subseteq closeout.facts
         /\ "deleted_at" \in dmem[d].result.facts /\ "spent" \in closeout.facts
            => "spent" \in dmem[d].result.facts
    /\ dat[d].phase = "save" =>
         /\ dout[d].status \in {"running", "awaiting_confirmation", "needs_attention"}
         /\ dout[d].next \in DeletionStep => Evident(dout[d].next, dmem[d].result)
    /\ dat[d].step \in DeletionStep /\ dholder = d =>
         /\ closeout.facts \subseteq dmem[d].result.facts
         /\ "deleted_at" \in closeout.facts /\ "spent" \in dmem[d].result.facts
            => "spent" \in closeout.facts
         /\ closeout.refund \in Settled => dmem[d].result.refund = closeout.refund

\* The two operations and the Workspace row.
DeletionAgrees ==
    /\ deletion # "none" => status \in Terminal
    /\ deletion # "none" <=> workspace \in {"deleting", "deleted"}
    /\ deletion = "succeeded" => /\ "deleted_at" \in closeout.facts
                                 /\ closeout.key \in {"confirmed", "not_applicable"}
                                 /\ closeout.refund \in {"confirmed", "not_applicable"}

DeletionInv ==
    /\ DeletionTypeOK /\ LaunchInv
    /\ RefundIsDue /\ DeletionAgrees
    /\ Evidence(closeout)
    /\ \A d \in Deleter : Evidence(dmem[d].result) /\ DeletionStands(d)

\* Before the order and the deletion exist the invariant holds.
LEMMA InitDeletionInv == DeletionInit => DeletionInv
  <1> SUFFICES ASSUME DeletionInit PROVE DeletionInv
      OBVIOUS
  <1>1. LaunchInv /\ LaunchInit
        BY InitLaunchInv DEF DeletionInit
  <1>2. NoCloseout \in Closeout /\ NoOutcome \in DeletionOutcome /\ NoMemory \in DeletionMemory
        BY RecoveryLimitAssumption
        DEF NoCloseout, Closeout, KeyCloseout, RefundStatus, Money, NoOutcome, DeletionOutcome, Status,
            NoMemory, DeletionMemory, ExpectedVersion
  <1>3. DStart("idle") \in DeletionPlace /\ DStart("idle").step = "idle" /\ DStart("idle").phase = "begin"
        BY DEF DStart, DeletionUnbegun, DeletionPlace
  <1>4. DeletionTypeOK
        BY <1>1, <1>2, <1>3 DEF DeletionInit, DeletionTypeOK, LaunchInv, Status, ExpectedVersion
  <1>5. RefundIsDue /\ DeletionAgrees
        BY <1>1 DEF DeletionInit, LaunchInit, OwnersInit, RefundIsDue, DeletionAgrees, Terminal
  <1>6. Evidence(NoCloseout)
        BY DEF Evidence, NoCloseout, Settled
  <1>7. ASSUME NEW d \in Deleter PROVE Evidence(dmem[d].result) /\ DeletionStands(d)
    <2>1. dmem[d].result = NoCloseout /\ dat[d] = DStart("idle")
          BY DEF DeletionInit, NoMemory
    <2>2. "idle" \notin DeletionStep
          BY DEF DeletionStep
    <2> QED BY <1>3, <1>6, <2>1, <2>2 DEF DeletionStands
  <1> QED BY <1>1, <1>4, <1>5, <1>6, <1>7 DEF DeletionInv, DeletionInit

-----------------------------------------------------------------------------
(* What no owner takes back.                                                *)

Kept ==
    /\ order' = order
    /\ Retired => Retired'
    /\ Released => Released'
    /\ "funding" \in receipts => "funding" \in receipts'
    /\ "deletion" \in receipts => "deletion" \in receipts'
    /\ key = "disabled" => key' = "disabled"
    /\ KeyNeverIssued => KeyNeverIssued'
    /\ NeverCharged => NeverCharged'
    /\ fulfilled => fulfilled'
    /\ charge \in Settled => charge' = charge
    /\ refund \in Settled => refund' = refund
    /\ refund # "none" => refund' # "none"
    /\ set' = "absent" => releasing'
    /\ key' # "none" => order.keyed

\* Owners that stand still keep everything.
LEMMA KeptStutter ==
    ASSUME DeletionInv, UNCHANGED owners
    PROVE  Kept
  BY DEF DeletionInv, RefundIsDue, Kept, Retired, Released, ResourcesAbsent, KeyNeverIssued,
         NeverCharged, owners, gateway, fabric, serve

\* A closeout that was true stays true, and a step keeps its evidence.
LEMMA EvidenceKept ==
    ASSUME Kept, workspace = "deleted" => workspace' = "deleted",
           "spent" \in closeout.facts => "spent" \in closeout'.facts
    PROVE  /\ \A r : Evidence(r) => Evidence(r)'
           /\ \A s, r : Evident(s, r) => Evident(s, r)'
  <1>1. NothingOwed => NothingOwed'
        BY DEF Kept, NothingOwed, Settled
  <1>2. ASSUME NEW r, Evidence(r) PROVE Evidence(r)'
        BY <1>1, <1>2 DEF Kept, Evidence
  <1>3. ASSUME NEW s, NEW r, Evident(s, r) PROVE Evident(s, r)'
        BY <1>3 DEF Kept, Evident, Settled
  <1> QED BY <1>2, <1>3

\* Catalog's and Ledger's operations.
LEMMA CatalogKept ==
    ASSUME DeletionInv, NEW a, AcceptQuote(a) \/ AppendFunding(a) \/ AppendDeletion(a)
    PROVE  Kept /\ refund' = refund
  BY DEF AcceptQuote, AppendFunding, AppendDeletion, DeletionInv, RefundIsDue, Kept, Retired, Released,
         ResourcesAbsent, KeyNeverIssued, NeverCharged, gateway, fabric, serve

\* Gateway charges no Workspace that it closed, and only an order that is
\* paid is charged.
LEMMA DebitKept ==
    ASSUME DeletionInv, NEW a, Debit(a), order.paid
    PROVE  Kept /\ refund' = refund
  <1>1. /\ closing => charge' = charge
        /\ charge # "none" => charge' = charge
        /\ UNCHANGED <<order, quote, refund, key, closing, receipts, fabric, serve>>
        BY DEF Debit
  <1> QED BY <1>1 DEF DeletionInv, RefundIsDue, Kept, Retired, Released, ResourcesAbsent, KeyNeverIssued,
                      NeverCharged, Settled, fabric, serve

\* An open adjustment is decided.
LEMMA DecidesKept ==
    ASSUME DeletionInv, WalletDecides
    PROVE  Kept /\ (refund' # "none" => refund # "none")
  BY DEF WalletDecides, DeletionInv, RefundIsDue, Kept, Retired, Released, ResourcesAbsent,
         KeyNeverIssued, NeverCharged, Settled, fabric, serve

\* Gateway issues no key for a Workspace that it closed, and the launch asks
\* for one only when the application declares it.
LEMMA CreateKeyKept ==
    ASSUME DeletionInv, NEW a, CreateManagedKey(a), order.keyed
    PROVE  Kept /\ refund' = refund
  BY DEF CreateManagedKey, DeletionInv, RefundIsDue, Kept, Retired, Released, ResourcesAbsent,
         KeyNeverIssued, NeverCharged, fabric, serve

\* Fabric creates nothing behind a recorded deletion.
LEMMA EnsureKept ==
    ASSUME DeletionInv, NEW a, NEW receipt, EnsureResources(receipt, a)
    PROVE  Kept /\ refund' = refund
  <1>1. /\ releasing => set' = set
        /\ set' = "absent" => set = "absent"
        /\ UNCHANGED <<order, quote, gateway, receipts, releasing, serve>>
        BY DEF EnsureResources
  <1> QED BY <1>1 DEF DeletionInv, RefundIsDue, Kept, Retired, Released, ResourcesAbsent, KeyNeverIssued,
                      NeverCharged, gateway, serve

\* Serve neither reserves nor starts behind a recorded retirement.
LEMMA ServeKept ==
    ASSUME DeletionInv, NEW a, Reserve(a) \/ Deploy(a) \/ ReadRuntime(a)
    PROVE  Kept /\ refund' = refund
  <1>1. /\ retiring => runtime' = runtime
        /\ UNCHANGED <<order, quote, gateway, receipts, fabric, retiring>>
        BY DEF Reserve, Deploy, ReadRuntime
  <1>2. fulfilled => fulfilled'
    <2>1. fulfilled' = fulfilled \/ fulfilled' = (fulfilled \/ runtime' = "ready")
          BY DEF Reserve, Deploy, ReadRuntime, Observe
    <2> QED BY <2>1, Zenon
  <1> QED BY <1>1, <1>2
          DEF DeletionInv, RefundIsDue, Kept, Retired, Released, ResourcesAbsent, KeyNeverIssued,
              NeverCharged, gateway, fabric

-----------------------------------------------------------------------------
(* The launch, which may still be calling when the deletion is accepted.    *)

\* Every step of the launch keeps the evidence of the deletion and refunds
\* nothing.
LEMMA LaunchKept ==
    ASSUME DeletionInv, LaunchNext
    PROVE  Kept /\ (refund' # "none" => refund # "none")
  <1>t. LaunchInv /\ (UNCHANGED owners => Kept /\ refund' = refund)
        BY KeptStutter DEF DeletionInv, owners, gateway
  <1>1. CASE CreateWorkspace \/ LeaseExpires \/ (WalletDecides /\ UNCHANGED launch)
        BY <1>1, <1>t, DecidesKept DEF CreateWorkspace, LeaseExpires
  <1>2. ASSUME NEW w \in Worker, NEW heard \in Answer,
               \/ Lease(w) \/ TimeOut(w) \/ Crash(w) \/ Load(w) \/ BeginStep(w) \/ Checkpoint(w)
               \/ Release(w) \/ Activate(w) \/ IssueGrant(w, heard) \/ ReuseCharge(w) \/ RefuseOrder(w)
               \/ ResolveSource(w, heard) \/ FreezeCommand(w)
        PROVE  UNCHANGED owners
        BY <1>2 DEF Lease, TimeOut, Crash, Load, BeginStep, Checkpoint, Release, Activate, IssueGrant,
                    ReuseCharge, RefuseOrder, ResolveSource, FreezeCommand
  <1>3. ASSUME NEW w \in Worker, NEW heard \in Answer,
               ReadChargeStep(w, heard) \/ ReadResourcesStep(w, heard) \/ CloseoutRead(w, heard)
        PROVE  UNCHANGED owners
        BY <1>3, <1>t, AskReadCharge, AskReadResources DEF ReadChargeStep, ReadResourcesStep, CloseoutRead
  <1>4. ASSUME NEW w \in Worker, NEW heard \in Answer,
               AcceptQuoteStep(w, heard) \/ FundingReceipt(w, heard)
        PROVE  Kept /\ refund' = refund
    <2>1. Ask(AcceptQuote, heard) \/ Ask(AppendFunding, heard)
          BY <1>4 DEF AcceptQuoteStep, FundingReceipt
    <2> QED BY <2>1, <1>t, CatalogKept DEF Ask
  <1>5. ASSUME NEW w \in Worker, NEW heard \in Answer, WalletCharge(w, heard)
        PROVE  Kept /\ refund' = refund
    <2>1. Ask(Debit, heard)
          BY <1>5 DEF WalletCharge
    <2>2. order.paid
      <3>1. Calls(w, "wallet_charge") /\ "wallet_charge" \in Step
            BY <1>5 DEF WalletCharge, Step
      <3> QED BY <1>t, <3>1, CallFacts DEF Ready, Charging
    <2> QED BY <2>1, <2>2, <1>t, DebitKept DEF Ask
  <1>6. ASSUME NEW w \in Worker, NEW heard \in Answer,
               IntendResources(w, heard) \/ Provision(w, heard)
        PROVE  Kept /\ refund' = refund
    <2>1. PICK receipt \in BOOLEAN : Ask(LAMBDA a : EnsureResources(receipt, a), heard)
          BY <1>6 DEF IntendResources, Provision
    <2> QED BY <2>1, <1>t, EnsureKept DEF Ask
  <1>7. ASSUME NEW w \in Worker, NEW heard \in Answer, BindManagedKey(w, heard)
        PROVE  Kept /\ refund' = refund
    <2>1. Ask(CreateManagedKey, heard)
          BY <1>7 DEF BindManagedKey
    <2>2. order.keyed
      <3>1. Calls(w, "create_managed_key") /\ "create_managed_key" \in Step
            BY <1>7 DEF BindManagedKey, Step
      <3> QED BY <1>t, <3>1, CallFacts DEF Ready
    <2> QED BY <2>1, <2>2, <1>t, CreateKeyKept DEF Ask
  <1>8. ASSUME NEW w \in Worker, NEW heard \in Answer,
               ReserveRuntime(w, heard) \/ DeployRuntime(w, heard) \/ ReadRuntimeStep(w, heard)
        PROVE  Kept /\ refund' = refund
    <2>1. Ask(Reserve, heard) \/ Ask(Deploy, heard) \/ Ask(ReadRuntime, heard)
          BY <1>8 DEF ReserveRuntime, DeployRuntime, ReadRuntimeStep
    <2> QED BY <2>1, <1>t, ServeKept DEF Ask
  <1>9. "ok" \in Answer
        BY DEF Answer
  <1> QED BY <1>t, <1>1, <1>2, <1>3, <1>4, <1>5, <1>6, <1>7, <1>8, <1>9
          DEF LaunchNext, Settles, Pass, Walk, Called

\* A launch that ended writes no row any more; an open one never writes that
\* the Workspace is being deleted.
LEMMA LaunchRows ==
    ASSUME LaunchNext
    PROVE  \/ UNCHANGED <<workspace, status>>
           \/ status \notin Terminal /\ workspace' \in {workspace, "provisioning", "failed", "active"}
  <1>1. CASE CreateWorkspace \/ LeaseExpires \/ (WalletDecides /\ UNCHANGED launch)
        BY <1>1 DEF CreateWorkspace, LeaseExpires, launch, row, Terminal
  <1>2. ASSUME NEW w \in Worker,
               \/ Lease(w) \/ TimeOut(w) \/ Crash(w) \/ Load(w) \/ Release(w)
        PROVE  UNCHANGED <<workspace, status>>
        BY <1>2 DEF Lease, TimeOut, Crash, Load, Release, Proceed, row
  <1>3. ASSUME NEW w \in Worker, BeginStep(w) \/ Checkpoint(w) \/ Activate(w)
        PROVE  \/ UNCHANGED <<workspace, status>>
               \/ status \notin Terminal /\ workspace' \in {workspace, "provisioning", "failed", "active"}
        BY <1>3 DEF BeginStep, Checkpoint, Activate, Holds, Await, Report, row
  <1>4. ASSUME NEW w \in Worker, NEW heard \in Answer,
               \/ IssueGrant(w, heard) \/ AcceptQuoteStep(w, heard) \/ IntendResources(w, heard)
               \/ WalletCharge(w, heard)
               \/ ReadChargeStep(w, heard) \/ ReuseCharge(w) \/ RefuseOrder(w)
               \/ FundingReceipt(w, heard)
        PROVE  UNCHANGED <<workspace, status>>
        BY <1>4 DEF IssueGrant, AcceptQuoteStep, IntendResources, WalletCharge, ReadChargeStep,
                    ReuseCharge, RefuseOrder, FundingReceipt, FinishCharge, Settled, Await, Report,
                    Proceed, row
  <1>5. ASSUME NEW w \in Worker, NEW heard \in Answer,
               \/ Provision(w, heard) \/ ReadResourcesStep(w, heard) \/ CloseoutRead(w, heard)
               \/ ResolveSource(w, heard)
               \/ ReserveRuntime(w, heard) \/ BindManagedKey(w, heard) \/ FreezeCommand(w)
               \/ DeployRuntime(w, heard)
               \/ ReadRuntimeStep(w, heard)
        PROVE  UNCHANGED <<workspace, status>>
        BY <1>5 DEF Provision, ReadResourcesStep, CloseoutRead, ResolveSource, ReserveRuntime,
                    BindManagedKey, FreezeCommand, DeployRuntime, ReadRuntimeStep, Await, Report,
                    Proceed, row
  <1>6. "ok" \in Answer
        BY DEF Answer
  <1> QED BY <1>1, <1>2, <1>3, <1>4, <1>5, <1>6 DEF LaunchNext, Settles, Pass, Walk, Called

\* The deletion's invariant is kept by the launch.
LEMMA LaunchSteps ==
    ASSUME DeletionInv, LaunchNext, UNCHANGED dvars
    PROVE  DeletionInv'
  <1>1. LaunchInv' /\ LaunchTypeOK'
        BY NextLaunchInv DEF DeletionInv, LaunchInv
  <1>2. UNCHANGED <<deletion, closeout, command, dholder, dat, dmem, dout>>
        BY DEF dvars, drow, dpass
  <1>3. DeletionTypeOK'
        BY <1>1, <1>2 DEF DeletionInv, DeletionTypeOK
  <1>4. Kept /\ (refund' # "none" => refund # "none")
        BY LaunchKept
  <1>5. DeletionAgrees' /\ (workspace = "deleted" => workspace' = "deleted")
        BY <1>2, LaunchRows DEF DeletionInv, DeletionAgrees
  <1>6. RefundIsDue'
        BY <1>2, <1>4, <1>5 DEF DeletionInv, RefundIsDue, Kept, Settled
  <1>7. /\ \A r : Evidence(r) => Evidence(r)'
        /\ \A s, r : Evident(s, r) => Evident(s, r)'
        BY <1>2, <1>4, <1>5, EvidenceKept
  <1>8. Evidence(closeout)'
        BY <1>2, <1>7 DEF DeletionInv, Evidence
  <1>9. ASSUME NEW d \in Deleter PROVE Evidence(dmem[d].result)' /\ DeletionStands(d)'
    <2>1. Evidence(dmem[d].result) /\ DeletionStands(d)
          BY DEF DeletionInv
    <2>2. Evidence(dmem[d].result)'
          BY <1>2, <1>7, <2>1 DEF Evidence
    <2>3. /\ Evident(dat[d].step, dmem[d].result) => Evident(dat[d].step, dmem[d].result)'
          /\ Evident(dout[d].next, dmem[d].result) => Evident(dout[d].next, dmem[d].result)'
          BY <1>2, <1>7 DEF Evident
    <2>4. DeletionStands(d)'
          BY <1>2, <2>1, <2>3 DEF DeletionStands
    <2> QED BY <2>2, <2>4
  <1> QED BY <1>1, <1>3, <1>5, <1>6, <1>8, <1>9 DEF DeletionInv

-----------------------------------------------------------------------------
(* What the deletion asks of the owners: it begins nothing anew.            *)

Due == /\ charge = "confirmed" /\ workspace = "deleted" /\ "funding" \in receipts
       /\ {"deleted_at", "receipt"} \subseteq closeout.facts /\ "spent" \notin closeout.facts

Moved ==
    /\ Kept /\ OwnersKeep /\ OwnersAgree'
    /\ charge' = charge
    /\ set' # "none" => set # "none"
    /\ runtime' \in Started => runtime \in Started
    /\ refund' # "none" => refund # "none" \/ Due

\* Owners that stand still.
LEMMA StillMoved ==
    ASSUME DeletionInv, UNCHANGED owners
    PROVE  Moved
  BY KeptStutter, OwnersStutter DEF DeletionInv, Moved, owners, gateway, fabric, serve

\* Serve retires.
LEMMA AskRetire ==
    ASSUME DeletionInv, NEW heard \in Answer, Ask(Retire, heard)
    PROVE  Moved /\ (heard = "ok" => Retired')
  <1>t. OwnersTypeOK /\ OwnersAgree /\ RefundIsDue
        BY DEF DeletionInv, LaunchInv, LaunchTypeOK
  <1>1. CASE UNCHANGED owners /\ heard = "lost"
        BY <1>1, StillMoved
  <1>2. ASSUME NEW a \in Answer, Retire(a), a = heard \/ heard = "lost"
        PROVE  Moved /\ (heard = "ok" => Retired')
    <2>1. /\ retiring' = TRUE
          /\ runtime' \in {runtime, "retired"} /\ (runtime = "none" => runtime' = "none")
          /\ runtime \notin Started => runtime' \in {"none", "retired"}
          /\ a = "ok" => runtime' \notin Started
          /\ UNCHANGED <<order, quote, gateway, receipts, fabric, fulfilled>>
          BY <1>2, <1>t DEF Retire, OwnersTypeOK, Started
    <2>2. OwnersKeep
          BY <1>t, <2>1 DEF OwnersKeep, OwnersTypeOK, gateway, fabric, Started
    <2>3. OwnersAgree'
          BY <1>t, <2>1 DEF OwnersAgree, gateway, fabric
    <2>4. Kept
          BY <1>t, <2>1 DEF Kept, RefundIsDue, Retired, Released, ResourcesAbsent, KeyNeverIssued,
                            NeverCharged, gateway, fabric
    <2>5. a = "ok" => Retired'
          BY <1>2, <2>1 DEF Retire, Retired
    <2> QED BY <1>2, <2>1, <2>2, <2>3, <2>4, <2>5 DEF Moved, gateway, fabric, Started
  <1> QED BY <1>1, <1>2 DEF Ask

\* Fabric releases.
LEMMA AskDeleteResources ==
    ASSUME DeletionInv, NEW heard \in Answer, NEW version,
           Ask(LAMBDA a : DeleteResources(version, a), heard)
    PROVE  Moved
  <1>t. OwnersTypeOK /\ OwnersAgree /\ RefundIsDue
        BY DEF DeletionInv, LaunchInv, LaunchTypeOK
  <1>1. CASE UNCHANGED owners
        BY <1>1, StillMoved
  <1>2. ASSUME NEW a \in Answer, DeleteResources(version, a)
        PROVE  Moved
    <2>1. /\ \/ set' = set
             \/ set = "provisioned" /\ set' = "absent" /\ releasing'
          /\ releasing' \in BOOLEAN /\ (releasing => releasing')
          /\ UNCHANGED <<order, quote, gateway, receipts, serve>>
          BY <1>2, <1>t DEF DeleteResources, fabric, OwnersTypeOK
    <2>2. OwnersKeep
          BY <1>t, <2>1 DEF OwnersKeep, OwnersTypeOK, gateway, serve
    <2>3. OwnersAgree'
          BY <1>t, <2>1 DEF OwnersAgree, gateway, serve
    <2>4. Kept
          BY <1>t, <2>1 DEF Kept, RefundIsDue, Retired, Released, ResourcesAbsent, KeyNeverIssued,
                            NeverCharged, gateway, serve, OwnersTypeOK
    <2> QED BY <2>1, <2>2, <2>3, <2>4 DEF Moved, gateway, serve
  <1> QED BY <1>1, <1>2 DEF Ask

\* Fabric's readback: absence is the absence of a set that was released.
LEMMA AskAbsent ==
    ASSUME DeletionInv, NEW heard \in Answer, Ask(ReadResources, heard)
    PROVE  Moved /\ UNCHANGED owners /\ (heard = "absent" => Released)
  <1>1. UNCHANGED owners
        BY AskReadResources
  <1>2. heard = "absent" => ResourcesAbsent
        BY DEF Ask, ReadResources
  <1> QED BY <1>1, <1>2, StillMoved DEF DeletionInv, RefundIsDue, Released, ResourcesAbsent

\* Gateway's closeout of the key, of a finished or an unfinished order.
LEMMA AskCloseKey ==
    ASSUME DeletionInv, NEW heard \in Answer,
           Ask(LAMBDA a : IF Unfinished THEN CloseManagedKey(a) ELSE DisableManagedKey(a), heard)
    PROVE  /\ Moved
           /\ heard = "ok" => key' = "disabled"
           /\ heard = "absent" => KeyNeverIssued'
  <1>t. OwnersTypeOK /\ OwnersAgree /\ RefundIsDue
        BY DEF DeletionInv, LaunchInv, LaunchTypeOK
  <1>1. CASE UNCHANGED owners /\ heard = "lost"
        BY <1>1, StillMoved
  <1>2. ASSUME NEW a \in Answer, CloseManagedKey(a) \/ DisableManagedKey(a), a = heard \/ heard = "lost"
        PROVE  /\ Moved
               /\ heard = "ok" => key' = "disabled"
               /\ heard = "absent" => KeyNeverIssued'
    <2>1. /\ \/ key' = key
             \/ key \in {"issued", "disabled"} /\ key' = "disabled"
          /\ closing' \in BOOLEAN /\ (closing => closing')
          /\ UNCHANGED <<order, quote, charge, refund, receipts, fabric, serve>>
          /\ a = "ok" => key' = "disabled"
          /\ a = "absent" => key' \in {"none", "refused"} /\ closing'
          BY <1>2, <1>t DEF CloseManagedKey, DisableManagedKey, OwnersTypeOK
    <2>2. OwnersKeep
          BY <1>t, <2>1 DEF OwnersKeep, OwnersTypeOK, fabric, serve
    <2>3. OwnersAgree'
          BY <1>t, <2>1 DEF OwnersAgree, fabric, serve
    <2>4. Kept
          BY <1>t, <2>1 DEF Kept, RefundIsDue, Retired, Released, ResourcesAbsent, KeyNeverIssued,
                            NeverCharged, fabric, serve
    <2> QED BY <1>2, <2>1, <2>2, <2>3, <2>4 DEF Moved, KeyNeverIssued, fabric, serve
  <1> QED BY <1>1, <1>2 DEF Ask

\* Ledger's evidence of the deletion, and its receipt of the charge.
LEMMA AskLedger ==
    ASSUME DeletionInv, NEW heard \in Answer,
           Ask(AppendDeletion, heard) \/ Ask(AppendFunding, heard)
    PROVE  Moved /\ (heard = "ok" /\ Ask(AppendDeletion, heard) => "deletion" \in receipts')
  <1>t. OwnersTypeOK /\ OwnersAgree /\ RefundIsDue /\ LaunchInv
        BY DEF DeletionInv, LaunchInv, LaunchTypeOK
  <1>1. CASE UNCHANGED owners /\ heard = "lost"
        BY <1>1, StillMoved
  <1>2. ASSUME NEW a \in Answer, AppendDeletion(a)
        PROVE  Moved /\ "deletion" \in receipts'
    <2>1. /\ receipts' = receipts \cup {"deletion"}
          /\ UNCHANGED <<order, quote, gateway, fabric, serve>>
          BY <1>2 DEF AppendDeletion
    <2>2. OwnersKeep
          BY <1>t, <2>1 DEF OwnersKeep, OwnersTypeOK, gateway, fabric, serve
    <2>3. OwnersAgree'
          BY <1>t, <2>1 DEF OwnersAgree, gateway, fabric, serve
    <2> QED BY <1>2, <2>1, <2>2, <2>3, CatalogKept DEF Moved, gateway, fabric, serve
  <1>3. CASE Ask(AppendFunding, heard)
    <2>1. OwnersKeep /\ OwnersAgree' /\ UNCHANGED <<charge, set, runtime>>
          BY <1>t, <1>3, AskAppendFunding
    <2>2. ASSUME UNCHANGED owners PROVE Moved
          BY <2>2, StillMoved
    <2>3. ASSUME NEW a \in Answer, AppendFunding(a) PROVE Moved
          BY <2>1, <2>3, CatalogKept DEF Moved
    <2>4. Moved
          BY <1>3, <2>2, <2>3 DEF Ask
    <2>5. ASSUME heard = "ok", Ask(AppendDeletion, heard) PROVE "deletion" \in receipts'
          BY <1>2, <2>5 DEF Ask
    <2> QED BY <2>4, <2>5
  <1>4. CASE Ask(AppendDeletion, heard)
        BY <1>1, <1>2, <1>4 DEF Ask
  <1> QED BY <1>3, <1>4

\* Gateway's answer behind its barrier: an absent charge stays absent.
LEMMA AskClosedCharge ==
    ASSUME DeletionInv, NEW heard \in Answer, Ask(ReadClosedCharge, heard)
    PROVE  /\ Moved /\ UNCHANGED owners
           /\ heard = "absent" => NeverCharged
           /\ heard \in Settled => charge = heard
  <1>1. UNCHANGED owners
        BY DEF Ask, ReadClosedCharge
  <1>2. /\ heard = "absent" => NeverCharged
        /\ heard \in Settled => charge = heard
    <2>1. charge \in Money
          BY DEF DeletionInv, LaunchInv, LaunchTypeOK, OwnersTypeOK
    <2>2. CASE heard = "lost"
          BY <2>2 DEF Settled
    <2>3. CASE ReadClosedCharge(heard)
          BY <2>1, <2>3 DEF ReadClosedCharge, WalletAnswers, NeverCharged, Settled, Money
    <2> QED BY <2>2, <2>3 DEF Ask
  <1> QED BY <1>1, <1>2, StillMoved

\* Reads of the retired delivery and of the refund.
LEMMA AskReads ==
    ASSUME DeletionInv, NEW heard \in Answer, Ask(ReadRetired, heard) \/ Ask(ReadRefund, heard)
    PROVE  /\ Moved /\ UNCHANGED owners
           /\ Ask(ReadRefund, heard) => /\ heard \in Settled => refund = heard
                                        /\ heard = "open" => refund # "none"
  <1>1. UNCHANGED owners
        BY DEF Ask, ReadRetired, ReadRefund
  <1>2. Ask(ReadRefund, heard) => /\ heard \in Settled => refund = heard
                                  /\ heard = "open" => refund # "none"
        BY DEF Ask, ReadRefund, WalletAnswers, Settled
  <1> QED BY <1>1, <1>2, StillMoved

\* The wallet refunds what is due, once, and its definite answers are true.
LEMMA AskRefund ==
    ASSUME DeletionInv, NEW heard \in Answer, Ask(Refund, heard), Due
    PROVE  /\ Moved
           /\ heard \in Settled => refund' = heard
           /\ heard = "open" => refund' # "none"
  <1>t. OwnersTypeOK /\ OwnersAgree /\ RefundIsDue
        BY DEF DeletionInv, LaunchInv, LaunchTypeOK
  <1>1. CASE UNCHANGED owners /\ heard = "lost"
        BY <1>1, StillMoved DEF Settled
  <1>2. ASSUME NEW a \in Answer, Refund(a), a = heard \/ heard = "lost"
        PROVE  /\ Moved
               /\ heard \in Settled => refund' = heard
               /\ heard = "open" => refund' # "none"
    <2>1. /\ refund' \in Money /\ (refund # "none" => refund' = refund)
          /\ a \in Settled => refund' = a
          /\ a = "open" => refund' # "none"
          /\ UNCHANGED <<order, quote, charge, key, closing, receipts, fabric, serve>>
          BY <1>2, <1>t DEF Refund, OwnersTypeOK, Money, Settled
    <2>2. OwnersKeep
          BY <1>t, <2>1 DEF OwnersKeep, OwnersTypeOK, fabric, serve
    <2>3. OwnersAgree'
          BY <1>t, <2>1 DEF OwnersAgree, fabric, serve
    <2>4. Kept
          BY <1>t, <2>1 DEF Kept, RefundIsDue, Retired, Released, ResourcesAbsent, KeyNeverIssued,
                            NeverCharged, Settled, fabric, serve
    <2> QED BY <1>2, <2>1, <2>2, <2>3, <2>4 DEF Moved, Settled, fabric, serve
  <1> QED BY <1>1, <1>2 DEF Ask

-----------------------------------------------------------------------------
(* How a deletion pass moves.                                               *)

\* The launch keeps its invariant when the deletion moves the owners, ends
\* the launch's lease or writes the Workspace row.
LEMMA LaunchStands ==
    ASSUME DeletionInv, Moved, UNCHANGED <<pass, result, subscribed>>, holder' \in {holder, None},
           workspace' \in {workspace, "deleting", "deleted"},
           status' = status \/ (status \notin Terminal /\ status' = "cancelled")
    PROVE  LaunchInv'
  <1>t. LaunchInv /\ LaunchTypeOK /\ RowAgrees
        BY DEF DeletionInv, LaunchInv
  <1>1. Recorded'
        BY <1>t, RecordedKept DEF Moved, Kept
  <1>2. /\ workspace' \in {"none", "provisioning", "active", "failed", "deleting", "deleted"}
        /\ status' \in Status
        /\ workspace' = "active" => workspace = "active"
        /\ status' \in {"failed", "succeeded"} => status' = status
        /\ subscribed => status' = status
        BY <1>t DEF LaunchTypeOK, RowAgrees, Status, Terminal
  <1> QED BY <1>t, <1>1, <1>2, RowStep DEF Moved

\* The refund is still due when the closeout keeps what it says.
LEMMA StillDue ==
    ASSUME DeletionInv, Moved, workspace = "deleted" => workspace' = "deleted",
           closeout.facts \subseteq closeout'.facts,
           "deleted_at" \in closeout.facts /\ "spent" \in closeout'.facts => "spent" \in closeout.facts
    PROVE  RefundIsDue'
  BY DEF DeletionInv, RefundIsDue, Moved, Kept, Due

\* The other deletion passes stand as they did when one moves, a lease ends
\* or passes to it, or its holder writes what it knows.
LEMMA OthersClose ==
    ASSUME DeletionInv, Kept, workspace = "deleted" => workspace' = "deleted",
           deletion # "none" => deletion' # "none",
           NEW d \in Deleter, dholder' \in {dholder, None, d},
           \/ closeout' = closeout
           \/ /\ dholder' = d /\ closeout.facts \subseteq closeout'.facts
              /\ "deleted_at" \in closeout.facts /\ "spent" \in closeout'.facts
                 => "spent" \in closeout.facts,
           NEW v \in Deleter, v # d,
           dat'[v] = dat[v], dmem'[v] = dmem[v], dout'[v] = dout[v]
    PROVE  Evidence(dmem[v].result)' /\ DeletionStands(v)'
  <1>1. Evidence(dmem[v].result) /\ DeletionStands(v)
        BY DEF DeletionInv
  <1>2. /\ \A r : Evidence(r) => Evidence(r)'
        /\ \A s, r : Evident(s, r) => Evident(s, r)'
        BY EvidenceKept
  <1>3. Evidence(dmem[v].result)'
        BY <1>1, <1>2 DEF Evidence
  <1>4. /\ Evident(dat[v].step, dmem[v].result) => Evident(dat[v].step, dmem[v].result)'
        /\ Evident(dout[v].next, dmem[v].result) => Evident(dout[v].next, dmem[v].result)'
    <2>1. PICK s, z, r : s = dat[v].step /\ z = dout[v].next /\ r = dmem[v].result
          OBVIOUS
    <2>2. (Evident(s, r) => Evident(s, r)') /\ (Evident(z, r) => Evident(z, r)')
          BY <1>2
    <2>3. /\ Evident(s, r)' => Evident(dat[v].step, dmem[v].result)'
          /\ Evident(z, r)' => Evident(dout[v].next, dmem[v].result)'
          BY <2>1 DEF Evident
    <2> QED BY <2>1, <2>2, <2>3
  <1>5. dholder' = v => dholder = v /\ closeout' = closeout
        BY DeleterAssumption
  <1>6. ASSUME dmem[v].result.facts \subseteq closeout.facts,
               "deleted_at" \in dmem[v].result.facts /\ "spent" \in closeout.facts
               => "spent" \in dmem[v].result.facts
        PROVE  /\ dmem[v].result.facts \subseteq closeout'.facts
               /\ "deleted_at" \in dmem[v].result.facts /\ "spent" \in closeout'.facts
                  => "spent" \in dmem[v].result.facts
        BY <1>6
  <1>7. DeletionStands(v)'
        BY <1>1, <1>4, <1>5, <1>6 DEF DeletionStands
  <1> QED BY <1>3, <1>7

\* A step of one deletion pass that writes no row.
LEMMA DeletionPassStep ==
    ASSUME DeletionInv, Moved, NEW d \in Deleter,
           NEW place \in DeletionPlace, NEW m \in DeletionMemory, NEW o \in DeletionOutcome,
           dat' = [dat EXCEPT ![d] = place], dmem' = [dmem EXCEPT ![d] = m],
           dout' = [dout EXCEPT ![d] = o], UNCHANGED <<launch, drow, dholder>>,
           Evidence(m.result)', DeletionStands(d)'
    PROVE  DeletionInv'
  <1>t. DeletionTypeOK
        BY DEF DeletionInv
  <1>1. /\ UNCHANGED <<workspace, status, result, subscribed, holder, pass>>
        /\ UNCHANGED <<deletion, closeout, command, dholder>>
        BY DEF launch, row, drow
  <1>2. LaunchInv' /\ LaunchTypeOK'
    <2>1. LaunchInv'
          BY <1>1, LaunchStands
    <2> QED BY <2>1 DEF LaunchInv
  <1>3. DeletionTypeOK'
        BY <1>t, <1>1, <1>2 DEF DeletionTypeOK
  <1>4. RefundIsDue'
        BY <1>1, StillDue
  <1>5. DeletionAgrees'
        BY <1>1 DEF DeletionInv, DeletionAgrees
  <1>6. Evidence(closeout)'
    <2>1. \A r : Evidence(r) => Evidence(r)'
          BY <1>1, EvidenceKept DEF Moved
    <2> QED BY <1>1, <2>1 DEF DeletionInv, Evidence
  <1>7. ASSUME NEW v \in Deleter PROVE Evidence(dmem[v].result)' /\ DeletionStands(v)'
    <2>1. CASE v = d
      <3>1. dmem'[v] = m
            BY <1>t, <2>1 DEF DeletionTypeOK
      <3> QED BY <2>1, <3>1 DEF Evidence
    <2>2. CASE v # d
      <3>1. dat'[v] = dat[v] /\ dmem'[v] = dmem[v] /\ dout'[v] = dout[v]
            BY <1>t, <2>2 DEF DeletionTypeOK
      <3> QED BY <1>1, <2>2, <3>1, OthersClose DEF Moved
    <2> QED BY <2>1, <2>2
  <1> QED BY <1>2, <1>3, <1>4, <1>5, <1>6, <1>7 DEF DeletionInv

\* Counting the passes touches neither the facts nor the money.
LEMMA CountedFacts ==
    ASSUME NEW r \in Closeout, NEW s, NEW stepKey \in StepKey, NEW confirmed \in BOOLEAN
    PROVE  /\ Counted(r, s, stepKey, confirmed) \in Closeout
           /\ Counted(r, s, stepKey, confirmed).facts = r.facts
           /\ Counted(r, s, stepKey, confirmed).key = r.key
           /\ Counted(r, s, stepKey, confirmed).refund = r.refund
  <1> DEFINE before == IF r.pending = stepKey THEN r.attempts ELSE 0
             more == IF before < RecoveryLimit THEN before + 1 ELSE before
  <1>1. before \in 0 .. RecoveryLimit
        BY RecoveryLimitAssumption DEF Closeout
  <1> HIDE DEF before
  <1>2. more \in 0 .. RecoveryLimit
        BY <1>1, RecoveryLimitAssumption
  <1> HIDE DEF more
  <1>3. Counted(r, s, stepKey, confirmed)
          \in {r, [r EXCEPT !.pending = stepKey, !.attempts = more],
               [r EXCEPT !.pending = "none", !.attempts = 0]}
        BY DEF Counted, before, more
  <1>4. 0 \in 0 .. RecoveryLimit
        BY RecoveryLimitAssumption
  <1> QED BY <1>2, <1>3, <1>4 DEF Closeout

\* What a deletion pass has when it calls an owner.
LEMMA DeletionCallFacts ==
    ASSUME DeletionInv, NEW d \in Deleter, NEW s \in DeletionStep, DCalls(d, s)
    PROVE  /\ dat[d].step = s /\ dat[d].phase = "call" /\ dat[d].step \in DeletionStep
           /\ dmem[d] \in DeletionMemory /\ dmem[d].result \in Closeout
           /\ Evidence(dmem[d].result) /\ Evident(s, dmem[d].result)
           /\ dmem[d].result.facts \subseteq closeout.facts
           /\ "deleted_at" \in dmem[d].result.facts /\ "spent" \in closeout.facts
              => "spent" \in dmem[d].result.facts
  <1>1. dat[d].step = s /\ dat[d].phase = "call"
        BY DEF DCalls
  <1>2. dmem[d] \in DeletionMemory /\ Evidence(dmem[d].result) /\ DeletionStands(d)
        BY DEF DeletionInv, DeletionTypeOK
  <1> QED BY <1>1, <1>2 DEF DeletionStands, DeletionMemory

\* A deletion step that reports.
LEMMA DeletionReportStep ==
    ASSUME DeletionInv, Moved, NEW d \in Deleter,
           dat[d].step \in DeletionStep, dat[d].phase = "call",
           NEW r \in Closeout, NEW s \in {"running", "awaiting_confirmation", "needs_attention"},
           NEW stepKey \in StepKey, NEW confirmed \in BOOLEAN, NEW next \in DeletionStep \cup {"end"},
           DReport(d, r, s, stepKey, confirmed, next),
           Evidence(r)', next \in DeletionStep => Evident(next, r)',
           dmem[d].result.facts \subseteq r.facts,
           "spent" \in r.facts
           => "spent" \in dmem[d].result.facts \/ "deleted_at" \notin dmem[d].result.facts,
           dmem[d].result.refund \in Settled => r.refund = dmem[d].result.refund
    PROVE  DeletionInv'
  <1>0. PICK c, saved, place, m, o :
          /\ c = Counted(r, s, stepKey, confirmed)
          /\ saved = IF s = "awaiting_confirmation" /\ AtLimit(c) THEN "needs_attention" ELSE s
          /\ place = [dat[d] EXCEPT !.phase = "save"]
          /\ m = [dmem[d] EXCEPT !.result = c]
          /\ o = [status |-> saved, next |-> next]
        OBVIOUS
  <1>t. /\ DeletionTypeOK /\ dat[d] \in DeletionPlace /\ dmem[d] \in DeletionMemory
        /\ DeletionStands(d)
        BY DEF DeletionInv, DeletionTypeOK
  <1>1. c \in Closeout /\ c.facts = r.facts /\ c.key = r.key /\ c.refund = r.refund
        BY <1>0, CountedFacts
  <1>2. saved \in {"running", "awaiting_confirmation", "needs_attention"}
        BY <1>0
  <1>3. /\ dat' = [dat EXCEPT ![d] = place] /\ dmem' = [dmem EXCEPT ![d] = m]
        /\ dout' = [dout EXCEPT ![d] = o] /\ UNCHANGED <<launch, drow, dholder>>
        BY <1>0 DEF DReport
  <1>4. /\ place \in DeletionPlace /\ place.step = dat[d].step /\ place.phase = "save"
        /\ m \in DeletionMemory /\ m.result = c
        /\ o \in DeletionOutcome /\ o.status = saved /\ o.next = next
        BY <1>0, <1>t, <1>1, <1>2 DEF DeletionPlace, DeletionMemory, DeletionOutcome, Status
  <1>5. dat'[d] = place /\ dmem'[d] = m /\ dout'[d] = o
        BY <1>t, <1>3 DEF DeletionTypeOK
  <1>6. Evidence(m.result)'
        BY <1>1, <1>4 DEF Evidence
  <1>7. next \in DeletionStep => Evident(dout[d].next, dmem[d].result)'
        BY <1>1, <1>4, <1>5 DEF Evident
  <1>8. UNCHANGED <<deletion, closeout, dholder>>
        BY <1>3 DEF drow
  <1>9. DeletionStands(d)'
        BY <1>t, <1>1, <1>2, <1>4, <1>5, <1>7, <1>8 DEF DeletionStands
  <1> QED BY <1>3, <1>4, <1>6, <1>9, DeletionPassStep

\* The answer decided nothing.
LEMMA DeletionAwaitStep ==
    ASSUME DeletionInv, Moved, NEW d \in Deleter,
           dat[d].step \in DeletionStep, dat[d].phase = "call",
           NEW stepKey \in StepKey, DAwait(d, stepKey)
    PROVE  DeletionInv'
  <1>1. PICK r : r = dmem[d].result
        OBVIOUS
  <1>2. r \in Closeout /\ Evidence(r)
        BY <1>1 DEF DeletionInv, DeletionTypeOK, DeletionMemory
  <1>3. DReport(d, r, "awaiting_confirmation", stepKey, FALSE, "end")
        BY <1>1 DEF DAwait
  <1>4. Evidence(r)'
    <2>1. UNCHANGED <<workspace, closeout>>
          BY <1>3 DEF DReport, launch, row, drow
    <2> QED BY <1>2, <2>1, EvidenceKept DEF Moved
  <1>5. "end" \notin DeletionStep
        BY DEF DeletionStep
  <1> QED BY <1>1, <1>2, <1>3, <1>4, <1>5, DeletionReportStep

\* A deletion step that goes on without a write learns at most a version.
LEMMA DeletionProceedStep ==
    ASSUME DeletionInv, Moved, NEW d \in Deleter,
           dat[d].step \in DeletionStep, dat[d].phase = "call",
           NEW m \in DeletionMemory, m.result = dmem[d].result,
           NEW s \in DeletionStep, DProceed(d, m, DStart(s)),
           Evident(s, m.result) \/ Evident(s, m.result)'
    PROVE  DeletionInv'
  <1>t. DeletionTypeOK /\ dout[d] \in DeletionOutcome /\ Evidence(dmem[d].result) /\ DeletionStands(d)
        BY DEF DeletionInv, DeletionTypeOK
  <1>1. PICK place, o : place = DStart(s) /\ o = dout[d]
        OBVIOUS
  <1>2. /\ place \in DeletionPlace /\ place.step = s /\ place.phase # "save"
        /\ "idle" \notin DeletionStep
        BY <1>1 DEF DStart, DeletionPlace, DeletionStep
  <1>3. /\ dat' = [dat EXCEPT ![d] = place] /\ dmem' = [dmem EXCEPT ![d] = m]
        /\ dout' = [dout EXCEPT ![d] = o] /\ UNCHANGED <<launch, drow, dholder>>
        BY <1>t, <1>1 DEF DProceed, DGoto, DeletionTypeOK
  <1>4. dat'[d] = place /\ dmem'[d] = m /\ o \in DeletionOutcome
        BY <1>t, <1>1, <1>3 DEF DeletionTypeOK
  <1>5. UNCHANGED <<workspace, deletion, closeout, dholder>>
        BY <1>3 DEF launch, row, drow
  <1>6. /\ \A r : Evidence(r) => Evidence(r)'
        /\ \A z, r : Evident(z, r) => Evident(z, r)'
        BY <1>5, EvidenceKept DEF Moved
  <1>7. Evidence(m.result)'
        BY <1>t, <1>6
  <1>8. Evident(dat[d].step, dmem[d].result)'
    <2>1. Evident(s, m.result)'
          BY <1>6
    <2> QED BY <1>2, <1>4, <2>1 DEF Evident
  <1>9. DeletionStands(d)'
        BY <1>t, <1>2, <1>4, <1>5, <1>8 DEF DeletionStands
  <1> QED BY <1>2, <1>3, <1>4, <1>7, <1>9, DeletionPassStep

\* A deletion pass that ends, or whose process dies, relies on nothing.
LEMMA CloseLeft ==
    ASSUME DeletionInv, NEW d \in Deleter, NEW s \in {"idle", "end"},
           DGoto(d, DStart(s)), dmem' = [dmem EXCEPT ![d] = NoMemory],
           dout' = [dout EXCEPT ![d] = NoOutcome], s = "end" => deletion' # "none"
    PROVE  /\ DStart(s) \in DeletionPlace /\ NoMemory \in DeletionMemory
           /\ NoOutcome \in DeletionOutcome
           /\ dat' = [dat EXCEPT ![d] = DStart(s)]
           /\ Evidence(NoMemory.result)' /\ Evidence(dmem[d].result)' /\ DeletionStands(d)'
  <1>t. DeletionTypeOK
        BY DEF DeletionInv
  <1>1. /\ DStart(s) \in DeletionPlace /\ DStart(s).step = s /\ DStart(s).phase = "begin"
        /\ s \notin DeletionStep
        BY DEF DStart, DeletionUnbegun, DeletionPlace, DeletionStep
  <1>2. NoMemory \in DeletionMemory /\ NoOutcome \in DeletionOutcome /\ NoMemory.result = NoCloseout
        BY RecoveryLimitAssumption
        DEF NoCloseout, Closeout, KeyCloseout, RefundStatus, Money, NoOutcome, DeletionOutcome, Status,
            NoMemory, DeletionMemory, ExpectedVersion
  <1>3. dat'[d] = DStart(s) /\ dmem'[d] = NoMemory /\ dat' = [dat EXCEPT ![d] = DStart(s)]
        BY <1>t, <1>1 DEF DeletionTypeOK, DGoto
  <1>4. Evidence(NoMemory.result)' /\ Evidence(dmem[d].result)'
        BY <1>2, <1>3 DEF Evidence, NoCloseout, Settled
  <1>5. DeletionStands(d)'
        BY <1>1, <1>3 DEF DeletionStands
  <1> QED BY <1>1, <1>2, <1>3, <1>4, <1>5

\* A deletion pass that ends without a row written.
LEMMA DeletionLeaveStep ==
    ASSUME DeletionInv, NEW d \in Deleter, NEW s \in {"idle", "end"},
           DGoto(d, DStart(s)), dmem' = [dmem EXCEPT ![d] = NoMemory],
           dout' = [dout EXCEPT ![d] = NoOutcome], UNCHANGED <<owners, launch, drow, dholder>>,
           dat[d].step # "idle"
    PROVE  DeletionInv'
  <1>1. Moved
        BY StillMoved
  <1>2. deletion' # "none"
        BY DEF DeletionInv, DeletionStands, drow
  <1> QED BY <1>1, <1>2, CloseLeft, DeletionPassStep

-----------------------------------------------------------------------------
(* Where the deletion leads.                                                *)

\* A fact added to a closeout.
LEMMA CloseoutWith ==
    ASSUME NEW r \in Closeout, NEW f \in CloseoutFact
    PROVE  /\ With(r, f) \in Closeout /\ With(r, f).facts = r.facts \cup {f}
           /\ With(r, f).key = r.key /\ With(r, f).refund = r.refund
  BY DEF With, Closeout

\* The first steps need the retirement at most.
LEMMA ToCloseoutEvident ==
    ASSUME NEW r \in Closeout
    PROVE  /\ ToCloseout(r) \in DeletionStep /\ Evident(ToCloseout(r), r)
           /\ "retired" \in r.facts => ToRelease(r) \in DeletionStep /\ Evident(ToRelease(r), r)
  <1>1. "retired" \in r.facts => ToRelease(r) \in DeletionStep /\ Evident(ToRelease(r), r)
        BY DEF ToRelease, Evident, DeletionStep, AfterAbsent, Settling, Refunding
  <1>2. CASE "grant" \in r.facts /\ "retired" \in r.facts
        BY <1>1, <1>2 DEF ToCloseout
  <1>3. CASE ~("grant" \in r.facts /\ "retired" \in r.facts)
    <2>1. PICK s \in {"grant", "retire_runtime"} : s = ToCloseout(r)
          BY <1>3 DEF ToCloseout
    <2>2. s \in DeletionStep /\ Evident(s, r)
          BY DEF Evident, DeletionStep, AfterRetired, AfterAbsent, Settling, Refunding
    <2> QED BY <1>1, <2>1, <2>2
  <1> QED BY <1>1, <1>2, <1>3

\* The evidence is recorded once the key is answered for.
LEMMA ToReceiptEvident ==
    ASSUME NEW r \in Closeout, {"retired", "deleted_at"} \subseteq r.facts, r.key # "none"
    PROVE  ToReceipt(r) \in DeletionStep /\ Evident(ToReceipt(r), r)
  BY DEF ToReceipt, Evident, DeletionStep, AfterRetired, AfterAbsent, Settling, Refunding

\* A finished order without a stored key handover declares no key.
LEMMA ToKeyEvident ==
    ASSUME DeletionInv, NEW r \in Closeout, {"retired", "deleted_at"} \subseteq r.facts
    PROVE  ToKey(r) \in DeletionStep /\ Evident(ToKey(r), r)
  <1>1. ~Unfinished /\ "key" \notin result.facts => ~order.keyed
        BY DEF DeletionInv, LaunchInv, RowAgrees, Copy, Unfinished
  <1>2. CASE r.key \in {"confirmed", "not_applicable"}
        BY <1>2, ToReceiptEvident DEF ToKey
  <1>3. CASE r.key \notin {"confirmed", "not_applicable"}
        BY <1>1, <1>3 DEF ToKey, Evident, DeletionStep, AfterRetired, AfterAbsent, Settling, Refunding
  <1> QED BY <1>2, <1>3

\* A confirmed charge is refunded, or its month was used up.
LEMMA ToRefundEvident ==
    ASSUME NEW r \in Closeout, Kept, charge = "confirmed", "funding" \in receipts,
           workspace' = "deleted",
           {"retired", "deleted_at", "receipt"} \subseteq r.facts, r.key # "none",
           NEW s, s = ToRefund(r)
    PROVE  s \in DeletionStep /\ Evident(s, r)'
  <1>1. charge' = "confirmed" /\ "funding" \in receipts'
        BY DEF Kept, Settled
  <1>2. s \in {"no_refund", "settle_refund", "read_refund", "refund"}
        BY DEF ToRefund
  <1>3. /\ s = "no_refund" => "spent" \in r.facts
        /\ s = "settle_refund" => r.refund \in Settled
        /\ s \in {"refund", "read_refund"} => r.refund \notin Settled /\ "spent" \notin r.facts
        BY DEF ToRefund, Settled
  <1> QED BY <1>1, <1>2, <1>3
          DEF Evident, DeletionStep, AfterRetired, AfterAbsent, Settling, Refunding

\* The settlement of a Workspace that is recorded as deleted.
LEMMA ToSettlementEvident ==
    ASSUME DeletionInv, Kept, workspace' = "deleted", NEW r \in Closeout,
           {"retired", "deleted_at", "receipt"} \subseteq r.facts, r.key # "none",
           NEW s, s = ToSettlement(r)
    PROVE  s \in DeletionStep /\ Evident(s, r)'
  <1>t. LaunchInv /\ OwnersTypeOK
        BY DEF DeletionInv, LaunchInv, LaunchTypeOK
  <1>1. CASE ~Unfinished
    <2>1. charge = "confirmed" /\ "funding" \in receipts
          BY <1>t, <1>1 DEF LaunchInv, RowAgrees, Copy, OwnersAgree, Unfinished
    <2>2. s = ToRefund(r)
          BY <1>1 DEF ToSettlement
    <2> QED BY <2>1, <2>2, ToRefundEvident
  <1>2. CASE Unfinished /\ "acceptance" \in result.facts /\ ~order.paid
    <2>1. s = "no_refund"
          BY <1>2 DEF ToSettlement
    <2>2. NeverCharged'
      <3>1. NeverCharged
            BY <1>t, <1>2 DEF LaunchInv, OwnersAgree, NeverCharged
      <3> QED BY <3>1 DEF Kept
    <2> QED BY <2>1, <2>2 DEF Evident, DeletionStep, AfterRetired, AfterAbsent, Settling, Refunding
  <1>3. CASE Unfinished /\ ~("acceptance" \in result.facts /\ ~order.paid)
    <2>1. s = "read_original_charge"
          BY <1>3 DEF ToSettlement
    <2> QED BY <2>1 DEF Evident, DeletionStep, AfterRetired, AfterAbsent, Settling, Refunding
  <1> QED BY <1>1, <1>2, <1>3

-----------------------------------------------------------------------------
(* The deletion's calls, one lemma for each part of the closeout.           *)

\* A report that adds no evidence.
LEMMA DeletionKeepStep ==
    ASSUME DeletionInv, Moved, NEW d \in Deleter,
           dat[d].step \in DeletionStep, dat[d].phase = "call",
           NEW r \in Closeout, NEW s \in {"running", "awaiting_confirmation", "needs_attention"},
           NEW stepKey \in StepKey, NEW confirmed \in BOOLEAN, NEW next \in DeletionStep \cup {"end"},
           DReport(d, r, s, stepKey, confirmed, next),
           next \in DeletionStep => Evident(next, r),
           dmem[d].result.facts \subseteq r.facts,
           r.facts \subseteq dmem[d].result.facts \cup {"grant", "released"},
           r.key = dmem[d].result.key, r.refund = dmem[d].result.refund
    PROVE  DeletionInv'
  <1>1. UNCHANGED <<workspace, closeout>>
        BY DEF DReport, launch, row, drow
  <1>2. /\ \A c : Evidence(c) => Evidence(c)'
        /\ \A z, c : Evident(z, c) => Evident(z, c)'
        BY <1>1, EvidenceKept DEF Moved
  <1>3. Evidence(r)
    <2>1. Evidence(dmem[d].result)
          BY DEF DeletionInv
    <2> QED BY <2>1 DEF Evidence
  <1>4. Evidence(r)' /\ (next \in DeletionStep => Evident(next, r)')
        BY <1>2, <1>3
  <1> QED BY <1>4, DeletionReportStep

\* Grant and runtime.
LEMMA RetireSteps ==
    ASSUME DeletionInv, NEW d \in Deleter, IssueDeletionGrant(d) \/ RetireRuntime(d)
    PROVE  DeletionInv'
  <1>s. /\ {"grant", "retire_runtime"} \subseteq DeletionStep
        /\ {"grant", "retire_runtime"} \subseteq StepKey /\ {"grant", "retired"} \subseteq CloseoutFact
        BY DEF DeletionStep, StepKey, CloseoutFact
  <1>1. CASE IssueDeletionGrant(d)
    <2>1. dat[d].step \in DeletionStep /\ dat[d].phase = "call" /\ dmem[d].result \in Closeout
          BY <1>s, <1>1, DeletionCallFacts DEF IssueDeletionGrant
    <2>2. Moved
          BY <1>1, StillMoved DEF IssueDeletionGrant
    <2>3. CASE DAwait(d, "grant")
          BY <1>s, <2>1, <2>2, <2>3, DeletionAwaitStep
    <2>4. CASE ~DAwait(d, "grant")
      <3>1. PICK r : r = With(dmem[d].result, "grant")
            OBVIOUS
      <3>2. PICK next : next = ToCloseout(r)
            OBVIOUS
      <3>3. /\ r \in Closeout /\ r.facts = dmem[d].result.facts \cup {"grant"}
            /\ r.key = dmem[d].result.key /\ r.refund = dmem[d].result.refund
            BY <1>s, <2>1, <3>1, CloseoutWith
      <3>4. next \in DeletionStep /\ Evident(next, r)
            BY <3>2, <3>3, ToCloseoutEvident
      <3>5. DReport(d, r, "running", "grant", TRUE, next)
            BY <1>1, <2>4, <3>1, <3>2 DEF IssueDeletionGrant, Confirm
      <3> QED BY <1>s, <2>1, <2>2, <3>3, <3>4, <3>5, DeletionKeepStep
    <2> QED BY <2>3, <2>4
  <1>2. CASE RetireRuntime(d)
    <2>1. /\ dat[d].step \in DeletionStep /\ dat[d].phase = "call" /\ dmem[d].result \in Closeout
          /\ Evidence(dmem[d].result)
          BY <1>s, <1>2, DeletionCallFacts DEF RetireRuntime
    <2>2. PICK heard \in Answer :
             /\ Ask(Retire, heard)
             /\ LET r == With(dmem[d].result, "retired")
                IN IF heard = "ok" THEN Confirm(d, r, "retire_runtime", ToRelease(r))
                   ELSE DAwait(d, "retire_runtime")
          BY <1>2 DEF RetireRuntime
    <2>3. Moved /\ (heard = "ok" => Retired')
          BY <2>2, AskRetire
    <2>4. CASE heard = "ok"
      <3>1. PICK r : r = With(dmem[d].result, "retired")
            OBVIOUS
      <3>2. PICK next : next = ToRelease(r)
            OBVIOUS
      <3>3. /\ r \in Closeout /\ r.facts = dmem[d].result.facts \cup {"retired"}
            /\ r.key = dmem[d].result.key /\ r.refund = dmem[d].result.refund
            BY <1>s, <2>1, <3>1, CloseoutWith
      <3>4. DReport(d, r, "running", "retire_runtime", TRUE, next)
            BY <2>2, <2>4, <3>1, <3>2 DEF Confirm
      <3>5. /\ \A c : Evidence(c) => Evidence(c)'
            /\ \A z, c : Evident(z, c) => Evident(z, c)'
        <4>1. UNCHANGED <<workspace, closeout>>
              BY <3>4 DEF DReport, launch, row, drow
        <4> QED BY <2>3, <4>1, EvidenceKept DEF Moved
      <3>6. next \in DeletionStep /\ Evident(next, r)'
            BY <3>2, <3>3, <3>5, ToCloseoutEvident
      <3>7. Evidence(r)'
        <4>1. PICK c : c = dmem[d].result
              OBVIOUS
        <4>2. Evidence(c)'
              BY <2>1, <3>5, <4>1
        <4> QED BY <2>3, <2>4, <3>3, <4>1, <4>2 DEF Evidence
      <3> QED BY <1>s, <2>1, <2>3, <3>3, <3>4, <3>6, <3>7, DeletionReportStep
    <2>5. CASE heard # "ok"
          BY <1>s, <2>1, <2>2, <2>3, <2>5, DeletionAwaitStep
    <2> QED BY <2>4, <2>5
  <1> QED BY <1>1, <1>2

\* The absence that was read: the deletion time is frozen with it.
LEMMA AbsentStep ==
    ASSUME DeletionInv, UNCHANGED owners, Released, NEW d \in Deleter,
           dat[d].step \in DeletionStep, dat[d].phase = "call",
           NEW r \in Closeout, r.facts \in {dmem[d].result.facts, dmem[d].result.facts \cup {"released"}},
           r.key = dmem[d].result.key, r.refund = dmem[d].result.refund, "retired" \in r.facts,
           Absent(d, r)
    PROVE  DeletionInv'
  <1>1. Moved
        BY StillMoved
  <1>2. PICK dated \in Dated(r) : Confirm(d, dated, "read_resources", ToKey(dated))
        BY DEF Absent
  <1>3. /\ dated \in Closeout /\ dated.key = r.key /\ dated.refund = r.refund
        /\ dated.facts \in {r.facts \cup {"deleted_at"}, r.facts \cup {"deleted_at", "spent"}}
        /\ "deleted_at" \in r.facts => dated = r
        /\ "spent" \in dated.facts => "spent" \in r.facts \/ fulfilled
    <2>1. CASE "deleted_at" \in r.facts
          BY <2>1, <1>2 DEF Dated
    <2>2. CASE "deleted_at" \notin r.facts
      <3>1. PICK c : c = With(r, "deleted_at")
            OBVIOUS
      <3>2. c \in Closeout /\ c.facts = r.facts \cup {"deleted_at"} /\ c.key = r.key /\ c.refund = r.refund
            BY <3>1, CloseoutWith, "deleted_at" \in CloseoutFact DEF CloseoutFact
      <3>3. /\ With(c, "spent") \in Closeout /\ With(c, "spent").facts = c.facts \cup {"spent"}
            /\ With(c, "spent").key = r.key /\ With(c, "spent").refund = r.refund
            BY <3>2, CloseoutWith, "spent" \in CloseoutFact DEF CloseoutFact
      <3>4. dated = c \/ (fulfilled /\ dated = With(c, "spent"))
            BY <1>2, <2>2, <3>1 DEF Dated
      <3> QED BY <2>2, <3>2, <3>3, <3>4
    <2> QED BY <2>1, <2>2
  <1>4. PICK next : next = ToKey(dated)
        OBVIOUS
  <1>5. DReport(d, dated, "running", "read_resources", TRUE, next)
        BY <1>2, <1>4 DEF Confirm
  <1>6. /\ \A c : Evidence(c) => Evidence(c)'
        /\ \A z, c : Evident(z, c) => Evident(z, c)'
    <2>1. UNCHANGED <<workspace, closeout>>
          BY <1>5 DEF DReport, launch, row, drow
    <2> QED BY <1>1, <2>1, EvidenceKept DEF Moved
  <1>7. Evidence(dated)
    <2>1. Evidence(dmem[d].result)
          BY DEF DeletionInv
    <2> QED BY <1>3, <2>1 DEF Evidence
  <1>8. next \in DeletionStep /\ Evident(next, dated)
        BY <1>3, <1>4, ToKeyEvident
  <1>9. Evidence(dated)' /\ Evident(next, dated)'
        BY <1>6, <1>7, <1>8
  <1>10. "read_resources" \in StepKey
        BY DEF StepKey
  <1>11. /\ dmem[d].result.facts \subseteq dated.facts
         /\ "spent" \in dated.facts
            => "spent" \in dmem[d].result.facts \/ "deleted_at" \notin dmem[d].result.facts
        BY <1>3
  <1> QED BY <1>1, <1>3, <1>5, <1>8, <1>9, <1>10, <1>11, DeletionReportStep

\* Resources: release, readback and replay.
LEMMA ReleaseSteps ==
    ASSUME DeletionInv, NEW d \in Deleter,
           \/ CloseResources(d) \/ ReadCloseout(d) \/ ObserveVersion(d) \/ ReleaseResources(d)
           \/ ReadReleased(d) \/ ResumeRelease(d)
    PROVE  DeletionInv'
  <1>s. /\ {"close_resources", "read_closeout", "observe_version", "delete_resources",
            "read_resources", "reread_resources", "resume_release"} \subseteq DeletionStep
        /\ {"close_resources", "read_closeout", "observe_version", "delete_resources",
            "read_resources", "reread_resources", "resume_release"} \subseteq AfterRetired
        /\ {"delete_resources", "read_resources"} \subseteq StepKey
        /\ "released" \in CloseoutFact /\ "end" \notin DeletionStep
        BY DEF DeletionStep, AfterRetired, StepKey, CloseoutFact
  <1>e. ASSUME NEW s \in {"read_closeout", "delete_resources", "read_resources", "resume_release"},
               NEW r, "retired" \in r.facts
        PROVE  Evident(s, r)
        BY <1>e DEF Evident, AfterAbsent, Settling, Refunding
  <1>1. CASE CloseResources(d)
    <2>1. /\ dat[d].step \in DeletionStep /\ dat[d].phase = "call" /\ dmem[d] \in DeletionMemory
          /\ "retired" \in dmem[d].result.facts
          BY <1>s, <1>1, DeletionCallFacts DEF CloseResources, Evident
    <2>2. PICK heard \in Answer :
             /\ Ask(LAMBDA a : DeleteResources("any", a), heard)
             /\ IF heard = "ok" THEN DProceed(d, dmem[d], DStart("read_closeout"))
                ELSE DAwait(d, "delete_resources")
          BY <1>1 DEF CloseResources
    <2>3. Moved
          BY <2>2, AskDeleteResources DEF Ask
    <2>4. CASE heard = "ok"
      <3>1. PICK m : m = dmem[d]
            OBVIOUS
      <3>2. DProceed(d, m, DStart("read_closeout")) /\ Evident("read_closeout", m.result)
            BY <1>e, <2>1, <2>2, <2>4, <3>1
      <3> QED BY <1>s, <2>1, <2>3, <3>1, <3>2, DeletionProceedStep
    <2>5. CASE heard # "ok"
          BY <1>s, <2>1, <2>2, <2>3, <2>5, DeletionAwaitStep
    <2> QED BY <2>4, <2>5
  <1>2. CASE ReadCloseout(d)
    <2>1. /\ dat[d].step \in DeletionStep /\ dat[d].phase = "call" /\ dmem[d].result \in Closeout
          /\ "retired" \in dmem[d].result.facts
          BY <1>s, <1>2, DeletionCallFacts DEF ReadCloseout, Evident
    <2>2. PICK heard \in Answer :
             /\ Ask(ReadResources, heard)
             /\ LET r == With(dmem[d].result, "released")
                IN CASE heard = "absent" -> Absent(d, r)
                     [] heard = "lost" -> DAwait(d, "read_resources")
                     [] OTHER -> StillThere(d, r)
          BY <1>2 DEF ReadCloseout
    <2>3. Moved /\ UNCHANGED owners /\ (heard = "absent" => Released)
          BY <2>2, AskAbsent
    <2>4. PICK r : r = With(dmem[d].result, "released")
          OBVIOUS
    <2>5. /\ r \in Closeout /\ r.facts = dmem[d].result.facts \cup {"released"}
          /\ r.key = dmem[d].result.key /\ r.refund = dmem[d].result.refund
          BY <1>s, <2>1, <2>4, CloseoutWith
    <2>6. CASE heard = "absent"
      <3>1. Absent(d, r)
            BY <2>2, <2>4, <2>6
      <3> QED BY <2>1, <2>3, <2>5, <2>6, <3>1, AbsentStep
    <2>7. CASE heard = "lost"
          BY <1>s, <2>1, <2>2, <2>3, <2>7, DeletionAwaitStep
    <2>8. CASE heard \notin {"absent", "lost"}
      <3>1. DReport(d, r, "awaiting_confirmation", "read_resources", FALSE, "end")
            BY <2>2, <2>4, <2>8 DEF StillThere
      <3> QED BY <1>s, <2>1, <2>3, <2>5, <3>1, DeletionKeepStep
    <2> QED BY <2>6, <2>7, <2>8
  <1>3. CASE ObserveVersion(d)
    <2>1. /\ dat[d].step \in DeletionStep /\ dat[d].phase = "call" /\ dmem[d] \in DeletionMemory
          /\ "retired" \in dmem[d].result.facts
          BY <1>s, <1>3, DeletionCallFacts DEF ObserveVersion, Evident
    <2>2. PICK heard \in Answer :
             /\ Ask(ReadResources, heard)
             /\ IF heard = "lost" THEN DAwait(d, "delete_resources")
                ELSE DProceed(d, [dmem[d] EXCEPT !.version = Version], DStart("delete_resources"))
          BY <1>3 DEF ObserveVersion
    <2>3. Moved
          BY <2>2, AskAbsent
    <2>4. CASE heard # "lost"
      <3>1. PICK m : m = [dmem[d] EXCEPT !.version = Version]
            OBVIOUS
      <3>2. m \in DeletionMemory /\ m.result = dmem[d].result
            BY <2>1, <3>1 DEF DeletionMemory, ExpectedVersion, Version
      <3>3. DProceed(d, m, DStart("delete_resources")) /\ Evident("delete_resources", m.result)
            BY <1>e, <2>1, <2>2, <2>4, <3>1, <3>2
      <3> QED BY <1>s, <2>1, <2>3, <3>2, <3>3, DeletionProceedStep
    <2>5. CASE heard = "lost"
          BY <1>s, <2>1, <2>2, <2>3, <2>5, DeletionAwaitStep
    <2> QED BY <2>4, <2>5
  <1>4. CASE ReleaseResources(d)
    <2>1. /\ dat[d].step \in DeletionStep /\ dat[d].phase = "call" /\ dmem[d].result \in Closeout
          /\ "retired" \in dmem[d].result.facts
          BY <1>s, <1>4, DeletionCallFacts DEF ReleaseResources, Evident
    <2>2. PICK heard \in Answer :
             /\ Ask(LAMBDA a : DeleteResources(dmem[d].version, a), heard)
             /\ LET r == With(dmem[d].result, "released")
                IN IF heard = "ok"
                   THEN DReport(d, r, "running", "delete_resources", FALSE, "read_resources")
                   ELSE DAwait(d, "delete_resources")
          BY <1>4 DEF ReleaseResources
    <2>3. Moved
          BY <2>2, AskDeleteResources DEF Ask
    <2>4. CASE heard = "ok"
      <3>1. PICK r : r = With(dmem[d].result, "released")
            OBVIOUS
      <3>2. /\ r \in Closeout /\ r.facts = dmem[d].result.facts \cup {"released"}
            /\ r.key = dmem[d].result.key /\ r.refund = dmem[d].result.refund
            BY <1>s, <2>1, <3>1, CloseoutWith
      <3>3. /\ DReport(d, r, "running", "delete_resources", FALSE, "read_resources")
            /\ Evident("read_resources", r)
            BY <1>e, <2>1, <2>2, <2>4, <3>1, <3>2
      <3> QED BY <1>s, <2>1, <2>3, <3>2, <3>3, DeletionKeepStep
    <2>5. CASE heard # "ok"
          BY <1>s, <2>1, <2>2, <2>3, <2>5, DeletionAwaitStep
    <2> QED BY <2>4, <2>5
  <1>5. CASE ReadReleased(d)
    <2>1. /\ dat[d].step \in DeletionStep /\ dat[d].phase = "call" /\ dmem[d].result \in Closeout
          /\ "retired" \in dmem[d].result.facts /\ dmem[d] \in DeletionMemory
          BY <1>s, <1>5, DeletionCallFacts DEF ReadReleased, Evident
    <2>2. PICK heard \in Answer :
             /\ Ask(ReadResources, heard)
             /\ CASE heard = "absent" -> Absent(d, dmem[d].result)
                  [] heard = "lost" -> DAwait(d, "read_resources")
                  [] OTHER -> IF dat[d].step = "reread_resources"
                              THEN DProceed(d, dmem[d], DStart("resume_release"))
                              ELSE StillThere(d, dmem[d].result)
          BY <1>5 DEF ReadReleased
    <2>3. Moved /\ UNCHANGED owners /\ (heard = "absent" => Released)
          BY <2>2, AskAbsent
    <2>4. PICK m, r : m = dmem[d] /\ r = dmem[d].result
          OBVIOUS
    <2>5. CASE heard = "absent"
      <3>1. Absent(d, r)
            BY <2>2, <2>4, <2>5
      <3> QED BY <2>1, <2>3, <2>4, <2>5, <3>1, AbsentStep
    <2>6. CASE heard = "lost"
          BY <1>s, <2>1, <2>2, <2>3, <2>6, DeletionAwaitStep
    <2>7. CASE heard \notin {"absent", "lost"} /\ dat[d].step = "reread_resources"
      <3>1. DProceed(d, m, DStart("resume_release")) /\ Evident("resume_release", m.result)
            BY <1>e, <2>1, <2>2, <2>4, <2>7
      <3> QED BY <1>s, <2>1, <2>3, <2>4, <3>1, DeletionProceedStep
    <2>8. CASE heard \notin {"absent", "lost"} /\ dat[d].step # "reread_resources"
      <3>1. DReport(d, r, "awaiting_confirmation", "read_resources", FALSE, "end")
            BY <2>2, <2>4, <2>8 DEF StillThere
      <3> QED BY <1>s, <2>1, <2>3, <2>4, <3>1, DeletionKeepStep
    <2> QED BY <2>5, <2>6, <2>7, <2>8
  <1>6. CASE ResumeRelease(d)
    <2>1. dat[d].step \in DeletionStep /\ dat[d].phase = "call" /\ dmem[d].result \in Closeout
          BY <1>s, <1>6, DeletionCallFacts DEF ResumeRelease
    <2>2. PICK heard \in Answer :
             /\ Ask(LAMBDA a : DeleteResources(command, a), heard)
             /\ IF heard = "ok" THEN StillThere(d, dmem[d].result) ELSE DAwait(d, "read_resources")
          BY <1>6 DEF ResumeRelease
    <2>3. Moved
          BY <2>2, AskDeleteResources DEF Ask
    <2>4. CASE heard = "ok"
      <3>1. PICK r : r = dmem[d].result
            OBVIOUS
      <3>2. DReport(d, r, "awaiting_confirmation", "read_resources", FALSE, "end")
            BY <2>2, <2>4, <3>1 DEF StillThere
      <3> QED BY <1>s, <2>1, <2>3, <3>1, <3>2, DeletionKeepStep
    <2>5. CASE heard # "ok"
          BY <1>s, <2>1, <2>2, <2>3, <2>5, DeletionAwaitStep
    <2> QED BY <2>4, <2>5
  <1> QED BY <1>1, <1>2, <1>3, <1>4, <1>5, <1>6

\* Managed key and evidence.
LEMMA KeySteps ==
    ASSUME DeletionInv, NEW d \in Deleter, NoKey(d) \/ DisableKey(d) \/ DeletionReceipt(d)
    PROVE  DeletionInv'
  <1>s. /\ {"no_key", "disable_managed_key", "deletion_receipt", "record_deleted"}
           \subseteq DeletionStep \cap AfterRetired \cap AfterAbsent
        /\ {"disable_managed_key", "deletion_receipt", "read_deletion_receipt"} \subseteq StepKey
        /\ "receipt" \in CloseoutFact
        BY DEF DeletionStep, AfterRetired, AfterAbsent, StepKey, CloseoutFact
  \* A report that says how the key stands.
  <1>k. ASSUME NEW outcomeOfKey \in KeyCloseout \ {"none"}, NEW r,
               r = [dmem[d].result EXCEPT !.key = outcomeOfKey],
               NEW s \in {"no_key", "disable_managed_key"}, DCalls(d, s), Moved,
               outcomeOfKey = "confirmed" => key' = "disabled",
               outcomeOfKey = "not_applicable" => KeyNeverIssued',
               NEW confirmed \in BOOLEAN,
               DReport(d, r, "running", "disable_managed_key", confirmed, ToReceipt(r))
        PROVE  DeletionInv'
    <2>1. /\ dat[d].step \in DeletionStep /\ dat[d].phase = "call" /\ dmem[d].result \in Closeout
          /\ Evidence(dmem[d].result) /\ {"retired", "deleted_at"} \subseteq dmem[d].result.facts
          BY <1>s, <1>k, DeletionCallFacts DEF Evident
    <2>2. /\ r \in Closeout /\ r.facts = dmem[d].result.facts /\ r.key = outcomeOfKey
          /\ r.refund = dmem[d].result.refund
          BY <1>k, <2>1 DEF Closeout
    <2>3. PICK next : next = ToReceipt(r)
          OBVIOUS
    <2>4. DReport(d, r, "running", "disable_managed_key", confirmed, next)
          BY <1>k, <2>3
    <2>5. /\ \A c : Evidence(c) => Evidence(c)'
          /\ \A z, c : Evident(z, c) => Evident(z, c)'
      <3>1. UNCHANGED <<workspace, closeout>>
            BY <2>4 DEF DReport, launch, row, drow
      <3> QED BY <1>k, <3>1, EvidenceKept DEF Moved
    <2>6. next \in DeletionStep /\ Evident(next, r)'
          BY <1>k, <2>1, <2>2, <2>3, <2>5, ToReceiptEvident
    <2>7. Evidence(r)'
      <3>1. PICK c : c = dmem[d].result
            OBVIOUS
      <3>2. Evidence(c)'
            BY <2>1, <2>5, <3>1
      <3> QED BY <1>k, <2>1, <2>2, <3>1, <3>2 DEF Evidence
    <2> QED BY <1>s, <1>k, <2>1, <2>2, <2>4, <2>6, <2>7, DeletionReportStep
  <1>1. CASE NoKey(d)
    <2>1. Moved /\ DCalls(d, "no_key")
          BY <1>1, StillMoved DEF NoKey
    <2>2. ~order.keyed
          BY <1>s, <2>1, DeletionCallFacts DEF Evident
    <2>3. KeyNeverIssued'
      <3>1. KeyNeverIssued
            BY <2>2 DEF DeletionInv, RefundIsDue, KeyNeverIssued
      <3> QED BY <2>1, <3>1 DEF Moved, Kept
    <2>4. PICK r : r = [dmem[d].result EXCEPT !.key = "not_applicable"]
          OBVIOUS
    <2>5. DReport(d, r, "running", "disable_managed_key", TRUE, ToReceipt(r))
          BY <1>1, <2>4 DEF NoKey, Confirm
    <2>6. "not_applicable" \in KeyCloseout \ {"none"} /\ "not_applicable" # "confirmed"
          BY DEF KeyCloseout
    <2> QED BY <1>k, <2>1, <2>3, <2>4, <2>5, <2>6
  <1>2. CASE DisableKey(d)
    <2>1. PICK heard \in Answer :
             /\ Ask(LAMBDA a : IF Unfinished THEN CloseManagedKey(a) ELSE DisableManagedKey(a), heard)
             /\ LET r == [dmem[d].result EXCEPT !.key = KeyOutcome(heard)]
                IN DReport(d, r, "running", "disable_managed_key", heard \in {"ok", "absent"},
                           ToReceipt(r))
          BY <1>2 DEF DisableKey
    <2>2. /\ Moved
          /\ heard = "ok" => key' = "disabled"
          /\ heard = "absent" => KeyNeverIssued'
          BY <2>1, AskCloseKey
    <2>3. PICK says : says = KeyOutcome(heard)
          OBVIOUS
    <2>4. /\ says \in KeyCloseout \ {"none"}
          /\ says = "confirmed" => heard = "ok"
          /\ says = "not_applicable" => heard = "absent"
          BY <2>3 DEF KeyOutcome, KeyCloseout
    <2>5. PICK r, confirmed : /\ r = [dmem[d].result EXCEPT !.key = says]
                              /\ confirmed = (heard \in {"ok", "absent"})
          OBVIOUS
    <2>6. DReport(d, r, "running", "disable_managed_key", confirmed, ToReceipt(r))
          BY <2>1, <2>3, <2>5
    <2>7. DCalls(d, "disable_managed_key") /\ confirmed \in BOOLEAN
          BY <1>2, <2>5 DEF DisableKey
    <2> QED BY <1>k, <2>2, <2>4, <2>5, <2>6, <2>7
  <1>3. CASE DeletionReceipt(d)
    <2>1. /\ dat[d].step \in DeletionStep /\ dat[d].phase = "call" /\ dmem[d].result \in Closeout
          /\ Evidence(dmem[d].result) /\ {"retired", "deleted_at"} \subseteq dmem[d].result.facts
          /\ dmem[d].result.key # "none"
          BY <1>s, <1>3, DeletionCallFacts DEF DeletionReceipt, Evident
    <2>2. PICK heard \in Answer :
             /\ Ask(AppendDeletion, heard)
             /\ LET r == With(dmem[d].result, "receipt")
                IN IF heard = "ok" THEN Confirm(d, r, "deletion_receipt", "record_deleted")
                   ELSE DAwait(d, "deletion_receipt") \/ DAwait(d, "read_deletion_receipt")
          BY <1>3 DEF DeletionReceipt
    <2>3. Moved /\ (heard = "ok" => "deletion" \in receipts')
          BY <2>2, AskLedger
    <2>4. CASE heard = "ok"
      <3>1. PICK r : r = With(dmem[d].result, "receipt")
            OBVIOUS
      <3>2. /\ r \in Closeout /\ r.facts = dmem[d].result.facts \cup {"receipt"}
            /\ r.key = dmem[d].result.key /\ r.refund = dmem[d].result.refund
            BY <1>s, <2>1, <3>1, CloseoutWith
      <3>3. DReport(d, r, "running", "deletion_receipt", TRUE, "record_deleted")
            BY <2>2, <2>4, <3>1 DEF Confirm
      <3>4. \A c : Evidence(c) => Evidence(c)'
        <4>1. UNCHANGED <<workspace, closeout>>
              BY <3>3 DEF DReport, launch, row, drow
        <4> QED BY <2>3, <4>1, EvidenceKept DEF Moved
      <3>5. Evidence(r)'
        <4>1. PICK c : c = dmem[d].result
              OBVIOUS
        <4>2. Evidence(c)'
              BY <2>1, <3>4, <4>1
        <4> QED BY <2>1, <2>3, <2>4, <3>2, <4>1, <4>2 DEF Evidence
      <3>6. Evident("record_deleted", r)'
            BY <2>1, <3>2 DEF Evident, Settling, Refunding
      <3> QED BY <1>s, <2>1, <2>3, <3>2, <3>3, <3>5, <3>6, DeletionReportStep
    <2>5. CASE heard # "ok"
          BY <1>s, <2>1, <2>2, <2>3, <2>5, DeletionAwaitStep
    <2> QED BY <2>4, <2>5
  <1> QED BY <1>1, <1>2, <1>3

\* The wallet's answer about the refund is true when it is reported.
LEMMA SettleStep ==
    ASSUME DeletionInv, Moved, NEW d \in Deleter,
           NEW at0 \in {"refund", "read_refund", "settle_refund"}, DCalls(d, at0),
           NEW answer \in Settled \cup {"open"}, answer \in Settled => refund' = answer,
           answer = "open" => refund' # "none",
           dmem[d].result.refund \in Settled => answer = dmem[d].result.refund,
           SettleRefund(d, answer)
    PROVE  DeletionInv'
  <1>s. /\ {"refund", "read_refund", "settle_refund", "complete"} \subseteq DeletionStep
        /\ {"refund", "read_refund", "settle_refund", "complete"} \subseteq Settling
        /\ "refund_confirmed_deletion" \in StepKey
        BY DEF DeletionStep, Settling, StepKey
  <1>1. /\ dat[d].step \in DeletionStep /\ dat[d].phase = "call" /\ dmem[d].result \in Closeout
        /\ Evidence(dmem[d].result) /\ workspace = "deleted" /\ dmem[d].result.key # "none"
        /\ {"retired", "deleted_at", "receipt"} \subseteq dmem[d].result.facts
    <2>1. at0 \in DeletionStep /\ at0 \in Settling
          BY <1>s
    <2>2. Evident(at0, dmem[d].result) /\ Evidence(dmem[d].result)
          BY <2>1, DeletionCallFacts
    <2>3. /\ "receipt" \in dmem[d].result.facts /\ workspace = "deleted"
          /\ dmem[d].result.key # "none"
          BY <2>1, <2>2 DEF Evident
    <2> QED BY <2>1, <2>2, <2>3, DeletionCallFacts DEF Evidence
  <1>2. PICK r, s, confirmed :
          /\ r = [dmem[d].result EXCEPT !.refund = answer]
          /\ s = CASE answer = "confirmed" -> "running"
                   [] answer = "rejected" -> "needs_attention"
                   [] answer = "open" -> "awaiting_confirmation"
          /\ confirmed = (answer = "confirmed")
        OBVIOUS
  <1>3. /\ r \in Closeout /\ r.facts = dmem[d].result.facts /\ r.key = dmem[d].result.key
        /\ r.refund = answer
        BY <1>1, <1>2 DEF Closeout, RefundStatus, Money, Settled
  <1>4. s \in {"running", "awaiting_confirmation", "needs_attention"} /\ confirmed \in BOOLEAN
        BY <1>2 DEF Settled
  <1>5. DReport(d, r, s, "refund_confirmed_deletion", confirmed, "complete")
        BY <1>2 DEF SettleRefund
  <1>6. UNCHANGED <<workspace, closeout>>
        BY <1>5 DEF DReport, launch, row, drow
  <1>7. \A c : Evidence(c) => Evidence(c)'
        BY <1>6, EvidenceKept DEF Moved
  <1>8. Evidence(r)'
    <2>1. PICK c : c = dmem[d].result
          OBVIOUS
    <2>2. Evidence(c)'
          BY <1>1, <1>7, <2>1
    <2> QED BY <1>1, <1>3, <1>6, <2>1, <2>2 DEF Evidence, Settled
  <1>9. Evident("complete", r)'
        BY <1>1, <1>3, <1>6 DEF Evident, Refunding
  <1> QED BY <1>s, <1>1, <1>3, <1>4, <1>5, <1>8, <1>9, DeletionReportStep

\* Settlement of the money.
LEMMA RefundSteps ==
    ASSUME DeletionInv, NEW d \in Deleter,
           NoRefund(d) \/ IssueRefund(d) \/ ReadRefundStep(d) \/ SettleStored(d)
    PROVE  DeletionInv'
  <1>s. /\ {"no_refund", "refund", "read_refund", "settle_refund", "complete"}
           \subseteq DeletionStep \cap Settling \cap AfterAbsent
        /\ {"refund_confirmed_deletion", "read_refund_confirmed_deletion"} \subseteq StepKey
        BY DEF DeletionStep, Settling, AfterAbsent, StepKey
  <1>1. CASE NoRefund(d)
    <2>1. /\ dat[d].step \in DeletionStep /\ dat[d].phase = "call" /\ dmem[d].result \in Closeout
          /\ Evidence(dmem[d].result) /\ Evident("no_refund", dmem[d].result)
          /\ dmem[d].result.facts \subseteq closeout.facts
          BY <1>s, <1>1, DeletionCallFacts DEF NoRefund
    <2>2. /\ {"retired", "deleted_at", "receipt"} \subseteq dmem[d].result.facts
          /\ dmem[d].result.key # "none" /\ workspace = "deleted"
          BY <1>s, <2>1 DEF Evident, Evidence
    <2>3. NothingOwed
          BY <2>1 DEF Evident, NothingOwed
    <2>4. dmem[d].result.refund \notin Settled
          BY <2>1, <2>3 DEF DeletionInv, RefundIsDue, NothingOwed, NeverCharged, Evidence, Settled
    <2>5. Moved
          BY <1>1, StillMoved DEF NoRefund
    <2>6. PICK r : r = [dmem[d].result EXCEPT !.refund = "not_applicable"]
          OBVIOUS
    <2>7. /\ r \in Closeout /\ r.facts = dmem[d].result.facts /\ r.key = dmem[d].result.key
          /\ r.refund = "not_applicable"
          BY <2>1, <2>6 DEF Closeout, RefundStatus
    <2>8. DReport(d, r, "running", "refund_confirmed_deletion", TRUE, "complete")
          BY <1>1, <2>6 DEF NoRefund, Confirm
    <2>9. UNCHANGED <<workspace, closeout>>
          BY <2>8 DEF DReport, launch, row, drow
    <2>10. /\ \A c : Evidence(c) => Evidence(c)'
           /\ \A z, c : Evident(z, c) => Evident(z, c)'
          BY <2>5, <2>9, EvidenceKept DEF Moved
    <2>11. Evidence(r)
          BY <2>1, <2>2, <2>3, <2>7 DEF Evidence, Settled
    <2>12. Evident("complete", r)
          BY <2>2, <2>7 DEF Evident, Refunding
    <2>13. Evidence(r)' /\ Evident("complete", r)'
          BY <2>10, <2>11, <2>12
    <2> QED BY <1>s, <2>1, <2>4, <2>5, <2>7, <2>8, <2>13, DeletionReportStep
  <1>2. CASE IssueRefund(d)
    <2>1. /\ DCalls(d, "refund") /\ dat[d].step \in DeletionStep /\ dat[d].phase = "call"
          /\ dmem[d].result.refund \notin Settled
          BY <1>s, <1>2, DeletionCallFacts DEF IssueRefund, Evident
    <2>2. Due
      <3>1. /\ Evidence(dmem[d].result) /\ Evident("refund", dmem[d].result)
            /\ dmem[d].result.facts \subseteq closeout.facts
            /\ "deleted_at" \in dmem[d].result.facts /\ "spent" \in closeout.facts
               => "spent" \in dmem[d].result.facts
            BY <1>s, <2>1, DeletionCallFacts
      <3> QED BY <1>s, <3>1 DEF Evident, Evidence, Due, Refunding
    <2>3. PICK heard \in Answer :
             /\ Ask(Refund, heard)
             /\ IF heard \in Settled \cup {"open"} THEN SettleRefund(d, heard)
                ELSE DAwait(d, "refund_confirmed_deletion")
          BY <1>2 DEF IssueRefund
    <2>4. /\ Moved
          /\ heard \in Settled => refund' = heard
          /\ heard = "open" => refund' # "none"
          BY <2>2, <2>3, AskRefund
    <2>5. CASE heard \in Settled \cup {"open"}
      <3>1. SettleRefund(d, heard)
            BY <2>3, <2>5
      <3> QED BY <2>1, <2>4, <2>5, <3>1, SettleStep
    <2>6. CASE heard \notin Settled \cup {"open"}
          BY <1>s, <2>1, <2>3, <2>4, <2>6, DeletionAwaitStep
    <2> QED BY <2>5, <2>6
  <1>3. CASE ReadRefundStep(d)
    <2>1. /\ DCalls(d, "read_refund") /\ dat[d].step \in DeletionStep /\ dat[d].phase = "call"
          /\ dmem[d].result.refund \notin Settled
          BY <1>s, <1>3, DeletionCallFacts DEF ReadRefundStep, Evident
    <2>2. PICK heard \in Answer :
             /\ Ask(ReadRefund, heard)
             /\ IF heard \in Settled \cup {"open"} THEN SettleRefund(d, heard)
                ELSE DAwait(d, "read_refund_confirmed_deletion")
          BY <1>3 DEF ReadRefundStep
    <2>3. /\ Moved
          /\ heard \in Settled => refund' = heard
          /\ heard = "open" => refund' # "none"
      <3>1. /\ Moved /\ UNCHANGED owners
            /\ heard \in Settled => refund = heard
            /\ heard = "open" => refund # "none"
            BY <2>2, AskReads
      <3> QED BY <3>1 DEF owners, gateway
    <2>4. CASE heard \in Settled \cup {"open"}
      <3>1. SettleRefund(d, heard)
            BY <2>2, <2>4
      <3> QED BY <2>1, <2>3, <2>4, <3>1, SettleStep
    <2>5. CASE heard \notin Settled \cup {"open"}
          BY <1>s, <2>1, <2>2, <2>3, <2>5, DeletionAwaitStep
    <2> QED BY <2>4, <2>5
  <1>4. CASE SettleStored(d)
    <2>1. /\ DCalls(d, "settle_refund") /\ dmem[d].result.refund \in Settled
          /\ refund = dmem[d].result.refund
          BY <1>s, <1>4, DeletionCallFacts DEF SettleStored, Evident, Evidence
    <2>2. Moved /\ refund' = refund
          BY <1>4, StillMoved DEF SettleStored, owners, gateway
    <2>3. PICK answer : answer = dmem[d].result.refund
          OBVIOUS
    <2>4. SettleRefund(d, answer) /\ answer \in Settled /\ refund' = answer /\ answer # "open"
          BY <1>4, <2>1, <2>2, <2>3 DEF SettleStored, Settled
    <2> QED BY <2>1, <2>2, <2>3, <2>4, SettleStep
  <1> QED BY <1>1, <1>2, <1>3, <1>4

\* The original charge, its receipt and its delivery.
LEMMA OriginalSteps ==
    ASSUME DeletionInv, NEW d \in Deleter,
           ReadOriginalCharge(d) \/ ReadOriginalFunding(d) \/ ReadOriginalFulfillment(d)
    PROVE  DeletionInv'
  <1>s. /\ {"read_original_charge", "read_original_funding", "read_original_fulfillment",
            "no_refund", "complete"} \subseteq DeletionStep \cap Settling \cap AfterAbsent
        /\ {"read_original_charge", "read_original_funding", "complete_original_funding_receipt",
            "read_original_fulfillment"} \subseteq StepKey
        /\ {"read_original_funding", "read_original_fulfillment"} \subseteq Refunding
        BY DEF DeletionStep, Settling, AfterAbsent, StepKey, Refunding
  <1>c. ASSUME NEW s \in {"read_original_charge", "read_original_funding",
                          "read_original_fulfillment"}, DCalls(d, s)
        PROVE  /\ dat[d].step \in DeletionStep /\ dat[d].phase = "call" /\ dat[d].step # "idle"
               /\ dmem[d] \in DeletionMemory /\ dmem[d].result \in Closeout
               /\ {"retired", "deleted_at", "receipt"} \subseteq dmem[d].result.facts
               /\ dmem[d].result.key # "none" /\ workspace = "deleted"
               /\ s # "read_original_charge" => charge = "confirmed"
               /\ s = "read_original_fulfillment" => "funding" \in receipts
    <2>1. s \in DeletionStep /\ s \in Settling /\ (s # "read_original_charge" => s \in Refunding)
          BY <1>s
    <2>2. /\ dat[d].step \in DeletionStep /\ dat[d].phase = "call"
          /\ dmem[d] \in DeletionMemory /\ dmem[d].result \in Closeout
          /\ Evident(s, dmem[d].result) /\ Evidence(dmem[d].result)
          BY <1>c, <2>1, DeletionCallFacts
    <2> QED BY <2>1, <2>2 DEF Evident, Evidence, DeletionStep
  <1>1. CASE ReadOriginalCharge(d)
    <2>1. /\ dat[d].step \in DeletionStep /\ dat[d].phase = "call" /\ dmem[d] \in DeletionMemory
          /\ dmem[d].result \in Closeout /\ dmem[d].result.key # "none" /\ workspace = "deleted"
          /\ {"retired", "deleted_at", "receipt"} \subseteq dmem[d].result.facts
          BY <1>1, <1>c DEF ReadOriginalCharge
    <2>2. PICK heard \in Answer :
             /\ Ask(ReadClosedCharge, heard)
             /\ CASE heard \in {"absent", "rejected"} -> DProceed(d, dmem[d], DStart("no_refund"))
                  [] heard = "confirmed" -> DProceed(d, dmem[d], DStart("read_original_funding"))
                  [] heard = "open" -> DReport(d, dmem[d].result, "awaiting_confirmation",
                                               "read_original_charge", FALSE, "complete")
                  [] OTHER -> DAwait(d, "read_original_charge")
          BY <1>1 DEF ReadOriginalCharge
    <2>3. /\ Moved
          /\ heard = "absent" => NeverCharged
          /\ heard \in Settled => charge = heard
          BY <2>2, AskClosedCharge
    <2>4. PICK m, r : m = dmem[d] /\ r = dmem[d].result
          OBVIOUS
    <2>5. CASE heard \in {"absent", "rejected"}
      <3>1. DProceed(d, m, DStart("no_refund"))
            BY <2>2, <2>4, <2>5
      <3>2. Evident("no_refund", m.result)
            BY <2>1, <2>3, <2>4, <2>5 DEF Evident, Refunding, Settled
      <3> QED BY <1>s, <2>1, <2>3, <2>4, <3>1, <3>2, DeletionProceedStep
    <2>6. CASE heard = "confirmed"
      <3>1. DProceed(d, m, DStart("read_original_funding"))
            BY <2>2, <2>4, <2>6
      <3>2. Evident("read_original_funding", m.result)
            BY <2>1, <2>3, <2>4, <2>6 DEF Evident, Settled
      <3> QED BY <1>s, <2>1, <2>3, <2>4, <3>1, <3>2, DeletionProceedStep
    <2>7. CASE heard = "open"
      <3>1. DReport(d, r, "awaiting_confirmation", "read_original_charge", FALSE, "complete")
            BY <2>2, <2>4, <2>7
      <3>2. Evident("complete", r)
            BY <2>1, <2>4 DEF Evident, Refunding
      <3> QED BY <1>s, <2>1, <2>3, <2>4, <3>1, <3>2, DeletionKeepStep
    <2>8. CASE heard \notin {"absent", "rejected", "confirmed", "open"}
          BY <1>s, <2>1, <2>2, <2>3, <2>8, DeletionAwaitStep
    <2> QED BY <2>5, <2>6, <2>7, <2>8
  <1>2. CASE ReadOriginalFunding(d)
    <2>1. /\ dat[d].step \in DeletionStep /\ dat[d].phase = "call" /\ dmem[d] \in DeletionMemory
          /\ dmem[d].result \in Closeout /\ dmem[d].result.key # "none" /\ workspace = "deleted"
          /\ {"retired", "deleted_at", "receipt"} \subseteq dmem[d].result.facts
          /\ charge = "confirmed" /\ dat[d].step # "idle"
          BY <1>2, <1>c DEF ReadOriginalFunding
    <2>2. CASE DLeave(d) /\ UNCHANGED <<owners, launch, drow, dholder>>
          BY <2>1, <2>2, DeletionLeaveStep DEF DLeave
    <2>3. ASSUME NEW heard \in Answer, Ask(AppendFunding, heard),
                 IF heard = "ok" THEN DProceed(d, dmem[d], DStart("read_original_fulfillment"))
                 ELSE \E stepKey \in {"read_original_funding", "complete_original_funding_receipt"} :
                        DAwait(d, stepKey)
          PROVE  DeletionInv'
      <3>1. Moved
            BY <2>3, AskLedger
      <3>2. CASE heard = "ok"
        <4>1. PICK m : m = dmem[d]
              OBVIOUS
        <4>2. DProceed(d, m, DStart("read_original_fulfillment"))
              BY <2>3, <3>2, <4>1
        <4>3. Evident("read_original_fulfillment", m.result)'
          <5>1. "funding" \in receipts' /\ charge' = "confirmed"
                BY <2>1, <2>3, <3>1, <3>2, AskAppendFunding DEF DeletionInv, Moved
          <5>2. workspace' = "deleted"
                BY <2>1, <4>2 DEF DProceed, launch, row
          <5> QED BY <2>1, <4>1, <5>1, <5>2 DEF Evident
        <4> QED BY <1>s, <2>1, <3>1, <4>1, <4>2, <4>3, DeletionProceedStep
      <3>3. CASE heard # "ok"
            BY <1>s, <2>1, <2>3, <3>1, <3>3, DeletionAwaitStep
      <3> QED BY <3>2, <3>3
    <2> QED BY <1>2, <2>2, <2>3 DEF ReadOriginalFunding
  <1>3. CASE ReadOriginalFulfillment(d)
    <2>1. /\ dat[d].step \in DeletionStep /\ dat[d].phase = "call" /\ dmem[d] \in DeletionMemory
          /\ dmem[d].result \in Closeout /\ dmem[d].result.key # "none" /\ workspace = "deleted"
          /\ {"retired", "deleted_at", "receipt"} \subseteq dmem[d].result.facts
          /\ charge = "confirmed" /\ "funding" \in receipts
          BY <1>3, <1>c DEF ReadOriginalFulfillment
    <2>2. PICK heard \in Answer :
             /\ Ask(ReadRetired, heard)
             /\ IF heard = "terminated"
                THEN DProceed(d, dmem[d], DStart(ToRefund(dmem[d].result)))
                ELSE DAwait(d, "read_original_fulfillment")
          BY <1>3 DEF ReadOriginalFulfillment
    <2>3. Moved
          BY <2>2, AskReads
    <2>4. CASE heard = "terminated"
      <3>1. PICK m, s : m = dmem[d] /\ s = ToRefund(m.result)
            OBVIOUS
      <3>2. DProceed(d, m, DStart(s))
            BY <2>2, <2>4, <3>1
      <3>3. /\ s \in {"no_refund", "settle_refund", "read_refund", "refund"}
            /\ s = "no_refund" => "spent" \in m.result.facts
            /\ s = "settle_refund" => m.result.refund \in Settled
            /\ s \in {"refund", "read_refund"} => /\ m.result.refund \notin Settled
                                                  /\ "spent" \notin m.result.facts
            BY <3>1 DEF ToRefund, Settled
      <3>4. s \in DeletionStep /\ Evident(s, m.result)
            BY <2>1, <3>1, <3>3 DEF Evident, DeletionStep
      <3> QED BY <2>1, <2>3, <3>1, <3>2, <3>4, DeletionProceedStep
    <2>5. CASE heard # "terminated"
          BY <1>s, <2>1, <2>2, <2>3, <2>5, DeletionAwaitStep
    <2> QED BY <2>4, <2>5
  <1> QED BY <1>1, <1>2, <1>3

-----------------------------------------------------------------------------
(* The rows of the deletion: what its holder writes.                        *)

\* A pass takes or gives back the lease, or writes a row that it holds.
LEMMA DeletionWriteStep ==
    ASSUME DeletionInv, UNCHANGED owners, NEW d \in Deleter, dholder' \in {dholder, None, d},
           UNCHANGED <<subscribed, status, result, holder, pass>>,
           workspace' = workspace \/ (deletion # "none" /\ workspace' = "deleted"),
           \/ closeout' = closeout
           \/ /\ DHolds(d) /\ dat[d].step \in DeletionStep /\ dholder' = d
              /\ closeout' = dmem[d].result,
           \/ deletion' = deletion
           \/ /\ deletion \notin Terminal \cup {"none"} /\ deletion' \in Status \ {"none"}
              /\ deletion' = "succeeded" => /\ "deleted_at" \in closeout'.facts
                                            /\ closeout'.key \in {"confirmed", "not_applicable"}
                                            /\ closeout'.refund \in {"confirmed", "not_applicable"},
           command' \in ExpectedVersion,
           NEW place \in DeletionPlace, NEW m \in DeletionMemory, NEW o \in DeletionOutcome,
           dat' = [dat EXCEPT ![d] = place], dmem' = [dmem EXCEPT ![d] = m],
           dout' = [dout EXCEPT ![d] = o],
           Evidence(m.result)', DeletionStands(d)'
    PROVE  DeletionInv'
  <1>t. /\ DeletionTypeOK /\ DeletionAgrees /\ DeletionStands(d) /\ dmem[d] \in DeletionMemory
        /\ Evidence(dmem[d].result) /\ Evidence(closeout)
        BY DEF DeletionInv, DeletionTypeOK
  <1>1. Moved
        BY StillMoved
  <1>2. /\ closeout' \in Closeout /\ closeout.facts \subseteq closeout'.facts
        /\ "deleted_at" \in closeout.facts /\ "spent" \in closeout'.facts => "spent" \in closeout.facts
    <2>1. CASE closeout' = closeout
          BY <1>t, <2>1 DEF DeletionTypeOK
    <2>2. CASE closeout' # closeout
          BY <1>t, <2>2 DEF DeletionStands, DHolds, DeletionMemory
    <2> QED BY <2>1, <2>2
  <1>3. /\ workspace' \in {workspace, "deleted"}
        /\ workspace = "deleted" => workspace' = "deleted"
        /\ deletion # "none" => deletion' # "none"
        OBVIOUS
  <1>4. LaunchInv' /\ LaunchTypeOK'
    <2>1. LaunchInv'
          BY <1>1, <1>3, LaunchStands
    <2> QED BY <2>1 DEF LaunchInv
  <1>5. DeletionTypeOK'
        BY <1>t, <1>2, <1>4 DEF DeletionTypeOK
  <1>6. RefundIsDue'
        BY <1>1, <1>2, <1>3, StillDue
  <1>7. DeletionAgrees'
    <2>1. deletion' = "succeeded" => /\ "deleted_at" \in closeout'.facts
                                     /\ closeout'.key \in {"confirmed", "not_applicable"}
                                     /\ closeout'.refund \in {"confirmed", "not_applicable"}
          BY <1>t DEF DeletionAgrees, DHolds, Terminal
    <2> QED BY <1>t, <2>1 DEF DeletionAgrees
  <1>8. Evidence(closeout)'
    <2>1. \A r : Evidence(r) => Evidence(r)'
          BY <1>1, <1>2, <1>3, EvidenceKept DEF Moved
    <2>2. PICK r : r = closeout' /\ Evidence(r)
          BY <1>t
    <2>3. Evidence(r)'
          BY <2>1, <2>2
    <2> QED BY <2>2, <2>3 DEF Evidence
  <1>9. ASSUME NEW v \in Deleter PROVE Evidence(dmem[v].result)' /\ DeletionStands(v)'
    <2>1. CASE v = d
      <3>1. dmem'[v] = m
            BY <1>t, <2>1 DEF DeletionTypeOK
      <3> QED BY <2>1, <3>1 DEF Evidence
    <2>2. CASE v # d
      <3>1. dat'[v] = dat[v] /\ dmem'[v] = dmem[v] /\ dout'[v] = dout[v]
            BY <1>t, <2>2 DEF DeletionTypeOK
      <3> QED BY <1>1, <1>2, <1>3, <2>2, <3>1, OthersClose DEF Moved
    <2> QED BY <2>1, <2>2
  <1> QED BY <1>4, <1>5, <1>6, <1>7, <1>8, <1>9 DEF DeletionInv

\* The holder stores its copy of the closeout and goes on.
LEMMA DeletionStoreStep ==
    ASSUME DeletionInv, UNCHANGED owners, NEW d \in Deleter,
           DHolds(d), dat[d].step \in DeletionStep, closeout' = dmem[d].result,
           UNCHANGED <<subscribed, status, result, holder, pass, command, dholder>>,
           workspace' = workspace \/ workspace' = "deleted",
           deletion' \in {deletion, "running", "awaiting_confirmation", "needs_attention"},
           NEW next \in DeletionStep \cup {"end"}, DGoOn(d, next),
           NEW r, r = dmem[d].result, next \in DeletionStep => Evident(next, r)'
    PROVE  DeletionInv'
  <1>t. /\ DeletionTypeOK /\ DeletionStands(d) /\ dmem[d] \in DeletionMemory
        /\ Evidence(dmem[d].result) /\ "idle" \notin DeletionStep /\ "end" \notin DeletionStep
        BY DEF DeletionInv, DeletionTypeOK, DeletionStep
  <1>1. /\ deletion \notin Terminal \cup {"none"}
        /\ deletion' \in Status \ {"none", "succeeded"}
        /\ command' \in ExpectedVersion
        BY <1>t DEF DeletionStands, DHolds, DeletionTypeOK, Status, Terminal
  <1>2. CASE next = "end"
    <2>1. /\ DGoto(d, DStart("end")) /\ dmem' = [dmem EXCEPT ![d] = NoMemory]
          /\ dout' = [dout EXCEPT ![d] = NoOutcome]
          BY <1>2 DEF DGoOn, DLeave
    <2>2. /\ DStart("end") \in DeletionPlace /\ NoMemory \in DeletionMemory
          /\ NoOutcome \in DeletionOutcome /\ dat' = [dat EXCEPT ![d] = DStart("end")]
          /\ Evidence(NoMemory.result)' /\ DeletionStands(d)'
          BY <1>1, <2>1, CloseLeft
    <2> QED BY <1>1, <2>1, <2>2, DeletionWriteStep DEF DHolds
  <1>3. CASE next # "end"
    <2>1. PICK place, m, o : /\ place = DStart(next) /\ o = NoOutcome
                             /\ m = [dmem[d] EXCEPT !.version = "any"]
          OBVIOUS
    <2>2. /\ dat' = [dat EXCEPT ![d] = place] /\ dmem' = [dmem EXCEPT ![d] = m]
          /\ dout' = [dout EXCEPT ![d] = o]
          BY <1>t, <1>3, <2>1 DEF DGoOn, DGoto, DeletionTypeOK, DeletionMemory
    <2>3. /\ place \in DeletionPlace /\ place.step = next /\ place.phase # "save"
          /\ m \in DeletionMemory /\ m.result = dmem[d].result
          /\ o \in DeletionOutcome /\ next \in DeletionStep
          BY <1>t, <1>3, <2>1
          DEF DStart, DeletionPlace, DeletionMemory, ExpectedVersion, NoOutcome, DeletionOutcome, Status
    <2>4. dat'[d] = place /\ dmem'[d] = m
          BY <1>t, <2>2 DEF DeletionTypeOK
    <2>5. closeout' = m.result
          BY <2>3
    <2>6. Evidence(m.result)'
      <3>1. closeout.facts \subseteq closeout'.facts
            BY <1>t DEF DeletionStands, DHolds
      <3>2. workspace = "deleted" => workspace' = "deleted"
            OBVIOUS
      <3>3. \A c : Evidence(c) => Evidence(c)'
            BY <3>1, <3>2, KeptStutter, EvidenceKept
      <3> QED BY <1>t, <2>3, <3>3
    <2>7. Evident(dat[d].step, dmem[d].result)'
          BY <2>3, <2>4 DEF Evident
    <2>8. DeletionStands(d)'
          BY <1>t, <1>1, <2>3, <2>4, <2>5, <2>7 DEF DeletionStands
    <2> QED BY <1>1, <2>2, <2>3, <2>6, <2>8, DeletionWriteStep DEF DHolds
  <1> QED BY <1>2, <1>3

\* The transactions of a deletion pass: its checkpoint, the record of the
\* deleted Workspace and its end.
LEMMA StoreSteps ==
    ASSUME DeletionInv, NEW d \in Deleter,
           DCheckpoint(d) \/ RecordDeletedWorkspace(d) \/ CompleteDeletion(d)
    PROVE  DeletionInv'
  <1>s. /\ {"record_deleted", "complete"} \subseteq DeletionStep /\ "disable_managed_key" \in StepKey
        /\ "end" \notin DeletionStep /\ "idle" \notin DeletionStep
        BY DEF DeletionStep, StepKey
  <1>t. /\ DeletionTypeOK /\ DeletionStands(d) /\ dmem[d].result \in Closeout
        /\ dout[d] \in DeletionOutcome
        BY DEF DeletionInv, DeletionTypeOK, DeletionMemory
  <1>l. ASSUME DLeave(d), UNCHANGED <<owners, launch, drow, dholder>>, dat[d].step \in DeletionStep
        PROVE  DeletionInv'
        BY <1>s, <1>l, DeletionLeaveStep DEF DLeave
  <1>1. CASE DCheckpoint(d)
    <2>1. dat[d].step \in DeletionStep /\ dat[d].phase = "save" /\ UNCHANGED <<owners, launch>>
          BY <1>t, <1>1 DEF DCheckpoint, DeletionStands
    <2>2. CASE ~DHolds(d)
          BY <1>1, <1>l, <2>1, <2>2 DEF DCheckpoint, drow
    <2>3. CASE DHolds(d)
      <3>1. PICK next, r : next = dout[d].next /\ r = dmem[d].result
            OBVIOUS
      <3>2. /\ closeout' = dmem[d].result /\ DGoOn(d, next)
            /\ deletion' \in {"running", "awaiting_confirmation", "needs_attention"}
            /\ next \in DeletionStep \cup {"end"}
            /\ next \in DeletionStep => Evident(next, r)
            BY <1>t, <1>1, <2>1, <2>3, <3>1 DEF DCheckpoint, DeletionStands, DeletionOutcome
      <3>3. UNCHANGED <<workspace, subscribed, status, result, holder, pass, command, dholder>>
            BY <1>1, <2>1 DEF DCheckpoint, launch, row
      <3>4. closeout.facts \subseteq closeout'.facts
            BY <1>t, <2>1, <2>3, <3>2 DEF DeletionStands, DHolds
      <3>5. Evident(next, r) => Evident(next, r)'
            BY <2>1, <3>3, <3>4, KeptStutter, EvidenceKept
      <3> QED BY <2>1, <2>3, <3>1, <3>2, <3>3, <3>5, DeletionStoreStep
    <2> QED BY <2>2, <2>3
  <1>2. CASE RecordDeletedWorkspace(d)
    <2>1. /\ dat[d].step \in DeletionStep /\ Evident("record_deleted", dmem[d].result)
          /\ Evidence(dmem[d].result) /\ UNCHANGED owners
          BY <1>s, <1>2, DeletionCallFacts DEF RecordDeletedWorkspace
    <2>2. CASE ~(DHolds(d) /\ workspace \in {"deleting", "deleted"})
          BY <1>2, <1>l, <2>1, <2>2 DEF RecordDeletedWorkspace, launch, row, drow
    <2>3. CASE DHolds(d) /\ workspace \in {"deleting", "deleted"}
      <3>1. PICK next, r : next = ToSettlement(r) /\ r = dmem[d].result
            OBVIOUS
      <3>2. /\ closeout' = dmem[d].result /\ workspace' = "deleted" /\ DGoOn(d, next)
            /\ UNCHANGED <<subscribed, status, result, holder, pass, deletion, command, dholder>>
            BY <1>2, <2>3, <3>1 DEF RecordDeletedWorkspace
      <3>3. {"retired", "deleted_at", "receipt"} \subseteq r.facts /\ r.key # "none"
            BY <2>1, <3>1 DEF Evident, Evidence
      <3>4. next \in DeletionStep /\ Evident(next, r)'
            BY <1>t, <2>1, <3>1, <3>2, <3>3, KeptStutter, ToSettlementEvident
      <3> QED BY <2>1, <2>3, <3>1, <3>2, <3>4, DeletionStoreStep
    <2> QED BY <2>2, <2>3
  <1>3. CASE CompleteDeletion(d)
    <2>1. PICK r : r = dmem[d].result
          OBVIOUS
    <2>2. /\ dat[d].step \in DeletionStep /\ dat[d].phase = "call"
          /\ Evident("complete", r) /\ Evidence(r) /\ r \in Closeout
          /\ UNCHANGED owners
          BY <1>s, <1>3, <2>1, DeletionCallFacts DEF CompleteDeletion
    <2>3. Moved
          BY <2>2, StillMoved
    <2>4. CASE r.key = "rejected"
      <3>1. DReport(d, r, "needs_attention", "disable_managed_key", FALSE, "end")
            BY <1>3, <2>1, <2>4 DEF CompleteDeletion
      <3> QED BY <1>s, <2>1, <2>2, <2>3, <3>1, DeletionKeepStep
    <2>5. CASE r.key # "rejected" /\ r.refund \notin {"confirmed", "not_applicable"}
          BY <1>3, <1>l, <2>1, <2>2, <2>5 DEF CompleteDeletion
    <2>6. CASE r.key = "unknown" /\ r.refund \in {"confirmed", "not_applicable"}
      <3>1. DAwait(d, "disable_managed_key")
            BY <1>3, <2>1, <2>6 DEF CompleteDeletion
      <3> QED BY <1>s, <2>2, <2>3, <3>1, DeletionAwaitStep
    <2>7. CASE r.key \notin {"rejected", "unknown"} /\ r.refund \in {"confirmed", "not_applicable"}
      <3>1. /\ IF DHolds(d) THEN deletion' = "succeeded" /\ closeout' = r
               ELSE UNCHANGED <<deletion, closeout>>
            /\ DLeave(d)
            /\ UNCHANGED <<launch, command, dholder>>
            BY <1>3, <2>1, <2>7 DEF CompleteDeletion
      <3>2. CASE ~DHolds(d)
            BY <1>l, <2>2, <3>1, <3>2 DEF drow
      <3>3. CASE DHolds(d)
        <4>1. /\ "deleted_at" \in r.facts
              /\ r.key \in {"confirmed", "not_applicable"}
              /\ deletion \notin Terminal \cup {"none"}
              /\ "succeeded" \in Status \ {"none"} /\ command' \in ExpectedVersion
          <5>1. "complete" \in Settling \cap AfterAbsent
                BY DEF Settling, AfterAbsent
          <5>2. "deleted_at" \in r.facts /\ r.key # "none"
                BY <2>2, <5>1 DEF Evident
          <5>3. r.key \in {"confirmed", "not_applicable"}
                BY <2>2, <2>7, <5>2 DEF Closeout, KeyCloseout
          <5>4. deletion \notin Terminal \cup {"none"}
                BY <1>s, <1>t, <2>2, <3>3 DEF DHolds, DeletionStands
          <5>5. "succeeded" \in Status \ {"none"} /\ command' \in ExpectedVersion
                BY <1>t, <3>1 DEF Status, Terminal, DeletionTypeOK
          <5> QED BY <5>2, <5>3, <5>4, <5>5
        <4>2. /\ DStart("end") \in DeletionPlace /\ NoMemory \in DeletionMemory
              /\ NoOutcome \in DeletionOutcome /\ dat' = [dat EXCEPT ![d] = DStart("end")]
              /\ dmem' = [dmem EXCEPT ![d] = NoMemory] /\ dout' = [dout EXCEPT ![d] = NoOutcome]
              /\ Evidence(NoMemory.result)' /\ DeletionStands(d)'
              BY <3>1, <3>3, CloseLeft DEF DLeave
        <4>3. UNCHANGED <<workspace, subscribed, status, result, holder, pass>> /\ dholder' = d
              BY <3>1, <3>3 DEF launch, row, DHolds
        <4>4. deletion' = "succeeded" /\ closeout' = dmem[d].result /\ closeout' = r
              BY <2>1, <3>1, <3>3
        <4> QED BY <2>2, <2>7, <3>3, <4>1, <4>2, <4>3, <4>4, DeletionWriteStep
      <3> QED BY <3>2, <3>3
    <2> QED BY <2>4, <2>5, <2>6, <2>7
  <1> QED BY <1>1, <1>2, <1>3

\* The pass itself: its lease, its load, the begin of a step and its end.
LEMMA HolderSteps ==
    ASSUME DeletionInv, NEW d \in Deleter,
           \/ DLease(d) \/ DLoad(d) \/ DBegin(d) \/ DRelease(d) \/ DTimeOut(d) \/ DCrash(d)
    PROVE  DeletionInv'
  <1>s. /\ "end" \notin DeletionStep /\ "idle" \notin DeletionStep /\ "load" \notin DeletionStep
        BY DEF DeletionStep
  <1>t. /\ DeletionTypeOK /\ DeletionStands(d) /\ Evidence(dmem[d].result) /\ Evidence(closeout)
        /\ dmem[d] \in DeletionMemory /\ dout[d] \in DeletionOutcome /\ dat[d] \in DeletionPlace
        BY DEF DeletionInv, DeletionTypeOK
  <1>o. UNCHANGED owners
        BY DEF DLease, DLoad, DBegin, DRelease, DTimeOut, DCrash
  <1>m. Moved
        BY <1>o, StillMoved
  <1>1. CASE DLease(d) \/ DRelease(d)
    <2>0. PICK s \in {"load", "idle"} :
             /\ DGoto(d, DStart(s)) /\ (s = "load" => deletion # "none")
             /\ dholder' \in {None, d, dholder}
             /\ UNCHANGED <<launch, drow, dmem, dout>>
          BY <1>1 DEF DLease, DRelease
    <2>1. PICK place, m, o :
             /\ DGoto(d, place) /\ place = DStart(s) /\ m = dmem[d] /\ o = dout[d]
             /\ s = "load" => deletion # "none"
             /\ dholder' \in {None, d, dholder}
             /\ UNCHANGED <<launch, drow, dmem, dout>>
          BY <2>0
    <2>2. place \in DeletionPlace /\ place.step = s /\ place.phase = "begin"
          BY <2>1 DEF DStart, DeletionPlace, DeletionUnbegun
    <2>3. /\ dat' = [dat EXCEPT ![d] = place] /\ dmem' = [dmem EXCEPT ![d] = m]
          /\ dout' = [dout EXCEPT ![d] = o]
          /\ m \in DeletionMemory /\ o \in DeletionOutcome
          BY <1>t, <2>1 DEF DGoto, DeletionTypeOK
    <2>4. /\ UNCHANGED <<workspace, subscribed, status, result, holder, pass>>
          /\ UNCHANGED <<deletion, closeout, command>> /\ command' \in ExpectedVersion
          BY <1>t, <2>1 DEF launch, row, drow, DeletionTypeOK
    <2>5. \A r : Evidence(r) => Evidence(r)'
          BY <1>m, <2>4, EvidenceKept DEF Moved
    <2>6. Evidence(m.result)'
          BY <1>t, <2>1, <2>5
    <2>7. DeletionStands(d)'
      <3>1. dat'[d] = place
            BY <1>t, <2>3 DEF DeletionTypeOK
      <3> QED BY <1>s, <2>1, <2>2, <2>4, <3>1 DEF DeletionStands
    <2> QED BY <1>o, <2>1, <2>2, <2>3, <2>4, <2>6, <2>7, DeletionWriteStep
  <1>2. CASE DLoad(d)
    <2>1. PICK s, place, m, o : /\ s = ToCloseout(closeout) /\ place = DStart(s)
                                /\ m = [NoMemory EXCEPT !.result = closeout] /\ o = dout[d]
          OBVIOUS
    <2>2. DProceed(d, m, place) /\ dat[d].step = "load"
          BY <1>2, <2>1 DEF DLoad
    <2>3. closeout \in Closeout /\ s \in DeletionStep /\ Evident(s, closeout)
          BY <1>t, <2>1, ToCloseoutEvident DEF DeletionTypeOK
    <2>4. /\ place \in DeletionPlace /\ place.step = s /\ place.phase # "save"
          /\ m \in DeletionMemory /\ m.result = closeout
          BY <2>1, <2>3 DEF DStart, DeletionPlace, NoMemory, DeletionMemory, ExpectedVersion
    <2>5. /\ dat' = [dat EXCEPT ![d] = place] /\ dmem' = [dmem EXCEPT ![d] = m]
          /\ dout' = [dout EXCEPT ![d] = o] /\ UNCHANGED <<launch, drow, dholder>>
          BY <1>t, <2>1, <2>2 DEF DProceed, DGoto, DeletionTypeOK
    <2>6. UNCHANGED <<workspace, deletion, closeout, dholder>>
          BY <2>5 DEF launch, row, drow
    <2>7. /\ \A r : Evidence(r) => Evidence(r)'
          /\ \A z, r : Evident(z, r) => Evident(z, r)'
          BY <1>m, <2>6, EvidenceKept DEF Moved
    <2>8. dat'[d] = place /\ dmem'[d] = m
          BY <1>t, <2>5 DEF DeletionTypeOK
    <2>9. Evidence(m.result)'
          BY <1>t, <2>4, <2>7
    <2>10. Evident(dat[d].step, dmem[d].result)'
      <3>1. Evident(s, m.result)'
            BY <2>3, <2>4, <2>7
      <3> QED BY <2>4, <2>8, <3>1 DEF Evident
    <2>11. DeletionStands(d)'
          BY <1>s, <1>t, <2>2, <2>3, <2>4, <2>6, <2>8, <2>10 DEF DeletionStands
    <2> QED BY <1>m, <1>t, <2>1, <2>4, <2>5, <2>9, <2>11, DeletionPassStep
  <1>3. CASE DBegin(d)
    <2>1. /\ dat[d].step \in DeletionStep /\ dat[d].phase = "begin"
          /\ UNCHANGED <<launch, closeout, dholder>>
          BY <1>3 DEF DBegin
    <2>2. CASE ~DHolds(d)
          BY <1>o, <1>s, <1>3, <2>1, <2>2, DeletionLeaveStep DEF DBegin, DLeave, drow
    <2>3. CASE DHolds(d)
      <3>1. PICK place, m, o : place = [dat[d] EXCEPT !.phase = "call"] /\ m = dmem[d] /\ o = dout[d]
            OBVIOUS
      <3>2. /\ dat' = [dat EXCEPT ![d] = place] /\ dmem' = [dmem EXCEPT ![d] = m]
            /\ dout' = [dout EXCEPT ![d] = o] /\ deletion' = "running"
            BY <1>t, <1>3, <2>3, <3>1 DEF DBegin, DeletionTypeOK
      <3>3. /\ place \in DeletionPlace /\ place.step = dat[d].step /\ place.phase = "call"
            /\ m \in DeletionMemory /\ o \in DeletionOutcome
            BY <1>t, <3>1 DEF DeletionPlace
      <3>4. command' \in ExpectedVersion
            BY <1>t, <1>3, <2>3 DEF DBegin, DeletionTypeOK, DeletionMemory
      <3>5. deletion \notin Terminal \cup {"none"} /\ deletion' \in Status \ {"none", "succeeded"}
            BY <1>s, <1>t, <2>1, <2>3, <3>2 DEF DHolds, DeletionStands, Status
      <3>6. UNCHANGED <<workspace, subscribed, status, result, holder, pass, closeout, dholder>>
            BY <2>1 DEF launch, row
      <3>7. /\ \A r : Evidence(r) => Evidence(r)'
            /\ \A z, r : Evident(z, r) => Evident(z, r)'
            BY <1>m, <3>6, EvidenceKept DEF Moved
      <3>8. Evidence(m.result)'
            BY <1>t, <3>1, <3>7
      <3>9. dat'[d] = place /\ dmem'[d] = m
            BY <1>t, <3>2 DEF DeletionTypeOK
      <3>10. Evident(dat[d].step, dmem[d].result)'
        <4>1. Evident(place.step, m.result)
              BY <1>t, <2>1, <3>1, <3>3 DEF DeletionStands
        <4>2. Evident(place.step, m.result)'
              BY <3>7, <4>1
        <4> QED BY <3>9, <4>2 DEF Evident
      <3>11. DeletionStands(d)'
            BY <1>t, <2>1, <3>1, <3>3, <3>5, <3>6, <3>9, <3>10 DEF DeletionStands
      <3> QED BY <1>o, <3>2, <3>3, <3>4, <3>5, <3>6, <3>8, <3>11, DeletionWriteStep
    <2> QED BY <2>2, <2>3
  <1>4. CASE DTimeOut(d) \/ DCrash(d)
    <2>1. PICK s \in {"idle", "end"} : DGoto(d, DStart(s))
          BY <1>4 DEF DTimeOut, DCrash, DLeave
    <2>2. /\ dmem' = [dmem EXCEPT ![d] = NoMemory] /\ dout' = [dout EXCEPT ![d] = NoOutcome]
          /\ UNCHANGED <<launch, drow, dholder>> /\ dat[d].step # "idle"
          BY <1>4 DEF DTimeOut, DCrash, DLeave
    <2> QED BY <1>o, <2>1, <2>2, DeletionLeaveStep
  <1> QED BY <1>1, <1>2, <1>3, <1>4

-----------------------------------------------------------------------------
(* The operation is accepted, and its lease expires.                        *)

\* No deletion pass moves.
LEMMA RowSteps ==
    ASSUME DeletionInv, DeleteWorkspace \/ DLeaseExpires
    PROVE  DeletionInv'
  <1>t. DeletionTypeOK /\ DeletionAgrees
        BY DEF DeletionInv
  <1>1. /\ UNCHANGED <<owners, subscribed, result, pass, closeout, command, dat, dmem, dout>>
        /\ holder' \in {holder, None} /\ dholder' \in {dholder, None}
        /\ workspace' \in {workspace, "deleting"}
        /\ status' = status \/ (status \notin Terminal /\ status' = "cancelled")
        /\ \/ UNCHANGED <<deletion, status, workspace>>
           \/ /\ deletion = "none" /\ deletion' = "accepted" /\ status' \in Terminal
              /\ workspace' = "deleting"
        BY DEF DeleteWorkspace, DLeaseExpires, launch, row, drow, dpass, Terminal
  <1>2. Moved
        BY <1>1, StillMoved
  <1>3. workspace = "deleted" => workspace' = "deleted"
        BY <1>t, <1>1 DEF DeletionAgrees
  <1>4. LaunchInv' /\ LaunchTypeOK'
    <2>1. LaunchInv'
          BY <1>1, <1>2, LaunchStands
    <2> QED BY <2>1 DEF LaunchInv
  <1>5. DeletionTypeOK'
        BY <1>t, <1>1, <1>4 DEF DeletionTypeOK, Status
  <1>6. RefundIsDue'
        BY <1>1, <1>2, <1>3, StillDue
  <1>7. DeletionAgrees'
        BY <1>t, <1>1 DEF DeletionAgrees
  <1>8. /\ \A r : Evidence(r) => Evidence(r)'
        /\ \A s, r : Evident(s, r) => Evident(s, r)'
        BY <1>1, <1>2, <1>3, EvidenceKept DEF Moved
  <1>9. Evidence(closeout)'
        BY <1>1, <1>8 DEF DeletionInv, Evidence
  <1>10. ASSUME NEW d \in Deleter PROVE Evidence(dmem[d].result)' /\ DeletionStands(d)'
    <2>1. Evidence(dmem[d].result) /\ DeletionStands(d)
          BY DEF DeletionInv
    <2>2. Evidence(dmem[d].result)'
          BY <1>1, <1>8, <2>1 DEF Evidence
    <2>3. /\ Evident(dat[d].step, dmem[d].result) => Evident(dat[d].step, dmem[d].result)'
          /\ Evident(dout[d].next, dmem[d].result) => Evident(dout[d].next, dmem[d].result)'
      <3>1. PICK r, s, n : /\ r = dmem[d].result /\ s = dat[d].step /\ n = dout[d].next
                           /\ r = dmem'[d].result /\ s = dat'[d].step /\ n = dout'[d].next
            BY <1>1
      <3>2. (Evident(s, r) => Evident(s, r)') /\ (Evident(n, r) => Evident(n, r)')
            BY <1>8
      <3> QED BY <3>1, <3>2 DEF Evident
    <2>4. dholder' = d => dholder = d
          BY <1>1, DeleterAssumption
    <2>5. DeletionStands(d)'
          BY <1>1, <2>1, <2>3, <2>4 DEF DeletionStands
    <2> QED BY <2>2, <2>5
  <1> QED BY <1>4, <1>5, <1>6, <1>7, <1>9, <1>10 DEF DeletionInv

\* A step that changes nothing.
LEMMA DeletionStutter ==
    ASSUME DeletionInv, UNCHANGED allvars
    PROVE  DeletionInv'
  <1>1. /\ UNCHANGED <<owners, workspace, status, subscribed, result, holder, pass>>
        /\ UNCHANGED <<deletion, closeout, command, dholder, dat, dmem, dout>>
        BY DEF allvars, vars, launch, row, dvars, drow, dpass
  <1>2. Moved
        BY <1>1, StillMoved
  <1>3. LaunchInv' /\ LaunchTypeOK'
    <2>1. LaunchInv'
          BY <1>1, <1>2, LaunchStands
    <2> QED BY <2>1 DEF LaunchInv
  <1>4. DeletionTypeOK' /\ DeletionAgrees'
        BY <1>1, <1>3 DEF DeletionInv, DeletionTypeOK, DeletionAgrees
  <1>5. RefundIsDue'
        BY <1>1, <1>2, StillDue
  <1>6. /\ \A r : Evidence(r) => Evidence(r)'
        /\ \A s, r : Evident(s, r) => Evident(s, r)'
        BY <1>1, <1>2, EvidenceKept DEF Moved
  <1>7. Evidence(closeout)'
        BY <1>1, <1>6 DEF DeletionInv, Evidence
  <1>8. ASSUME NEW d \in Deleter PROVE Evidence(dmem[d].result)' /\ DeletionStands(d)'
    <2>1. Evidence(dmem[d].result) /\ DeletionStands(d)
          BY DEF DeletionInv
    <2>2. Evidence(dmem[d].result)'
          BY <1>1, <1>6, <2>1 DEF Evidence
    <2>3. /\ Evident(dat[d].step, dmem[d].result) => Evident(dat[d].step, dmem[d].result)'
          /\ Evident(dout[d].next, dmem[d].result) => Evident(dout[d].next, dmem[d].result)'
          BY <1>1, <1>6 DEF Evident
    <2>4. DeletionStands(d)'
          BY <1>1, <2>1, <2>3 DEF DeletionStands
    <2> QED BY <2>2, <2>4
  <1> QED BY <1>3, <1>4, <1>5, <1>7, <1>8 DEF DeletionInv

\* Every step keeps the invariant.
LEMMA NextDeletionInv == DeletionInv /\ [DeletionNext]_allvars => DeletionInv'
  <1> SUFFICES ASSUME DeletionInv, [DeletionNext]_allvars PROVE DeletionInv'
      OBVIOUS
  <1>1. CASE UNCHANGED allvars
        BY <1>1, DeletionStutter
  <1>2. CASE LaunchNext /\ UNCHANGED dvars
        BY <1>2, LaunchSteps
  <1>3. CASE DeleteWorkspace \/ DLeaseExpires
        BY <1>3, RowSteps
  <1>4. ASSUME NEW d \in Deleter, DLease(d) \/ DTimeOut(d) \/ DCrash(d) PROVE DeletionInv'
        BY <1>4, HolderSteps
  <1>5. ASSUME NEW d \in Deleter, DPass(d) PROVE DeletionInv'
        BY <1>5, HolderSteps, StoreSteps, RetireSteps, ReleaseSteps, KeySteps, OriginalSteps, RefundSteps
        DEF DPass
  <1> QED BY <1>1, <1>2, <1>3, <1>4, <1>5 DEF DeletionNext

-----------------------------------------------------------------------------
(* The theorems.                                                            *)

\* The deletion, its passes and the launch that they overlap keep their
\* types.
THEOREM DeletionTypeCorrect == DeletionSpec => []DeletionTypeOK
  <1>1. DeletionInv => DeletionTypeOK
        BY DEF DeletionInv
  <1> QED BY <1>1, InitDeletionInv, NextDeletionInv, PTL DEF DeletionSpec

\* A deletion that succeeded left nothing behind, however many launch and
\* deletion passes still call owners after their leases are gone.
THEOREM DeletionLeavesNothing == DeletionSpec => []NothingLeftBehind
  <1>1. DeletionInv => NothingLeftBehind
    <2> SUFFICES ASSUME DeletionInv, deletion = "succeeded"
                 PROVE  /\ Gone
                        /\ key \in {"none", "refused", "disabled"}
                        /\ \/ charge \in {"none", "rejected"} /\ refund = "none"
                           \/ charge = "confirmed" /\ refund = "confirmed"
                           \/ charge = "confirmed" /\ refund = "none" /\ "spent" \in closeout.facts
        BY DEF NothingLeftBehind
    <2>1. /\ Evidence(closeout) /\ RefundIsDue /\ charge \in Money
          /\ "deleted_at" \in closeout.facts
          /\ closeout.key \in {"confirmed", "not_applicable"}
          /\ closeout.refund \in {"confirmed", "not_applicable"}
          BY DEF DeletionInv, DeletionAgrees, LaunchInv, LaunchTypeOK, OwnersTypeOK
    <2>2. Gone
          BY <2>1 DEF Evidence, Retired, Released, Gone
    <2>3. key \in {"none", "refused", "disabled"}
          BY <2>1 DEF Evidence, KeyNeverIssued
    <2>4. CASE closeout.refund = "confirmed"
          BY <2>1, <2>2, <2>3, <2>4 DEF Evidence, RefundIsDue, Settled
    <2>5. CASE closeout.refund = "not_applicable"
      <3>1. NothingOwed
            BY <2>1, <2>5 DEF Evidence
      <3>2. refund = "none"
            BY <2>1, <3>1 DEF RefundIsDue, NothingOwed, NeverCharged
      <3>3. "spent" \in closeout.facts => charge \in {"none", "confirmed"}
            BY <2>1 DEF Evidence, DeletionInv, LaunchInv, OwnersAgree
      <3> QED BY <2>1, <2>2, <2>3, <3>1, <3>2, <3>3 DEF NothingOwed, NeverCharged
    <2> QED BY <2>1, <2>4, <2>5
  <1> QED BY <1>1, InitDeletionInv, NextDeletionInv, PTL DEF DeletionSpec

\* Money goes back only for a Workspace that is provably gone, recorded as
\* deleted and with its evidence in Ledger, also when two deletion passes
\* overlap because the first one's lease expired.
THEOREM RefundFollowsAbsence == DeletionSpec => []RefundAfterAbsence
  <1>1. DeletionInv => RefundAfterAbsence
        BY DEF DeletionInv, RefundIsDue, Evidence, Retired, Released, RefundAfterAbsence, Gone
  <1> QED BY <1>1, InitDeletionInv, NextDeletionInv, PTL DEF DeletionSpec

\* What the deletion says of the money and of the key is what their owners
\* did.
THEOREM SettlementHolds == DeletionSpec => []SettlementIsTrue
  <1>1. DeletionInv => SettlementIsTrue
    <2>1. DeletionInv /\ NothingOwed => refund = "none"
          BY DEF DeletionInv, RefundIsDue, NothingOwed, NeverCharged
    <2> QED BY <2>1 DEF DeletionInv, Evidence, SettlementIsTrue
  <1> QED BY <1>1, InitDeletionInv, NextDeletionInv, PTL DEF DeletionSpec

-----------------------------------------------------------------------------
(* A deletion is final.                                                     *)

\* The calls of a deletion pass write neither its row nor the Workspace.
LEMMA CallsWriteNothing ==
    ASSUME NEW d \in Deleter,
           \/ DLease(d) \/ DLoad(d) \/ DRelease(d) \/ DTimeOut(d) \/ DCrash(d)
           \/ IssueDeletionGrant(d) \/ RetireRuntime(d) \/ CloseResources(d) \/ ReadCloseout(d)
           \/ ObserveVersion(d) \/ ReleaseResources(d) \/ ReadReleased(d) \/ ResumeRelease(d)
           \/ NoKey(d) \/ DisableKey(d) \/ DeletionReceipt(d) \/ ReadOriginalCharge(d)
           \/ ReadOriginalFunding(d) \/ ReadOriginalFulfillment(d) \/ NoRefund(d) \/ IssueRefund(d)
           \/ ReadRefundStep(d) \/ SettleStored(d)
    PROVE  UNCHANGED <<closeout, workspace>>
  <1>1. CASE DLease(d) \/ DLoad(d) \/ DRelease(d) \/ DTimeOut(d) \/ DCrash(d)
        BY <1>1 DEF DLease, DLoad, DRelease, DTimeOut, DCrash, DProceed, launch, row, drow
  <1>2. CASE IssueDeletionGrant(d) \/ RetireRuntime(d) \/ CloseResources(d) \/ ReadCloseout(d)
             \/ ObserveVersion(d) \/ ReleaseResources(d) \/ ReadReleased(d) \/ ResumeRelease(d)
        BY <1>2 DEF IssueDeletionGrant, RetireRuntime, CloseResources, ReadCloseout, ObserveVersion,
                    ReleaseResources, ReadReleased, ResumeRelease, Absent, StillThere, Confirm, DAwait,
                    DReport, DProceed, launch, row, drow
  <1>3. CASE NoKey(d) \/ DisableKey(d) \/ DeletionReceipt(d) \/ ReadOriginalCharge(d)
             \/ ReadOriginalFunding(d) \/ ReadOriginalFulfillment(d)
        BY <1>3 DEF NoKey, DisableKey, DeletionReceipt, ReadOriginalCharge, ReadOriginalFunding,
                    ReadOriginalFulfillment, Confirm, DAwait, DReport, DProceed, launch, row, drow
  <1>4. CASE NoRefund(d) \/ IssueRefund(d) \/ ReadRefundStep(d) \/ SettleStored(d)
        BY <1>4 DEF NoRefund, IssueRefund, ReadRefundStep, SettleStored, SettleRefund, Confirm, DAwait,
                    DReport, launch, row, drow
  <1> QED BY <1>1, <1>2, <1>3, <1>4

\* Only the holder of the lease writes the closeout, with its own copy.
LEMMA HolderWrites ==
    ASSUME NEW d \in Deleter,
           DBegin(d) \/ DCheckpoint(d) \/ RecordDeletedWorkspace(d) \/ CompleteDeletion(d)
    PROVE  /\ \/ closeout' = closeout
              \/ DHolds(d) /\ closeout' = dmem[d].result
           /\ workspace' \in {workspace, "deleted"}
  <1>1. CASE DBegin(d) \/ DCheckpoint(d)
        BY <1>1 DEF DBegin, DCheckpoint, launch, row
  <1>2. CASE RecordDeletedWorkspace(d)
        BY <1>2 DEF RecordDeletedWorkspace
  <1>3. CASE CompleteDeletion(d)
        BY <1>3 DEF CompleteDeletion, DAwait, DReport, launch, row, drow
  <1> QED BY <1>1, <1>2, <1>3

\* An accepted deletion keeps the Workspace from being active again, a
\* recorded one is never taken back, and neither is what its closeout says,
\* although the launch and earlier deletion passes may still be running.
THEOREM DeletionStaysFinal == DeletionSpec => DeletionIsFinal
  <1>1. ASSUME DeletionInv, [DeletionNext]_allvars
        PROVE  /\ workspace = "deleted" => workspace' = "deleted"
               /\ workspace = "deleting" => workspace' \in {"deleting", "deleted"}
               /\ closeout.facts \subseteq closeout'.facts
               /\ closeout.refund \in Settled => closeout'.refund = closeout.refund
    <2>1. CASE UNCHANGED allvars
          BY <2>1 DEF allvars, vars, launch, row, dvars, drow
    <2>2. CASE LaunchNext /\ UNCHANGED dvars
      <3>1. workspace \in {"deleting", "deleted"} => workspace' = workspace
            BY <1>1, <2>2, LaunchRows DEF DeletionInv, DeletionAgrees
      <3> QED BY <2>2, <3>1 DEF dvars, drow
    <2>3. CASE DeleteWorkspace \/ DLeaseExpires
          BY <1>1, <2>3
          DEF DeleteWorkspace, DLeaseExpires, launch, row, drow, DeletionInv, DeletionAgrees
    <2>4. ASSUME NEW d \in Deleter,
                 DBegin(d) \/ DCheckpoint(d) \/ RecordDeletedWorkspace(d) \/ CompleteDeletion(d)
          PROVE  /\ workspace = "deleted" => workspace' = "deleted"
                 /\ workspace = "deleting" => workspace' \in {"deleting", "deleted"}
                 /\ closeout.facts \subseteq closeout'.facts
                 /\ closeout.refund \in Settled => closeout'.refund = closeout.refund
      <3>1. /\ \/ closeout' = closeout
               \/ DHolds(d) /\ closeout' = dmem[d].result
            /\ workspace' \in {workspace, "deleted"}
            BY <2>4, HolderWrites
      <3>2. DeletionStands(d) /\ dat[d].step \in DeletionStep
        <4>1. DeletionStands(d) /\ {"record_deleted", "complete"} \subseteq DeletionStep
              BY <1>1 DEF DeletionInv, DeletionStep
        <4>2. \/ dat[d].step \in DeletionStep \/ dat[d].phase = "save"
              \/ DCalls(d, "record_deleted") \/ DCalls(d, "complete")
              BY <2>4 DEF DBegin, DCheckpoint, RecordDeletedWorkspace, CompleteDeletion
        <4> QED BY <4>1, <4>2 DEF DCalls, DeletionStands
      <3> QED BY <3>1, <3>2 DEF DeletionStands, DHolds
    <2>5. ASSUME NEW d \in Deleter, DLease(d) \/ DPass(d) \/ DTimeOut(d) \/ DCrash(d)
          PROVE  /\ workspace = "deleted" => workspace' = "deleted"
                 /\ workspace = "deleting" => workspace' \in {"deleting", "deleted"}
                 /\ closeout.facts \subseteq closeout'.facts
                 /\ closeout.refund \in Settled => closeout'.refund = closeout.refund
          BY <2>4, <2>5, CallsWriteNothing DEF DPass
    <2> QED BY <1>1, <2>1, <2>2, <2>3, <2>5 DEF DeletionNext
  <1> QED BY <1>1, InitDeletionInv, NextDeletionInv, PTL DEF DeletionSpec, DeletionIsFinal
=============================================================================

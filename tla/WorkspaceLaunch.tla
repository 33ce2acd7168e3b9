--------------------------- MODULE WorkspaceLaunch ---------------------------
(***************************************************************************)
(* The Workspace service carrying out one accepted order: services/         *)
(* workspace/internal/launch, create_workspace. Any number of workers may   *)
(* pick the operation up. Each pass takes a holder, reads the operation and  *)
(* walks the steps that are still open: a step is begun in a transaction    *)
(* fenced by the holder, the owner is called without any lock, and the       *)
(* outcome is written in a second fenced transaction. Between the three the *)
(* lease can expire, another worker can take over, and a call can be lost.  *)
(***************************************************************************)
EXTENDS WorkspaceOwners, FiniteSets

CONSTANTS
    Worker,     \* the passes that can run at the same time
    None        \* no lease holder

ASSUME NoneAssumption == None \notin Worker

VARIABLES
    workspace,  \* workspaces.status
    subscribed, \* the subscription and its first period exist
    status,     \* operations.status of create_workspace
    holder,     \* worker_lease_token while worker_lease_until > now(); a pass is
                \* named by its worker
    result,     \* operations.result
    at,         \* a worker's step, and where in the step it is
    mem,        \* a worker's copy of the result
    outcome     \* what a worker is about to write

row == <<workspace, subscribed, status, result>>
pass == <<at, mem, outcome>>
launch == <<row, holder, pass>>

Fact == {"grant", "acceptance", "set", "resources", "receipt", "source", "reservation", "key",
         "command", "deployed"}
Result == [facts : SUBSET Fact, charge : Money]
NoResult == [facts |-> {}, charge |-> "none"]

Terminal == {"succeeded", "failed", "cancelled"}
Status == {"none", "accepted", "running", "awaiting_confirmation", "needs_attention"} \cup Terminal

Step == {"grant", "accept_quote", "ensure_resources", "zero_charge_receipt", "wallet_charge",
         "read_charge", "wallet_action_receipt", "reuse_charge", "refuse_order", "provision",
         "closeout_read", "read_resources", "runtime_capability", "reserve_runtime",
         "create_managed_key", "freeze_command", "deploy_runtime", "read_runtime", "activate"}
Place == [step : Step \cup {"idle", "load", "end"}, phase : {"begin", "call", "save"}]
Outcome == [status : Status, next : Step \cup {"end"}]
NoOutcome == [status |-> "none", next |-> "end"]

LaunchTypeOK ==
    /\ OwnersTypeOK
    /\ workspace \in {"none", "provisioning", "active", "failed", "deleting", "deleted"}
    /\ subscribed \in BOOLEAN
    /\ status \in Status
    /\ holder \in Worker \cup {None}
    /\ result \in Result
    /\ at \in [Worker -> Place]
    /\ mem \in [Worker -> Result]
    /\ outcome \in [Worker -> Outcome]

\* Steps that are not begun in a transaction of their own.
Unbegun == {"reuse_charge", "refuse_order", "runtime_capability", "create_managed_key",
            "freeze_command", "activate"}

Start(s) == [step |-> s, phase |-> IF s \in Unbegun THEN "call" ELSE "begin"]

LaunchInit ==
    /\ OwnersInit
    /\ workspace = "none" /\ subscribed = FALSE /\ status = "none"
    /\ holder = None
    /\ result = NoResult
    /\ at = [w \in Worker |-> Start("idle")]
    /\ mem = [w \in Worker |-> NoResult]
    /\ outcome = [w \in Worker |-> NoOutcome]

-----------------------------------------------------------------------------
(* The order of the steps, decided by what the result already holds.        *)

ToRuntime(r) ==
    CASE "source" \notin r.facts -> "runtime_capability"
      [] "source" \in r.facts /\ "reservation" \notin r.facts -> "reserve_runtime"
      [] {"source", "reservation"} \subseteq r.facts /\ order.keyed /\ "key" \notin r.facts
           -> "create_managed_key"
      [] OTHER -> IF "command" \in r.facts THEN "read_runtime" ELSE "freeze_command"

\* A charge that was answered is not charged again, and one that is open is
\* read and not repeated.
Faulty_ToFunding(r) ==
    IF order.paid
    THEN CASE r.charge = "none" -> "wallet_charge"
           [] r.charge = "open" -> "read_resources"
           [] r.charge = "rejected" -> "refuse_order"
           [] r.charge = "confirmed" -> IF "receipt" \in r.facts THEN "reuse_charge"
                                        ELSE "wallet_action_receipt"
    ELSE IF "receipt" \in r.facts THEN "provision" ELSE "zero_charge_receipt"
ToFunding(r) ==
    IF order.paid
    THEN CASE r.charge = "none" -> "wallet_charge"
           [] r.charge = "open" -> "read_charge"
           [] r.charge = "rejected" -> "refuse_order"
           [] r.charge = "confirmed" -> IF "receipt" \in r.facts THEN "reuse_charge"
                                        ELSE "wallet_action_receipt"
    ELSE IF "receipt" \in r.facts THEN "provision" ELSE "zero_charge_receipt"

\* The intent is repeated until a stored readback confirms the resources.
ToResources(r) ==
    IF {"set", "resources"} \subseteq r.facts THEN ToFunding(r) ELSE "ensure_resources"

ToFirst(r) ==
    CASE "grant" \notin r.facts -> "grant"
      [] "grant" \in r.facts /\ "acceptance" \notin r.facts -> "accept_quote"
      [] OTHER -> ToResources(r)

-----------------------------------------------------------------------------
(* How a pass moves.                                                        *)

Calls(w, s) == at[w] = [step |-> s, phase |-> "call"]

Goto(w, place) == at' = [at EXCEPT ![w] = place]

\* The owner answered: next is the fenced write of result r and status s.
Report(w, r, s, next) ==
    /\ at' = [at EXCEPT ![w].phase = "save"]
    /\ mem' = [mem EXCEPT ![w] = r]
    /\ outcome' = [outcome EXCEPT ![w] = [status |-> s, next |-> next]]
    /\ UNCHANGED <<row, holder>>

\* The pass is over; what it knew and did not write is lost.
Leave(w) ==
    /\ Goto(w, Start("end"))
    /\ mem' = [mem EXCEPT ![w] = NoResult]
    /\ outcome' = [outcome EXCEPT ![w] = NoOutcome]

\* A fenced write went through, and the pass goes on.
GoOn(w, next) ==
    IF next = "end" THEN Leave(w)
    ELSE /\ Goto(w, Start(next))
         /\ mem' = mem
         /\ outcome' = [outcome EXCEPT ![w] = NoOutcome]

\* Control goes on without a write.
Proceed(w, r, place) ==
    /\ Goto(w, place)
    /\ mem' = [mem EXCEPT ![w] = r]
    /\ UNCHANGED <<row, holder, outcome>>

With(r, f) == [r EXCEPT !.facts = @ \cup {f}]
Without(r, f) == [r EXCEPT !.facts = @ \ {f}]

\* failedCall: the outcome is unknown, the order waits for the next pass.
Await(w) == Report(w, mem[w], "awaiting_confirmation", "end")

\* The fence of every write of a pass.
Faulty_Holds(w) == holder # None /\ status \notin Terminal
Holds(w) == holder = w /\ status \notin Terminal

-----------------------------------------------------------------------------
(* The operation, its lease and its passes.                                 *)

CreateWorkspace ==
    /\ status = "none"
    /\ status' = "accepted"
    /\ workspace' = "provisioning"
    /\ UNCHANGED <<owners, subscribed, result, holder, pass>>

\* RunOnce picks every open launch, one that needs attention included.
Picked == status \in {"accepted", "running", "awaiting_confirmation", "needs_attention"}

Lease(w) ==
    /\ at[w].step = "idle"
    /\ Picked
    /\ holder = None
    /\ holder' = w
    /\ Goto(w, Start("load"))
    /\ UNCHANGED <<owners, row, mem, outcome>>

\* The operation is read after the lease is taken.
Load(w) ==
    /\ at[w].step = "load"
    /\ Proceed(w, result, Start(ToFirst(result)))
    /\ UNCHANGED owners

BeginStep(w) ==
    /\ at[w].step \in Step /\ at[w].phase = "begin"
    /\ IF Holds(w)
       THEN /\ status' = "running"
            /\ at' = [at EXCEPT ![w].phase = "call"]
            /\ UNCHANGED <<mem, outcome>>
       ELSE status' = status /\ Leave(w)
    /\ UNCHANGED <<owners, workspace, subscribed, result, holder>>

Checkpoint(w) ==
    /\ at[w].phase = "save"
    /\ IF Holds(w)
       THEN /\ result' = mem[w]
            /\ status' = outcome[w].status
            /\ workspace' = IF status' = "failed" THEN "failed" ELSE workspace
            /\ GoOn(w, outcome[w].next)
       ELSE UNCHANGED <<result, status, workspace>> /\ Leave(w)
    /\ UNCHANGED <<owners, subscribed, holder>>

\* The deferred release names the token, so it frees no successor's lease.
Release(w) ==
    /\ at[w].step = "end"
    /\ holder' = IF holder = w THEN None ELSE holder
    /\ Goto(w, Start("idle"))
    /\ UNCHANGED <<owners, row, mem, outcome>>

\* The pass runs out of its 45 seconds, or a database call fails.
TimeOut(w) ==
    /\ at[w].step \notin {"idle", "end"}
    /\ Leave(w)
    /\ UNCHANGED <<owners, row, holder>>

\* The process dies, and with it everything that was not written.
Crash(w) ==
    /\ at[w].step # "idle"
    /\ Goto(w, Start("idle"))
    /\ mem' = [mem EXCEPT ![w] = NoResult]
    /\ outcome' = [outcome EXCEPT ![w] = NoOutcome]
    /\ UNCHANGED <<owners, row, holder>>

LeaseExpires ==
    /\ holder # None
    /\ holder' = None
    /\ UNCHANGED <<owners, row, pass>>

-----------------------------------------------------------------------------
(* Grant, quote and resource intent.                                        *)

IssueGrant(w, heard) ==
    /\ Calls(w, "grant")
    /\ heard \in {"ok", "lost"}
    /\ LET r == With(mem[w], "grant")
       IN IF heard = "ok" THEN Report(w, r, "running", ToFirst(r)) ELSE Await(w)
    /\ UNCHANGED owners

\* Only Catalog's explicit refusal ends the order.
AcceptQuoteStep(w, heard) ==
    /\ Calls(w, "accept_quote")
    /\ Ask(AcceptQuote, heard)
    /\ CASE heard = "ok" -> LET r == With(mem[w], "acceptance")
                            IN Report(w, r, "running", ToResources(r))
         [] heard = "refused" -> Report(w, mem[w], "failed", "end")
         [] OTHER -> Await(w)

\* Without a receipt the call only records the intent.
IntendResources(w, heard) ==
    /\ Calls(w, "ensure_resources")
    /\ Ask(LAMBDA a : EnsureResources(FALSE, a), heard)
    /\ CASE heard = "ok" -> LET r == With(mem[w], "set")
                            IN Report(w, r, "awaiting_confirmation", ToFunding(r))
         [] heard = "denied" -> Report(w, mem[w], "needs_attention", "end")
         [] OTHER -> Await(w)

-----------------------------------------------------------------------------
(* Funding.                                                                 *)

\* finishWalletCharge: what the wallet answered decides how the pass goes on.
FinishCharge(w, answer) ==
    LET r == [mem[w] EXCEPT !.charge = answer]
    IN CASE answer = "confirmed" -> Proceed(w, r, Start("wallet_action_receipt"))
         [] answer = "rejected" -> Report(w, r, "needs_attention", "end")
         [] answer = "open" -> Report(w, r, "awaiting_confirmation", "read_resources")

\* A definite error means no charge; any other is read back at once.
WalletCharge(w, heard) ==
    /\ Calls(w, "wallet_charge")
    /\ Ask(Debit, heard)
    /\ CASE heard \in Settled -> FinishCharge(w, heard)
         [] heard = "refused" -> Await(w)
         [] OTHER -> Proceed(w, mem[w], [step |-> "read_charge", phase |-> "call"])

Raw_ReadChargeStep(w, heard) ==
    /\ Calls(w, "read_charge")
    /\ Ask(ReadCharge, heard)
    /\ Report(w, [mem[w] EXCEPT !.charge = heard], "awaiting_confirmation", "read_resources")
Faulty_ReadChargeStep(w, heard) ==
    /\ Calls(w, "read_charge")
    /\ Ask(ReadCharge, heard)
    /\ IF heard \in Settled \cup {"open"} THEN FinishCharge(w, heard)
       ELSE Report(w, mem[w], "failed", "end")
ReadChargeStep(w, heard) ==
    /\ Calls(w, "read_charge")
    /\ Ask(ReadCharge, heard)
    /\ IF heard \in Settled \cup {"open"} THEN FinishCharge(w, heard) ELSE Await(w)

ReuseCharge(w) ==
    /\ Calls(w, "reuse_charge")
    /\ Report(w, mem[w], "running", "provision")
    /\ UNCHANGED owners

RefuseOrder(w) ==
    /\ Calls(w, "refuse_order")
    /\ Report(w, mem[w], "needs_attention", "end")
    /\ UNCHANGED owners

\* zeroChargeReceipt and walletActionReceipt: append, then read back.
FundingReceipt(w, heard) ==
    /\ Calls(w, "zero_charge_receipt") \/ Calls(w, "wallet_action_receipt")
    /\ Ask(AppendFunding, heard)
    /\ IF heard = "ok" THEN Report(w, With(mem[w], "receipt"), "running", "provision")
       ELSE Await(w)

-----------------------------------------------------------------------------
(* Resources.                                                               *)

\* A denied continuation keeps the denial, and observes what is there.
Provision(w, heard) ==
    /\ Calls(w, "provision")
    /\ Ask(LAMBDA a : EnsureResources(TRUE, a), heard)
    /\ CASE heard = "ok" -> Report(w, mem[w], "awaiting_confirmation", "read_resources")
         [] heard = "denied" -> Report(w, mem[w], "needs_attention", "closeout_read")
         [] OTHER -> Await(w)

\* The stored readback is replaced by the new one, whatever it says.
Observed(r, heard) ==
    IF heard \in {"confirmed", "absent"} THEN With(r, "resources") ELSE Without(r, "resources")

ReadResourcesStep(w, heard) ==
    /\ Calls(w, "read_resources")
    /\ Ask(ReadResources, heard)
    /\ LET r == Observed(mem[w], heard)
           next == IF heard = "confirmed" /\ "receipt" \in r.facts THEN ToRuntime(r) ELSE "end"
       IN IF heard = "lost" THEN Await(w)
          ELSE Report(w, r, "awaiting_confirmation", next)

CloseoutRead(w, heard) ==
    /\ Calls(w, "closeout_read")
    /\ Ask(ReadResources, heard)
    /\ Report(w, IF heard = "lost" THEN mem[w] ELSE Observed(mem[w], heard),
              "needs_attention", "end")

-----------------------------------------------------------------------------
(* Runtime and activation.                                                  *)

ResolveSource(w, heard) ==
    /\ Calls(w, "runtime_capability")
    /\ heard \in {"ok", "lost"}
    /\ LET r == With(mem[w], "source")
       IN IF heard = "ok" THEN Report(w, r, "running", ToRuntime(r)) ELSE Await(w)
    /\ UNCHANGED owners

ReserveRuntime(w, heard) ==
    /\ Calls(w, "reserve_runtime")
    /\ Ask(Reserve, heard)
    /\ LET r == With(mem[w], "reservation")
       IN IF heard = "ok" THEN Report(w, r, "running", ToRuntime(r)) ELSE Await(w)

\* The key is asked for outside any fenced step; its handover is written with
\* the frozen command.
BindManagedKey(w, heard) ==
    /\ Calls(w, "create_managed_key")
    /\ Ask(CreateManagedKey, heard)
    /\ LET r == With(mem[w], "key")
       IN IF heard = "ok" THEN Proceed(w, r, Start(ToRuntime(r))) ELSE Await(w)

\* The full command is frozen before it is dispatched.
Faulty_FreezeCommand(w) ==
    /\ Calls(w, "freeze_command")
    /\ Proceed(w, With(mem[w], "command"), Start("deploy_runtime"))
    /\ UNCHANGED owners
FreezeCommand(w) ==
    /\ Calls(w, "freeze_command")
    /\ Report(w, With(mem[w], "command"), "running", "deploy_runtime")
    /\ UNCHANGED owners

DeployRuntime(w, heard) ==
    /\ Calls(w, "deploy_runtime")
    /\ Ask(Deploy, heard)
    /\ IF heard = "ok"
       THEN Report(w, With(mem[w], "deployed"), "awaiting_confirmation", "read_runtime")
       ELSE Await(w)

\* An unacknowledged start is repeated when its runtime was never started or
\* cannot be read; readiness of a paid order goes on to its activation.
ReadRuntimeStep(w, heard) ==
    /\ Calls(w, "read_runtime")
    /\ Ask(ReadRuntime, heard)
    /\ LET again == "deployed" \notin mem[w].facts /\ heard \in {"unstarted", "lost"}
           next == CASE again -> "deploy_runtime"
                     [] ~again /\ heard = "ready" /\ order.paid -> "activate"
                     [] OTHER -> "end"
       IN Report(w, mem[w],
                 IF heard = "failed" THEN "needs_attention" ELSE "awaiting_confirmation", next)

\* One transaction: the subscription, its period, the Workspace and the order.
Faulty_Activate(w) ==
    /\ Calls(w, "activate")
    /\ subscribed' = TRUE
    /\ IF Holds(w) /\ workspace = "provisioning"
       THEN workspace' = "active" /\ status' = "succeeded"
       ELSE UNCHANGED <<workspace, status>>
    /\ Leave(w)
    /\ UNCHANGED <<owners, result, holder>>
Activate(w) ==
    /\ Calls(w, "activate")
    /\ IF Holds(w) /\ workspace = "provisioning"
       THEN /\ subscribed' = TRUE /\ workspace' = "active" /\ status' = "succeeded"
            /\ Leave(w)
            /\ UNCHANGED <<owners, result, holder>>
       ELSE Await(w) /\ UNCHANGED owners

-----------------------------------------------------------------------------
\* The steps of a pass that the Workspace service takes alone.
Walk(w) ==
    \/ Load(w) \/ BeginStep(w) \/ Checkpoint(w) \/ Release(w)
    \/ ReuseCharge(w) \/ RefuseOrder(w) \/ FreezeCommand(w) \/ Activate(w)

\* The steps that call an owner, and what is heard of the call.
Called(w, heard) ==
    \/ IssueGrant(w, heard) \/ AcceptQuoteStep(w, heard) \/ IntendResources(w, heard)
    \/ WalletCharge(w, heard) \/ ReadChargeStep(w, heard) \/ FundingReceipt(w, heard)
    \/ Provision(w, heard) \/ ReadResourcesStep(w, heard) \/ CloseoutRead(w, heard)
    \/ ResolveSource(w, heard) \/ ReserveRuntime(w, heard) \/ BindManagedKey(w, heard)
    \/ DeployRuntime(w, heard) \/ ReadRuntimeStep(w, heard)

Pass(w) == Walk(w) \/ (at[w].phase = "call" /\ \E heard \in Answer : Called(w, heard))

Settles == WalletDecides /\ UNCHANGED launch

LaunchNext ==
    \/ CreateWorkspace
    \/ LeaseExpires
    \/ Settles
    \/ \E w \in Worker : Lease(w) \/ Pass(w) \/ TimeOut(w) \/ Crash(w)

vars == <<owners, launch>>
LaunchSpec == LaunchInit /\ [][LaunchNext]_vars

\* A call in calm times: it is answered, and the owner does what it was asked
\* for if it can. Only what is heard and what the owner did are restricted; a
\* charge may be refused, or left open while it is open, and Gateway may refuse
\* the key. What the worker makes of the answer is its own affair.
Helpful(w, heard) ==
    /\ heard \notin {"lost", "denied"}
    /\ heard = "open" => charge' = "open"
    /\ at[w].step = "provision" => set' = "provisioned"
    /\ at[w].step = "deploy_runtime" => heard = "ok" /\ fulfilled'
    /\ at[w].step = "read_runtime" /\ runtime # "reserved" => heard = "ready"

\* A worker that is not interrupted, and whose calls are helpful.
CalmPass(w) ==
    \/ Lease(w) \/ Walk(w)
    \/ at[w].phase = "call" /\ \E heard \in Answer : Called(w, heard) /\ Helpful(w, heard)

\* A lease outlives the pass that holds it.
CalmExpiry == LeaseExpires /\ at[holder].step \in {"idle", "end"}

Calm == CalmExpiry \/ Settles \/ \E w \in Worker : CalmPass(w)

\* RunOnce runs every five seconds, passes run until they stop, and leases
\* expire. From some time on the environment is calm. Every state allows a
\* calm future: a worker that has no step left simply stops, and a delivery
\* that is then missing is reported.
Fairness ==
    /\ WF_vars(\E w \in Worker : CalmPass(w))
    /\ WF_vars(CalmExpiry)
    /\ WF_vars(Settles)
    /\ <>[][Calm]_vars

LaunchFairSpec == LaunchSpec /\ Fairness

-----------------------------------------------------------------------------
(* Properties.                                                              *)

\* The operation row keeps what any pass wrote: no fact but the replaceable
\* readback disappears and a settled charge is never rewritten, however late
\* a pass that lost its lease reaches its write.
FactsAreKept ==
    [][/\ result.facts \ {"resources"} \subseteq result'.facts
       /\ result.charge \in Settled => result'.charge = result.charge]_vars

\* Every effect is preceded by the record a restart needs: money moves only
\* for a stored acceptance and resource intent, a workload is asked for only
\* by a stored command, and with a key only by a stored handover.
RecordedBeforeEffect ==
    /\ charge # "none" => {"acceptance", "set"} \subseteq result.facts
    /\ runtime \in Started => {"receipt", "reservation", "command"} \subseteq result.facts
    /\ runtime \in Started /\ order.keyed => "key" \in result.facts

\* A launch that ended as failed is never picked up again, so it may leave
\* nothing behind: no charge, decided or not, and no resource.
FailedOwesNothing == status = "failed" => charge = "none" /\ set = "none"

\* A refused charge serves nothing, and an entitlement exists exactly for the
\* order that succeeded: paid, recorded by Ledger, and seen ready by Serve.
EntitledIsServed ==
    /\ subscribed <=> status = "succeeded"
    /\ workspace = "active" => subscribed
    /\ subscribed => charge = "confirmed" /\ "receipt" \in result.facts /\ fulfilled
    /\ charge = "rejected" => set \in {"none", "intended"} /\ runtime = "none"

\* Money taken is followed by the delivery it paid for, whatever answers are
\* lost and passes interrupted on the way. The one exception is an
\* application whose key Gateway refuses: that order stays open.
PaidIsDelivered == charge = "confirmed" ~> (subscribed \/ key = "refused")
=============================================================================

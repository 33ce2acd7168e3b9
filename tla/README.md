# OPL Cloud: a TLA+ verification project

OPL Cloud (Go, `services/`) sells and runs cloud workbenches ("Workspaces").
An order is carried by several *owner* services, each with its own database
schema; no transaction spans two of them. Money moves in an external wallet,
machines live in an external cloud, and every call between owners can be lost,
delayed, repeated or answered late. This project models the parts where that
matters most and checks, and where possible proves, what must hold anyway.

## 1. The system

| Component | State it keeps | Operations that change it | Talks to |
| --- | --- | --- | --- |
| `services/gateway-integration` (wallet) | `gateway.wallet_operations`, `gateway.tenant_wallet_bindings`, the `close:<workspace>` journal entry | `BindWallet`, `Debit`, `Refund`, `ReadWalletAction`, closeout half of `DisableManagedKey` | Sub2API (external wallet), called by Workspace |
| `services/gateway-integration` (managed keys) | key journal, key handles | `CreateManagedKey`, `RevokeManagedKey`, `DisableManagedKey`, `ReadManagedKey` | Sub2API, Vault, Workspace |
| `services/gateway-integration` (tenant identity) | tenants, members, sessions, grants | login, membership, operation grants | every owner verifies its grants |
| `services/workspace` (launch saga) | `workspace.operations` (status, result, lease), `workspace.workspaces`, subscriptions, entitlement periods | `LaunchWorkspace`, `Resume` (recovery worker), `DeleteWorkspace`, suspend and resume | Catalog, Fabric, Gateway, Ledger, Serve |
| `services/fabric` | resource sets, provider operations | `EnsureResources`, `DeleteResources`, `ReadResources`, provider adapters | cloud provider, Gateway, Ledger |
| `services/serve` | deployments, runtime instances, recorded actions, the route | `Reserve`, `Deploy`, `UpdateWorkspaceVersion`, `RollbackWorkspace`, `ReadRuntime`, `Retire` | Fabric, Capability, the TKE executor |
| `services/ledger` | receipts, event inbox | record receipt, event consumer | every owner |
| `services/resource-catalog` | plans, quotes, acceptances | quote, accept | Workspace |
| `services/capability`, `services/build` | package revisions, uploads, reference claims, build jobs | publish, acquire/bind/release a claim, build | Serve, each other |
| `services/runtime-control` | runtime versions, one build policy | register, set status, set policy | Build, Capability |
| `services/internal/ownerstore` | operations, outbox, inbox of an owner | create, start, complete, deliver, acknowledge | the owners of a database |
| `services/control-plane` | its own store of the old launch | kept during the migration to the owners above (`docs/architecture.md:148`) | Fabric |
| `apps/console-bff`, `apps/console-ui` | sessions only | relays user commands | the owners |

How one order runs: the Console sends `LaunchWorkspace`; Workspace writes the
order and an operation row; a *recovery worker* (`recovery.go`) leases the row
and performs one pass: it obtains an operation grant, accepts the quote at the
Catalog, declares the resources at Fabric, charges the wallet at Gateway, has
the charge receipted by Ledger, repeats the declaration with the receipt so
that Fabric may dispatch to the cloud, waits for the resources, binds a managed
key, deploys at Serve, waits for the runtime and finally activates the
Workspace and its paid period in one local transaction. After every owner call
the pass checkpoints the result under its lease. A pass that ends early leaves
the row to the next one. Deletion cancels the launch, retires the runtime,
closes the key, deletes the resources, waits until their absence is confirmed
and refunds the unused part.

What is hard here, and why tests barely reach it:

* a lease expires while its holder still works, and two workers drive one order;
* the process dies between an owner's effect and the checkpoint that records it;
* an answer is lost after the effect, so the same command is sent again;
* deletion arrives in the middle of a launch pass that already holds answers;
* the wallet changes the balance first and shows the audit record later;
* a tenant is bound to another wallet between a charge and its refund;
* a closeout asks "was there ever a charge?" while a charge is on its way;
* an event is delivered by two replicas at once, or handled after its caller
  gave up, or stands behind one that its consumer refuses for ever;
* a build worker loses the database session that is its lock and goes on, or
  stops while the exporter it started is still pushing;
* a Workspace is suspended, recovered and deleted at the same time, by replicas
  that listed it in different states, over a key whose real state only the
  external authority knows;
* an application is replaced while Pods drain slowly, the caller retries with
  the same key, another caller switches again and the Workspace is closed.

`PROJECT.json` lists these hazards at the lines where they bite, with the
properties that cover each.


For each part that is modelled, correctness means:

* **wallet**: one command moves money at most once; refunds stay within their
  charge and reach the wallet that paid; a definite answer is true and stays so;
  money that moved is eventually seen;
* **launch**: a repeated or late pass never destroys what another one wrote;
  effects can always be found again from what is stored; an order that ended
  owes nothing; an entitlement is paid, evidenced and served; paid orders are
  delivered;
* **deletion**: when it says it succeeded nothing runs, nothing can come back
  and the money is right; nothing is refunded before absence is proved; it is
  never undone;
* **events**: what happened in one owner is applied by each consumer exactly
  once, and the producer forgets it only after that;
* **build**: a job is exported once, an image becomes one version, only under
  claims on its inputs, and Build and Capability agree on how the job ended;
* **suspension and recovery**: an unpaid Workspace loses its standing and its
  key, a paid one gets both back, and neither happens to a deleted one;
* **replacement**: two applications that cannot share their data never hold it
  together, one switch is undecided at a time, a route follows the newest
  delivery, a closed Workspace runs nothing, and a failed switch is undone.

## 2. Modules

| Module | Models |
| --- | --- |
| `GatewayWallet` | the wallet half of Gateway Integration, with the external wallet |
| `WorkspaceOwners` | what Catalog, Gateway, Ledger, Fabric and Serve promise to an order |
| `WorkspaceLaunch` | `create_workspace`: extends `WorkspaceOwners` |
| `WorkspaceDeletion` | `delete_workspace`: extends `WorkspaceLaunch` and composes with it |
| `WorkspaceOrder` | what the customer of an order is promised (abstract); launch and deletion implement it |
| `EventDelivery` | what the owners promise each other about events (abstract) |
| `OwnerEvents` | outbox, inbox and delivery loop; instantiates `EventDelivery` as `Promise` |
| `BuildRegistration` | a build from acceptance to a registered version: Build, Capability, Runtime Control |
| `WorkspaceLifecycle` | suspension and recovery of a delivered Workspace over its key, with its deletion |
| `ServeReplacement` | update and rollback of the application a Workspace serves, with its closeout |
| `GatewayWalletProofs`, `WorkspaceLaunchProofs`, `WorkspaceDeletionProofs`, `OwnerEventsProofs`, `BuildRegistrationProofs`, `WorkspaceLifecycleProofs`, `ServeReplacementProofs`, `WorkspaceOrderProofs` | the inductive invariant of each of these models, and its theorems (section 5) |
| `MC...` | the models for TLC: symmetry, small values, a view |

A definition whose name starts with `Faulty_` (or `Raw_`) is the definition that
follows it with one plausible mistake in it. No specification uses one;
substituting it shows that a property notices the mistake.

### GatewayWallet

State: `row` is `gateway.wallet_operations` by business key, `binding` the
tenant's wallet bindings, `closing` the journal entry written by the closeout,
`guard` the advisory lock `gateway.workspace_key`; `native` is the external
wallet per code; `told` is the last definite answer a caller received. Each
concurrent request has a program counter `pc` and what it has read so far.

| Action | Code |
| --- | --- |
| `BindWallet` | `BindWalletBinding`, one transaction |
| `Debit`, `Refund`, `GuardWorkspaceKey`, `CheckClosing`, `ReadBinding` | `walletAction` up to the reservation |
| `ReserveNew`, `ReserveExisting` | `ReserveWalletOperation` and the branch on its result |
| `AdjustRefusedLocally`, `AdjustBalance`, `AdjustAnswered` | `AdjustBalance` before, at and after its one POST |
| `ConfirmWalletOperation`, `ReconcileWalletOperation` | reading the native history |
| `SettleWalletOperation`, `GatewayStoreRead` | the UPDATE and the later SELECT that answers |
| `ReadWalletAction`, `ReadFence`, `LookupWalletOperation`, `ConfirmAbsence` | the read, with and without `ConfirmClosedAbsence` |
| `CloseWorkspace`, `FenceWorkspaceKey`, `FinishClose` | `closeWorkspaceManagedKey` as far as it concerns charges |
| `Abandon` | a crash, an expired context or a failing read anywhere |
| `UpstreamApply`, `UpstreamRefuse`, `UpstreamAudit` | external: the wallet decides a POST, then writes the audit record |

Every transaction is one step and everything between two transactions may be
interleaved. Left out: authorisation refusals (no state touched), a second
Tenant or Workspace (rows and locks are keyed by them), and a database session
that dies under a handler which keeps running: the advisory lock lives on that
session, and the code notices its loss only when it rolls back.
Assumed of the external wallet: a 4xx answer means that the POST had no effect;
one POST changes the balance at most once; the audit record follows the change.


### WorkspaceOwners

One operator per remote operation, with the answer as its parameter; each is one
atomic step of one owner. `Ask(Operation, heard)` is a call over the network:
the caller hears the answer, or hears nothing although the operation happened,
or hears nothing because it did not. Nothing is assumed about how often a
command arrives, since every pass may repeat it.

| Variable | Owner and code |
| --- | --- |
| `quote` | Catalog, `AcceptQuote` |
| `charge`, `refund` | Gateway, the rows of `GatewayWallet` reduced to none, open, confirmed, rejected |
| `key`, `closing` | Gateway, the managed-key journal and the `close:` barrier |
| `receipts` | Ledger |
| `set`, `releasing` | Fabric, the resource set and whether a `resource_delete` operation exists |
| `runtime`, `retiring`, `fulfilled` | Serve, the runtime, its retirement and `activated_at` |

The three barriers `closing`, `releasing` and `retiring` are what keeps a
cancelled launch from creating something behind a deletion. A resource set that
was declared but never confirmed by the provider stays unknown after a release:
Fabric has no attachment identity for it and does not infer absence
(`delete.go:212-214`).

Abstractions: each owner call is atomic, because the owners hold an advisory
lock on the Workspace over checks and effects. Three places are coarser than
that. `Deploy` accepts the command and reconciles in two transactions; the
second checks the retirement again, so a retirement in between only changes the
answer to a launch that is already cancelled. `DeleteResources` compares the
version before it takes the lock, which adds a second way into the refused
replay of section 4 and no other behaviour. Appending a receipt and
reading it back is one call. `DataLoss` answers (an owner's row that contradicts
the order) and deployments without one of the owners configured are left out.
Fabric never writes a rejected observation for a resource set
(`resume.go:109` is the only UPDATE), so the branches on it are not modelled.

### WorkspaceLaunch

| Variable | Code |
| --- | --- |
| `status`, `result` | `workspace.operations.status`, `.result` (`orderResult`), reduced to which facts it holds |
| `holder` | `worker_lease_token` while `worker_lease_until > now()` |
| `workspace`, `subscribed` | `workspaces.status`; subscription and first period |
| `at`, `mem`, `outcome` | where a pass of `Resume` is, its in-memory result, what it is about to write |

A step has three phases, as in the code: `begin` (`beginStep`, fenced), `call`
(the owner, no lock held) and `save` (`checkpointBytes`, fenced). `Holds` is the
fence. `BeginStep`, `Checkpoint`, `Lease`, `Load`, `Release`, `TimeOut`, `Crash`
and `LeaseExpires` are common to all steps; one action per owner call does the
rest, and `ToFirst`, `ToResources`, `ToFunding`, `ToRuntime` say which step is
open for a stored result. A lease may expire at any moment, which is weaker
than the code's 60 seconds against 45 of a pass and lets a late worker reach
every write. A Local order stays open after its runtime is ready, as
`readRuntime` activates paid orders only.

Left out: the `stage` and `observation` columns, `next_attempt_at` (a delay
before the next pass), user authorization. A Workspace has one active launch, so
`active_operation_id` is the state `provisioning`.

### WorkspaceDeletion

Adds the deletion's operation (`deletion`, `closeout`, `dholder`), its passes
(`dat`, `dmem`, `dout`) and `command`, the version in the `input_snapshot` of its
`delete_resources` step. `DeleteWorkspace` cancels an open launch in the same
transaction, so the launch row no longer changes and serves as the frozen input
of the deletion; the launch's worker is not told and goes on until its next
fenced write. `ToCloseout` to `ToRefund` give the order of the steps, and
`Counted` the counter of consecutive unconfirmed passes of one step.
`DLease` stands for `RunOnce` and for `replayDeletion`, which also takes up a
deletion that needs attention. The amount of a refund is reduced to whether the
paid month was used up (`spent`), decided when the deletion is dated.

Left out: the closeout of a Workspace whose model configuration was changed
(`KEY_BINDING_UNRESOLVED`), because `models_update.go` is not modelled.

### WorkspaceOrder

One order as its customer sees it, without workers, leases, retries, lost answers
or copies: twelve variables and eighteen actions, in the sequence the design
intends. It is agreed, charged and funded before it holds resources, served before
it is entitled; when it leaves, its workload stops before its resources go, both
are gone before the key is disabled and the removal attested, it is erased once
that is attested, refunded only when erased, and closed only with its key unusable and its
money settled. Each step happens once. The specification also says what is *not*
promised, where the code is weaker than one might expect: a charge is possible
while the order is leaving (and is then given back), a Local order may be funded
after it was closed, and a workload may be restarted at any time before its stop.

`WorkspaceDeletion` instantiates it as `Contract`. The mapping (`Held`, `Workload`,
`Funded`, `Attested`, `Closed`) reads the owners and the rows only, never the
memory of a pass: an intent Fabric only recorded holds nothing, a start Serve only
recorded runs nothing, and "gone" is a state *with its barrier*, so that a stutter
of the contract is also a proof that no late call brings anything back.

### EventDelivery and OwnerEvents

`EventDelivery` has three variables and three actions: deliveries become owed,
a consumer applies one, the producer settles one that was applied. `OwnerEvents`
is the code: the row of `outbox_deliveries` in the queue `due` or `deferred`
(`next_attempt_at`), `acked`, the consumers' `inbox`, and per loop the `batch` it
read and the state of its `call`. `PendingDeliveries` reads without lock or lease,
so two loops hold the same row. A consumer's `Deliver` is two steps, the look at
the inbox without a lock (`Call`) and the transaction (`Commit`), and `TimeOut`
leaves the handler behind to commit later. The refinement mapping takes `owed`
from the events that were appended and `settled` from `acked`.

The loop is the one of Build (`worker.go:335-375`); Capability, Serve and the
Catalog run the same shape. `RecordDeliveryFailure` puts the row behind those
already deferred, since all loops add the same five seconds (Serve waits a minute
for a payload it cannot decode, which no later attempt can deliver either). Left out: revisions
and conflicting identities (an event identity has one payload here), which
`DecideInbox` answers without changing anything.

### BuildRegistration

| Variable | Code |
| --- | --- |
| `status`, `granted`, `saved`, `artifact`, `failures`, `received` | `build_jobs` and `build_artifacts`, Build's outbox and inbox |
| `lock`, `todo`, `at`, `seen` | a worker's pass: the session lock, the jobs listed, where `advance` is and the record it read |
| `started`, `running`, `registry` | external: exporters and what they pushed |
| `approved`, `claim` | the status of the three inputs, `capability.reference_claims` |
| `artifactEvent`, `versionEvent`, `calls`, `versions` | the two events and Capability's `Deliver` |

`advance` is one action per statement that another process can come between:
`StageValidating`, `Grant`, `AcquireReference` and `BindReference` per input,
`SaveClaims`, `StageBuilding`, `StartExporter`, `ExportedAll`, `Rejected` or
`OutcomeUnknown`, `StagePushing`, `Confirm`; a job found in a later stage goes
through `ReadManifest` or `ReadNothing` instead. `Abandon` ends a pass anywhere,
`LoseLock` takes the lock from a worker that does not notice. Events are those of
`EventDelivery`: pending until acknowledged, handled any number of times.
`Register` is Capability's transaction and may come any time after
`ValidateFrozenInput`.

Left out: identities of the artifact (one digest per job), the idempotent replay
of `CreateBuild`, `ReadClaimUsage` beyond the terminal check it makes.

### WorkspaceLifecycle

One delivered Workspace with a key. `event` holds the unfinished
`suspend_workspace` and `resume_workspace`, with attempts and lease; `pass` is
where each replica is. The sweeps (`SuspendExpired`, `SuspendLost`,
`RecoverRestored`) list, `ObserveResources` asks Fabric, `OpenLifecycleOperation`
decides again under the advisory lock, `ApplyLifecycle` and `LeaseLifecycle` take
the event up, and the rest are the statements of `applySuspension` and
`applyRecovery` with Gateway's handler spelled out: read, set at the external
authority, read back, mark. `CheckpointLifecycle` is the only write that is
fenced by the lease. The deletion takes part with its status and its own
`DisableManagedKey`. `overtaken` is a history variable: it becomes true when two
events are leased at once, a lease ends under its holder, or a request outlives
its caller. The two key invariants are stated up to that, because the code has
nothing that orders such effects (see section 4); the run reaches both sides.

Left out: renewals, since no code of the service extends a period;
`models_update.go` and `retry_initial_runtime.go`. There is one Workspace, so the
`LIMIT 20` of the three sweeps (`lifecycle.go:715`, `744`, `795`) is outside the
model: the two liveness properties are about a Workspace that the sweeps reach,
and say nothing of one that stays behind 20 others.

### ServeReplacement

| Variable | Code |
| --- | --- |
| `row` | `agent_deployments`, its instance and its operation, with epoch and predecessor |
| `action` | `agent_runtime_actions`: intents of start, stop, resume, terminate, retire and whether they are confirmed |
| `app` | external: what the executor runs, Pods that drain and are removed included |
| `route`, `closed`, `lock`, `run` | the access binding, the `runtime_retire` operation, the Workspace lock, the handlers |

`Request` is a call under an idempotency key, new or repeated. The steps follow
`runReplacement`: refuse, accept, admit or replay, record the start, stop the
displaced writer if the data cannot be shared (`LockTransition` to
`RecordTransition`, over which the session lock is held), start and observe in one
transaction, read back, and after a definite failure remove the runtime and
restore the writer. `Retire` and `RetireRuntime` are the closeout. `MayBreak`
says whether a call can end anywhere; the violation run does without.

The session lock of `lockRuntimeTransition` (`runtime_lifecycle.go:168`) is held on
a connection of its own while the executor is called. The model assumes that it is
not lost while its handler goes on: a handler whose PostgreSQL session drops ends
there (`Break`). In the code it would notice only at its next statement on that
connection, so `ClosedIsEmpty` and `DisplacedWriterIsDown` rest on the assumption.

Left out: the compatibility gate and the reference claims (they refuse before any
state changes), authorization grants, the `rejected` diagnostic on a start action
and `needs_attention` marks, `StopRuntime`, `Reload` and `reconcileRuntime`, which
act on a runtime without a switch.

## 3. Runs

| Run | Question | Instance and result |
| --- | --- | --- |
| `wallet` | can a command move money twice, can refunds exceed a charge, who gets them, does a confirmed absence stay true | 2 handlers, 1 charge, 2 refunds, 2 bindings, 1 interruption; holds, 516 thousand states |
| `wallet_live` | is money that moved ever recorded | 2 handlers, 1 charge, 1 refund, 1 interruption; holds, 81 thousand states |
| `workspace_launch` | safety of the launch under takeover | 2 workers; holds, 705 thousand states |
| `workspace_launch_live` | is a paid order delivered | 1 worker; holds, 7.8 thousand states |
| `workspace_deletion` | safety of the deletion against a late launch; do both keep the contract of `WorkspaceOrder` | 1 worker, 1 deletion pass, limit 1; holds, 820 thousand states |
| `owner_events` | do the tables keep the promise of `EventDelivery` | 2 events, the first always refused, 2 loops of which 1 may stop for ever, batch 1, 2 late handlers; holds, 4.6 thousand states |
| `build` | one export, one version, under claims, one end | 1 job, 2 workers, 1 withdrawn approval, 1 released claim, 2 handlers of an event, 1 lost lock; holds, 2.4 million states |
| `build_live` | does a build leave the queue unless a full page of parked jobs hides it, is a confirmed artifact registered | 2 jobs behind one that is parked from the start, pages of 2, 1 worker; holds, 42 thousand states |
| `lifecycle` | do standing and key agree, is a deletion final | 2 workers, 2 changes of the resources, 1 lapsed lease, limit 1; holds, 1.5 million states |
| `lifecycle_live` | is an unpaid Workspace suspended and a paid one recovered | 1 worker, 2 changes, 1 broken pass, limit 2; holds, 98 thousand states |
| `serve` | safety of a replacement | an update and a rollback, both sides exclusive in part, 2 handlers that may break; holds, 367 thousand states |
| `serve_failed` | is a failed switch undone when its caller retries | 1 update, 1 handler, nothing breaks, fair; **violated** |

Why these bounds are enough to matter. Two handlers or workers are needed for
every race on one row, and a third could only repeat what one of the two does,
since rows carry no count of their users; the proofs remove this bound for every
safety property. In particular the deletion's theorems cover overlapping deletion
passes, for which the run would be too large. Two refunds are the smallest way to
exceed a charge. Two bindings are the smallest rebinding. `MaxFault` bounds the
interruptions of a handler. All four kinds of order (paid or Local, with or
without a key) are initial states.
`RecoveryLimit` is 12 in the code; with 1 every wait reaches needs_attention at
once, and from there a repeated `DeleteWorkspace` goes on, so all interleavings
of steps remain while the counters are irrelevant. The view of `workspace_deletion`
leaves them out, and what a pass of an ended launch knows once it is not at a
call: the fence refuses everything it could still write. The lifecycle's liveness
uses 2 so that giving up and trying again differ. A batch of
1 makes a refused row hide the next one, which is what the code's 20 do with
20 refused rows. In `build_live` a page holds 2 jobs and one job is parked from the
start (`LeftInit`: its worker stopped between the stage and the exporter, and
nothing was found in the registry), so a page holds a parked and a live job as long
as no second one parks, and is full of parked jobs, hiding the third, when one
does. Two changes of the resources are one loss and one return; two
switches are the smallest second decision about one writer. Deadlock is checked
for the wallet and for Serve, where a caller can always ask again, and not where
an order, an event or a job really ends.

Fairness. `wallet_live`: handlers finish, an applied adjustment's audit record is
eventually written (nothing obliges the wallet to decide a POST at all), and
callers keep reading, as the Workspace worker does every five seconds for an open
charge. `workspace_launch_live`: `Run` calls `RunOnce` every five seconds and takes
up an open order; a pass runs to its end because each of its calls has a
deadline; leases expire by the clock; the wallet decides; and from some time on
the environment is *calm*. Calm is about what surrounds the worker (`Helpful`): no
crash, no time-out, no lease that ends under its pass, and calls that are answered
by an owner that does what it was asked for if it can; a charge is said to be open
only while it is, and may be rejected, and Gateway may refuse the key. What the
worker makes of an answer is not restricted: a pass may end, and a stored state
may be read again and again. The fair actions are the calm steps themselves, so
every reachable state has a calm continuation and the assumption excludes none of
them: a worker that is stuck, or that repeats a pass which leads nowhere, is
reported, as the mutant shows that never reads a stored open charge again.
Without calm no delivery can be promised, and with it everything before is
arbitrary: every stored state a fault can leave behind must be one the worker gets
out of. `owner_events`: the loops in `Steady` run every second
over all consumers and are not cut off at the same place for ever; a consumer
asked again and again for something it can accept accepts it; the other loop is
promised nothing. `build_live`: a pass every second, the deliveries with it, a
registry that shows what it has, and from some time on no abandoned pass.
`lifecycle_live`: the loop comes back to every sweep, Fabric answers in the end, a
lease nobody holds runs out; Gateway may refuse or stay silent each time, which
is why the properties except an event that used up its attempts. `serve_failed`
gives Serve more than the code asks for: handlers never stop, the caller repeats
its call for as long as it has no answer, and Pods get where they were told to.

## 4. Findings and observations

`serve_failed`. A new application is observed as failed. `retireFailedReplacement`
records the intent to terminate it and asks the executor, which deletes without
waiting and reads back that Pods are still there: the call returns an error. Each
retry under the same key is a replay; it records the start first
(`acceptReplacementStart`), and `refuseRetiredRuntime` refuses a runtime that has a
termination intent, the switch's own. So the removal is never confirmed, the
instance never becomes `terminated`, the writer that was stopped is not started
again although `replacement.go:200-201` promises that a failure "leaves the
Workspace serving its previous application", and `refusePendingReplacement` keeps
every other switch out. Only closing the Workspace ends this.

Observations met while modelling. The models contain each of them, the
properties above are stated so that they hold in spite of it, and no run is
kept for it:

* wallet: `SettleWalletOperation` updates by id alone, so a slow handler writes
  `unknown` over the `confirmed` of a faster one (`gateway_store.go:298`, against
  the comment at `coordination.go:279`). The money is right and
  `VisibleMoneyIsConfirmed` says that a later read repairs the row.
* deletion: `completeDeletion` looks at a rejected key closeout before an open
  refund and writes `needs_attention`, which `RunOnce` skips; the settlement then
  waits for a repeated request (`deletion.go:1262`, against `:93-94`).
* deletion: `beginStep` keeps the input of the first attempt. A release that was
  refused because a late launch call had just confirmed the provision leaves the
  old version there; each resumption sends it and is refused.
* deletion: an order is charged and its worker dies before the receipt. Fabric
  then provisioned nothing and reports the declared set unknown, never absent, so
  the recovery of the receipt (`closeout.go:106-119`) is not reached.
* build: `advance` has no check for an ended job. A worker with an old list can
  execute a job that another one ended, and announce `build.failed.v1` for a job
  that succeeded; the lock makes this rare and `OneVersion` says that it does no
  more harm.
* build: `Deliver` validates and commits in different transactions, so an input
  whose approval was withdrawn in between is registered. `ReleaseReference` of a
  runtime is refused when the runtime is not approved. No code calls
  `ReleaseReference`.
* build: a pass reads the 20 oldest open jobs and ends at the first error; jobs
  that stay in `needs_attention` or `registering` count among the 20, so 20 of them
  hide every younger build for as long as they stay (`worker.go:40`). `QueueMoves`
  says that this is the only way for a build to stay in the queue.
* lifecycle: a suspension that needs attention is returned by
  `openLifecycleOperation` for every later reason and is not applied again, so a
  Workspace that was recovered meanwhile is not suspended when its period ends;
  likewise for a recovery. `UnpaidIsSuspended` and `PaidIsRecovered` except it.
* lifecycle: the three sweeps look for open events before they open one, without
  a lock on the other kind, so a suspension and a recovery can be open together;
  the lease UPDATE takes an event that needs attention by then; the recovery's
  UPDATE of the row is not fenced; sweeps have no deadline against the 60 seconds
  of their lease. Any of these lets key and standing differ (`overtaken`).
* lifecycle: `suspendLostWorkspaces` lists the 20 active Workspaces with the oldest
  launch (`lifecycle.go:744`), healthy ones included, so with more than 20 active
  Workspaces the sweep does not look at the younger ones. The other two sweeps list
  only Workspaces with something to do, and hide others behind 20 that need
  attention. With one Workspace the model does not show either.
* lifecycle: the deletion of a delivered Workspace disables its key without the
  `close:` barrier, so a recovery that is late enables it again.
* serve: a late call under the key of an active switch, finding its Pods
  restarting, marks the active delivery `verifying`, and terminates it if it finds
  them failed.
* serve: `retireFailedReplacement` marks the runtime terminated before the writer
  is restored; another switch is admitted in between and may start while the
  restore brings the writer back. `DisplacedWriterIsDown` states this exception.
* serve: the writer a non-exclusive switch supersedes is not stopped; it runs
  until the Workspace is closed.

## 5. Proofs

Every invariant and action property of the passing runs, and the safety half of
both refinements, is a theorem for all values of the constants: any number of
handlers, workers, deletion passes, delivery loops, jobs, switches and
interruptions. `DeletionIsFinal` is only proved: its part about the Workspace
follows from the contract, which the run `workspace_deletion` checks, and its part
about the closeout record is left to the theorem. The only assumptions are
the ones named in the models (finite sets, limits that are natural numbers, a
`None` outside the other sets). None of the properties is inductive by itself;
each module defines the invariant that is, shows that the initial states have it
and that every action keeps it (one lemma per action or group of actions), and
derives the theorems from it.

### GatewayWalletProofs

`TypeOK`, `OneAdjustmentPerKey`, `AnswersStayTrue`, `RefundsToPayer`,
`RefundsWithinCharge`. Whether a
handler may POST depends on what it found in the row, which other handlers change
meanwhile; whether an absence stays true depends on every charge that has passed
the closing check. `WalletInv` adds:

| Part | Says |
| --- | --- |
| `Shape` | what a request holds at each of its steps |
| `Guarded`, `Fenced` | who holds the advisory lock, and that beyond the fence no charge is between its check and its reservation |
| `OneSender` | a row has at most one handler that may still POST |
| `Counters` | a POST has been sent only for a reserved row, and once |
| `RowFacts`, `RequestFacts` | a row, and what a handler concluded about it, agree with the wallet |
| `ToldFacts` | the last definite answer agrees with the row and the barrier |
| `RefundFacts` | a refund's row names the binding of its charge |

`RefundsWithinCharge` is about sums over a set of rows of any size. Its invariant is
`Covered`: the refunds of a charge that *count* (not rejected), added up over the
rows, are within the charge. `ReserveWalletOperation` adds up the rows under the
lock of the charge, so a new refund keeps it; every other step changes no amount
and can only take a refund out of the sum, since a rejected row stays dead
(`RecordStable`). What the wallet was sent is then a part of what is reserved.
The facts about sums (a sum is unique, may be taken apart at any element, and is at
least any part of it) are lemmas of the module. They cannot be proved by induction
over the set, which the provers do not offer, but each can be refuted only by a
smallest set (`SmallestSubset`, from the well-foundedness of strict inclusion), and
the smallest one is excluded from its own definition.

### WorkspaceLaunchProofs

`LaunchTypeOK`, `RecordedBeforeEffect`, `FailedOwesNothing`, `EntitledIsServed`,
`FactsAreKept`. The difficulty is a pass whose lease is over: its memory is old and
its call is still on the way. `LaunchInv` therefore separates what any pass has
from what the holder has:

| Part | Says |
| --- | --- |
| `OwnersAgree` | what the owners know of each other: no resource is provisioned and no runtime exists without the funding receipt, no receipt of a paid order without a confirmed charge |
| `Copy(r)` | a copy of the result, stored or in memory, has with each fact the facts it rests on, and is true of the owners |
| `Stands(w)` | a pass takes a step only with what that step needs (`Ready`), and while it is before the call its facts are stored; the holder of the lease has everything that is stored |
| `Recorded` | what is stored before an owner acts |
| `RowAgrees` | the operation and the Workspace row end together |

Facts of owners are stable, so an old copy stays true; and a write that could drop
a fact would need the lease, whose holder knows all of them (`FactsAreKept`).

### WorkspaceDeletionProofs

`DeletionTypeOK`, `NothingLeftBehind`, `RefundAfterAbsence`, `SettlementIsTrue`,
`DeletionIsFinal`. Extends the launch's proofs: the launch's invariant is kept by
the deletion's steps as well, and the launch's steps keep the deletion's.
`DeletionInv` adds `Evidence` (what a closeout, stored or in memory, says is so),
`DeletionStands` (a deletion step is taken only with the evidence it needs),
`RefundIsDue` and `DeletionAgrees`. Its core are four facts that no step of either
operation takes back: `Retired`, `Released`, `KeyNeverIssued` and `NeverCharged`.
Each is a state of an owner together with its barrier; without the barrier a late
launch call would undo it, and the proof of that launch step is where each barrier
is used.

### WorkspaceOrderProofs

`KeepsContract`: the initial states map to `WorkspaceOrder`'s, and every step of the
launch, of the deletion and of the wallet, for any number of passes of both, is a
step of the contract or changes nothing that it sees. There is one lemma per owner
operation (`SeenDebit`, `SeenRetire`, ...), which assumes only what the caller is
known to have at that step, and one per write of a row. The guards of the contract
are where `DeletionInv` is spent: that a cancelled launch cannot charge or get a key
from a closed order follows from the stored closeout together with Gateway's barrier
(`ClosedFacts`); that nothing is held or started again once it is gone, from the
release and the retirement barrier; that no refund follows a closing from the deletion time being
stored with the decision whether the month was spent. `Placed` adds when the order
exists at all. For this proof `DeletionInv` was strengthened: money goes back only
for a charge whose funding receipt exists, which the settlement of an unfinished
order establishes first.

### OwnerEventsProofs

`OwnerEventsTypeOK`, `RowsAreKept`, and `AtMostOnce`, the refinement: `Init` implies
the abstract `Init`, and each action is an abstract `Owe`, `Apply` or `Settle`, or
changes nothing the abstraction sees. `AppliedOnce` (an effect is counted with its
inbox row; what is acknowledged is in the inbox), `CallsAreTrue` (a call said to be
committed is) and `QueuesKeepRows` (the two queues share and repeat no row) are the
invariant. What removing a row from a queue does is a lemma of its own.

### BuildRegistrationProofs

`BuildTypeOK`, `OneVersion`, `EndsAgree`, `BuiltUnderClaims`, `SuccessIsFinal`,
`OpenIsExportedOnce`. `Registering` holds with or without locks and gives
`OneVersion`. `LocksWork` is stated as long as no lock was lost: `UnderLock` says
which part of the record a worker read is still current where it stands, and
`Staging` how stage, artifact, exporters and claims belong together.

### WorkspaceLifecycleProofs

`LifecycleTypeOK`, `StandingHasKey`, `SuspendedHasNoKey`, `DeletionEndsStanding`.
The key invariants are proved at every moment, not only between passes: the row is
taken before the key and given back after it (`Fits`), two events do not hold leases
together (`LeasesApart`), and the recorded state follows the readback (`KeyAgrees`),
all up to `overtaken`. `DeletionEndsStanding` needs no such exception.

### ServeReplacementProofs

`ServeTypeOK`, `OneOpenSwitch`, `ActivationIsNeverUndone`, `ClosedIsEmpty`,
`DisplacedWriterIsDown`. `ServeInv` has three strands over what rows, intents and
executor say of one delivery (`Fits`) and what a call relies on (`Handles`):

| Part | Says |
| --- | --- |
| `Lineage` | one switch is undecided; two deliveries of one epoch are never both able to become current; the current delivery is the newest that succeeded, and the predecessor of an open switch |
| `Mounts` | a stop that was confirmed left its writer down, unless a failed switch restores it; an exclusive delivery has an application only after its stop was confirmed |
| `Closing` | after the closeout every admitted delivery has a retirement intent, the lock is free for good, and the original is confirmed last |
| `EpochsFit` | epochs are bounded by the number of admitted switches, which bounds them in the type |

`ActivationIsNeverUndone` follows from `Lineage` and the lock: a handler that
observes holds the lock, its delivery is of the newest epoch and is not being
retired. The invariant also shows why the guard `Activates` never blocks the model.

### Model-checked only

Liveness (`VisibleMoneyIsConfirmed`, `PaidIsDelivered`, `QueueMoves`,
`ConfirmedIsRegistered`, `UnpaidIsSuspended`, `PaidIsRecovered`) and with it the fair
half of the event refinement (`ExactlyOnce`), which are out of the prover's reach, and
`FailedSwitchIsUndone`, which does not hold.

## 6. Plan

Done: wallet, launch, deletion, the contract that launch and deletion implement,
events with their refinement, build with its reference claims, suspension and
recovery, replacement and closeout, and theorems for the safety properties of all
of them.

Next:

1. Progress of a deletion (it succeeds or asks for attention), with the counter
   that restarts when the pending step changes.
2. `FabricRelease`: the per-kind release with its dispatch claim, shown to keep the
   contract stated in `WorkspaceOwners`.
3. `WorkspaceRefund`: the refund formula of
   `packages/contracts/go/workspace_delete.go:646-674` against its definition:
   bounded by the charge and falling with time.

## 7. Not modelled

* Cloud, Docker and Kubernetes adapters, the image builder and the Console: I/O
  against external systems and views without business state. What they do to the
  owners is external behaviour in the models.
* Tenant identity and authorization: single transactions and policy tables; a
  refused authorization changes no state.
* The legacy control plane, which the owners replace: a launch of its own with
  other rules.
* Fabric's operation store and provider mutations (part of plan item 2), model
  configuration updates, the retry of an initial runtime, the Ledger's consumer.
* Generated code (`ent`, protobuf), which is most of the repository's lines.

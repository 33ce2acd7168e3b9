-------------------------- MODULE BuildRegistration --------------------------
(***************************************************************************)
(* From an accepted build to a deployable version: the Build service and    *)
(* its workers (services/build/internal/build), the reference claims and    *)
(* the registration in Capability (services/capability/catalog), and the    *)
(* approval of the inputs by Capability and Runtime Control. A worker holds *)
(* the advisory lock of a job by a database session of its own; everything  *)
(* it writes goes through other connections, so a worker that lost the      *)
(* session goes on. The two events between Build and Capability may be      *)
(* delivered at any time and again (EventDelivery; OwnerEvents shows the    *)
(* tables behind them).                                                     *)
(***************************************************************************)
EXTENDS Naturals, Sequences, FiniteSets, SequencesExt

CONSTANTS
    Job,        \* the builds
    Worker,     \* replicas of the Build service
    None,       \* no holder of a lock
    Batch,      \* how many open jobs a pass looks at
    MaxCalls,   \* bound on Capability handlers of one event at the same time
    MaxChanges, \* bound on decisions about the approval of an input
    MaxReleases,\* bound on released claims
    MaxLost     \* bound on lock sessions that break under a running worker

ASSUME BuildAssumption ==
    /\ None \notin Worker /\ Batch \in Nat \ {0}
    /\ MaxCalls \in Nat /\ MaxChanges \in Nat /\ MaxReleases \in Nat /\ MaxLost \in Nat

VARIABLES
    jobs,       \* build_jobs in the order of created_at
    status,     \* build_jobs.status
    granted,    \* call_context carries the accepted-operation grant
    saved,      \* input_snapshot carries the three claim ids
    artifact,   \* build_artifacts has the job's row
    failures,   \* outbox has build.failed.v1 of the job
    lock,       \* pg_try_advisory_lock of the job
    todo,       \* the jobs a worker's pass has still to look at
    at,         \* where in advance a worker is
    seen,       \* the record the worker read
    started,    \* how many exporters were ever started for the job
    running,    \* how many of them may still push
    registry,   \* the image is in the registry
    approved,   \* the inputs whose status is approved
    changes,
    lost,
    claim,      \* capability.reference_claims of the job
    artifactEvent, versionEvent,  \* unsent, pending or acknowledged
    calls,      \* Capability handlers past all readbacks
    versions,   \* capability_versions of the job
    received    \* Build's inbox has the registration event

build == <<jobs, status, granted, saved, artifact, failures, received>>
worker == <<lock, todo, at, seen, lost>>
exporter == <<started, running, registry>>
catalog == <<approved, changes>>
registration == <<calls, versions>>
outbox == <<artifactEvent, versionEvent>>
vars == <<build, worker, exporter, catalog, claim, registration, outbox>>

Targets == <<"package", "runtime", "webui">>
Target == Range(Targets)
AcquireAt == <<"acquire_package", "acquire_runtime", "acquire_webui">>
BindAt == <<"bind_package", "bind_runtime", "bind_webui">>
Open == {"queued", "validating", "building", "pushing", "registering", "needs_attention"}
Terminal == {"succeeded", "failed"}
Place == {"idle", "next", "advance", "grant", "save", "validate", "export", "exporting", "pushing",
          "confirm", "unlock"} \cup Range(AcquireAt) \cup Range(BindAt)
Record == [status : Open \cup Terminal \cup {"none"}, granted : BOOLEAN, saved : BOOLEAN]
NoRecord == [status |-> "none", granted |-> FALSE, saved |-> FALSE]

BuildTypeOK ==
    /\ jobs \in Seq(Job)
    /\ status \in [Job -> Open \cup Terminal \cup {"none"}]
    /\ granted \in [Job -> BOOLEAN] /\ saved \in [Job -> BOOLEAN]
    /\ artifact \in [Job -> BOOLEAN] /\ failures \in [Job -> BOOLEAN]
    /\ lock \in [Job -> Worker \cup {None}]
    /\ todo \in [Worker -> Seq(Job)]
    /\ at \in [Worker -> Place] /\ seen \in [Worker -> Record]
    /\ started \in [Job -> Nat] /\ running \in [Job -> Nat] /\ registry \in [Job -> BOOLEAN]
    /\ approved \subseteq Target /\ changes \in 0..MaxChanges /\ lost \in 0..MaxLost
    /\ claim \in [Job -> [Target -> {"none", "acquired", "bound", "released"}]]
    /\ artifactEvent \in [Job -> {"unsent", "pending", "acknowledged"}]
    /\ versionEvent \in [Job -> {"unsent", "pending", "acknowledged"}]
    /\ calls \in [Job -> 0..MaxCalls] /\ versions \in [Job -> Nat]
    /\ received \in [Job -> BOOLEAN]

Init ==
    /\ jobs = <<>> /\ status = [j \in Job |-> "none"]
    /\ granted = [j \in Job |-> FALSE] /\ saved = [j \in Job |-> FALSE]
    /\ artifact = [j \in Job |-> FALSE] /\ failures = [j \in Job |-> FALSE]
    /\ lock = [j \in Job |-> None]
    /\ todo = [w \in Worker |-> <<>>] /\ at = [w \in Worker |-> "idle"]
    /\ seen = [w \in Worker |-> NoRecord]
    /\ started = [j \in Job |-> 0] /\ running = [j \in Job |-> 0]
    /\ registry = [j \in Job |-> FALSE]
    /\ approved = Target /\ changes = 0 /\ lost = 0
    /\ claim = [j \in Job |-> [t \in Target |-> "none"]]
    /\ artifactEvent = [j \in Job |-> "unsent"] /\ versionEvent = [j \in Job |-> "unsent"]
    /\ calls = [j \in Job |-> 0] /\ versions = [j \in Job |-> 0]
    /\ received = [j \in Job |-> FALSE]

-----------------------------------------------------------------------------
(* Requests. Both are one transaction, repeated under the same key without  *)
(* effect. The catalog is asked for three approved inputs before the job    *)
(* is written.                                                              *)

CreateBuild(j) ==
    /\ status[j] = "none" /\ approved = Target
    /\ jobs' = Append(jobs, j)
    /\ status' = [status EXCEPT ![j] = "queued"]
    /\ UNCHANGED <<granted, saved, artifact, failures, received, worker, exporter, catalog, claim,
                   registration, outbox>>

\* The deciding administrator. A revoked WebUI stays revoked; a Runtime Release
\* may be approved again, and both may after deprecation.
SetVersionStatus(t) ==
    /\ t # "package" /\ changes < MaxChanges
    /\ changes' = changes + 1
    /\ approved' \in {approved \cup {t}, approved \ {t}} \ {approved}
    /\ UNCHANGED <<build, worker, exporter, claim, registration, outbox>>

-----------------------------------------------------------------------------
(* A worker's pass.                                                         *)

Now(w) == Head(todo[w])

\* The query of a pass: the oldest open jobs in their order, Batch at most.
OpenAt == {i \in DOMAIN jobs : status[jobs[i]] \in Open}

Listing == {f \in UNION {[1..n -> OpenAt] : n \in 1..Batch} :
              /\ \A k, l \in DOMAIN f : k < l => f[k] < f[l]
              /\ \A i \in OpenAt : i \in Range(f) \/ (Len(f) = Batch /\ f[Batch] < i)}

RunOnce(w) ==
    /\ at[w] = "idle"
    /\ \E f \in Listing : todo' = [todo EXCEPT ![w] = [k \in DOMAIN f |-> jobs[f[k]]]]
    /\ at' = [at EXCEPT ![w] = "next"]
    /\ UNCHANGED <<lock, seen, lost, build, exporter, catalog, claim, registration, outbox>>

EndPass(w) ==
    /\ at[w] = "next" /\ todo[w] = <<>>
    /\ at' = [at EXCEPT ![w] = "idle"]
    /\ UNCHANGED <<lock, todo, seen, lost, build, exporter, catalog, claim, registration, outbox>>

Read(j) == [status |-> status[j], granted |-> granted[j], saved |-> saved[j]]

Faulty_TryLock(w) ==
    /\ at[w] = "next" /\ todo[w] # <<>>
    /\ lock' = [lock EXCEPT ![Now(w)] = w]
    /\ seen' = [seen EXCEPT ![w] = Read(Now(w))]
    /\ at' = [at EXCEPT ![w] = "advance"]
    /\ UNCHANGED <<todo, lost, build, exporter, catalog, claim, registration, outbox>>

TryLock(w) ==
    /\ at[w] = "next" /\ todo[w] # <<>> /\ lock[Now(w)] = None
    /\ lock' = [lock EXCEPT ![Now(w)] = w]
    /\ seen' = [seen EXCEPT ![w] = Read(Now(w))]
    /\ at' = [at EXCEPT ![w] = "advance"]
    /\ UNCHANGED <<todo, lost, build, exporter, catalog, claim, registration, outbox>>

\* A job that another worker holds is left to it.
Skip(w) ==
    /\ at[w] = "next" /\ todo[w] # <<>> /\ lock[Now(w)] # None
    /\ todo' = [todo EXCEPT ![w] = Tail(@)]
    /\ UNCHANGED <<lock, at, seen, lost, build, exporter, catalog, claim, registration, outbox>>

Unlocked(w) == [lock EXCEPT ![Now(w)] = IF @ = w THEN None ELSE @]

Unlock(w) ==
    /\ at[w] = "unlock"
    /\ lock' = Unlocked(w)
    /\ todo' = [todo EXCEPT ![w] = Tail(@)]
    /\ at' = [at EXCEPT ![w] = "next"]
    /\ seen' = [seen EXCEPT ![w] = NoRecord]
    /\ UNCHANGED <<lost, build, exporter, catalog, claim, registration, outbox>>

\* An error in advance ends the pass for every job behind this one; a process
\* that is killed ends it too. What it had started goes on without it.
Abandon(w) ==
    /\ at[w] \notin {"idle", "next"}
    /\ lock' = Unlocked(w)
    /\ todo' = [todo EXCEPT ![w] = <<>>]
    /\ at' = [at EXCEPT ![w] = "idle"]
    /\ seen' = [seen EXCEPT ![w] = NoRecord]
    /\ UNCHANGED <<lost, build, exporter, catalog, claim, registration, outbox>>

\* The lock goes with its session, the worker does not.
LoseLock(w) ==
    /\ at[w] \notin {"idle", "next"} /\ lock[Now(w)] = w /\ lost < MaxLost
    /\ lock' = [lock EXCEPT ![Now(w)] = None]
    /\ lost' = lost + 1
    /\ UNCHANGED <<todo, at, seen, build, exporter, catalog, claim, registration, outbox>>

GoTo(w, p) ==
    /\ at' = [at EXCEPT ![w] = p]
    /\ UNCHANGED <<lock, todo, lost>>

\* A stage is written unless the job has ended. The event of a failure is
\* written with it, ended or not, and exists once.
Staged(w, s) == [status EXCEPT ![Now(w)] = IF @ \in Terminal THEN @ ELSE s]

StageFailed(w) ==
    /\ ~failures[Now(w)]
    /\ status' = Staged(w, "failed")
    /\ failures' = [failures EXCEPT ![Now(w)] = TRUE]
    /\ GoTo(w, "unlock")
    /\ UNCHANGED <<jobs, granted, saved, artifact, received, seen>>

\* A job that waits for its registration is not touched.
AdvanceRegistering(w) ==
    /\ at[w] = "advance" /\ seen[w].status = "registering"
    /\ GoTo(w, "unlock")
    /\ UNCHANGED <<seen, build, exporter, catalog, claim, registration, outbox>>

\* An outcome that is not known is only looked for in the registry.
Restarted(w) == seen[w].status \in {"building", "pushing", "needs_attention"}

ReadManifest(w) ==
    /\ at[w] = "advance" /\ Restarted(w) /\ registry[Now(w)]
    /\ GoTo(w, "confirm")
    /\ UNCHANGED <<seen, build, exporter, catalog, claim, registration, outbox>>

\* There is no image, or the registry does not answer.
Faulty_ReadNothing(w) ==
    /\ at[w] = "advance" /\ Restarted(w)
    /\ status' = Staged(w, "needs_attention")
    /\ lock' = Unlocked(w)
    /\ todo' = [todo EXCEPT ![w] = <<>>]
    /\ at' = [at EXCEPT ![w] = "idle"]
    /\ UNCHANGED <<seen, lost, jobs, granted, saved, artifact, failures, received, exporter, catalog,
                   claim, registration, outbox>>

ReadNothing(w) ==
    /\ at[w] = "advance" /\ Restarted(w)
    /\ status' = IF seen[w].status = "needs_attention" THEN status ELSE Staged(w, "needs_attention")
    /\ GoTo(w, "unlock")
    /\ UNCHANGED <<seen, jobs, granted, saved, artifact, failures, received, exporter, catalog, claim,
                   registration, outbox>>

\* Every other record, of a job that ended after the pass listed it too.
StageValidating(w) ==
    /\ at[w] = "advance" /\ seen[w].status # "registering" /\ ~Restarted(w)
    /\ status' = Staged(w, "validating")
    /\ GoTo(w, "grant")
    /\ UNCHANGED <<seen, jobs, granted, saved, artifact, failures, received, exporter, catalog, claim,
                   registration, outbox>>

Grant(w) ==
    /\ at[w] = "grant"
    /\ granted' = [granted EXCEPT ![Now(w)] = TRUE]
    /\ GoTo(w, IF seen[w].saved THEN "save" ELSE AcquireAt[1])
    /\ UNCHANGED <<seen, jobs, status, saved, artifact, failures, received, exporter, catalog, claim,
                   registration, outbox>>

\* authorizeReference: the input must be approved while it is claimed.
Claimable(t) == t \in approved

AcquireReference(w, i) ==
    /\ at[w] = AcquireAt[i] /\ Claimable(Targets[i])
    /\ claim' = [claim EXCEPT ![Now(w)][Targets[i]] =
                   IF @ \in {"none", "released"} THEN "acquired" ELSE @]
    /\ GoTo(w, IF i < 3 THEN AcquireAt[i + 1] ELSE "save")
    /\ UNCHANGED <<seen, build, exporter, catalog, registration, outbox>>

SaveClaims(w) ==
    /\ at[w] = "save"
    /\ saved' = [saved EXCEPT ![Now(w)] = TRUE]
    /\ GoTo(w, BindAt[1])
    /\ UNCHANGED <<seen, jobs, status, granted, artifact, failures, received, exporter, catalog, claim,
                   registration, outbox>>

BindReference(w, i) ==
    /\ at[w] = BindAt[i] /\ Claimable(Targets[i])
    /\ claim[Now(w)][Targets[i]] \in {"acquired", "bound"}
    /\ claim' = [claim EXCEPT ![Now(w)][Targets[i]] = "bound"]
    /\ GoTo(w, IF i < 3 THEN BindAt[i + 1] ELSE "validate")
    /\ UNCHANGED <<seen, build, exporter, catalog, registration, outbox>>

\* A precondition that is refused fails the job for good.
ClaimRefused(w) ==
    /\ \E i \in 1..3 :
         \/ (at[w] \in {AcquireAt[i], BindAt[i]} /\ ~Claimable(Targets[i]))
         \/ (at[w] = BindAt[i] /\ claim[Now(w)][Targets[i]] \notin {"acquired", "bound"})
    /\ StageFailed(w)
    /\ UNCHANGED <<exporter, catalog, claim, registration, outbox>>

Faulty_StageBuilding(w) ==
    /\ at[w] = "validate"
    /\ GoTo(w, "export")
    /\ UNCHANGED <<seen, build, exporter, catalog, claim, registration, outbox>>

StageBuilding(w) ==
    /\ at[w] = "validate"
    /\ status' = Staged(w, "building")
    /\ GoTo(w, "export")
    /\ UNCHANGED <<seen, jobs, granted, saved, artifact, failures, received, exporter, catalog, claim,
                   registration, outbox>>

\* The input is refused, or the exporter could not be started.
NotStarted(w) ==
    /\ at[w] \in {"validate", "export"}
    /\ StageFailed(w)
    /\ UNCHANGED <<exporter, catalog, claim, registration, outbox>>

StartExporter(w) ==
    /\ at[w] = "export"
    /\ started' = [started EXCEPT ![Now(w)] = @ + 1]
    /\ running' = [running EXCEPT ![Now(w)] = @ + 1]
    /\ GoTo(w, "exporting")
    /\ UNCHANGED <<registry, seen, build, catalog, claim, registration, outbox>>

\* The builder pushes while it runs, whether or not anyone still waits for it.
Push(j) ==
    /\ running[j] > 0 /\ ~registry[j]
    /\ registry' = [registry EXCEPT ![j] = TRUE]
    /\ UNCHANGED <<started, running, build, worker, catalog, claim, registration, outbox>>

ExportedAll(w) ==
    /\ at[w] = "exporting" /\ registry[Now(w)]
    /\ running' = [running EXCEPT ![Now(w)] = @ - 1]
    /\ GoTo(w, "pushing")
    /\ UNCHANGED <<started, registry, seen, build, catalog, claim, registration, outbox>>

\* The builder ended with an error and the registry says there is no image.
Rejected(w) ==
    /\ at[w] = "exporting" /\ ~registry[Now(w)]
    /\ running' = [running EXCEPT ![Now(w)] = @ - 1]
    /\ StageFailed(w)
    /\ UNCHANGED <<started, registry, catalog, claim, registration, outbox>>

\* A deadline, or a registry that cannot be read.
OutcomeUnknown(w) ==
    /\ at[w] = "exporting"
    /\ status' = Staged(w, "needs_attention")
    /\ GoTo(w, "unlock")
    /\ UNCHANGED <<seen, jobs, granted, saved, artifact, failures, received, exporter, catalog, claim,
                   registration, outbox>>

Faulty_StagePushing(w) ==
    /\ at[w] = "pushing"
    /\ status' = Staged(w, "exported")
    /\ GoTo(w, "confirm")
    /\ UNCHANGED <<seen, jobs, granted, saved, artifact, failures, received, exporter, catalog, claim,
                   registration, outbox>>

StagePushing(w) ==
    /\ at[w] = "pushing"
    /\ status' = Staged(w, "pushing")
    /\ GoTo(w, "confirm")
    /\ UNCHANGED <<seen, jobs, granted, saved, artifact, failures, received, exporter, catalog, claim,
                   registration, outbox>>

\* One transaction: the artifact, the event, and the status.
Confirm(w) ==
    LET j == Now(w) IN
    /\ at[w] = "confirm"
    /\ GoTo(w, "unlock")
    /\ IF status[j] \in {"registering", "succeeded"}
       THEN UNCHANGED <<status, artifact, artifactEvent>>
       ELSE /\ ~artifact[j]
            /\ artifact' = [artifact EXCEPT ![j] = TRUE]
            /\ artifactEvent' = [artifactEvent EXCEPT ![j] = "pending"]
            /\ status' = [status EXCEPT ![j] = "registering"]
    /\ UNCHANGED <<seen, jobs, granted, saved, failures, received, exporter, catalog, claim, registration,
                   versionEvent>>

-----------------------------------------------------------------------------
(* The registration. An event is delivered while it is pending, and again   *)
(* by a courier that read it before it was acknowledged; its answer may be  *)
(* lost.                                                                    *)

\* ReadArtifact and validateFrozenInput, in front of the transaction.
Registrable(j) ==
    /\ artifact[j] /\ registry[j] /\ granted[j] /\ saved[j]
    /\ {"runtime", "webui"} \subseteq approved
    /\ \A t \in Target : claim[j][t] = "bound"

ValidateFrozenInput(j) ==
    /\ artifactEvent[j] = "pending" /\ versions[j] = 0 /\ calls[j] < MaxCalls
    /\ Registrable(j)
    /\ calls' = [calls EXCEPT ![j] = @ + 1]
    /\ UNCHANGED <<build, worker, exporter, catalog, claim, versions, outbox>>

Answered(event, j) == {event, [event EXCEPT ![j] = "acknowledged"]}

Faulty_Register(j) ==
    /\ calls[j] > 0
    /\ calls' = [calls EXCEPT ![j] = @ - 1]
    /\ versions' = [versions EXCEPT ![j] = @ + 1]
    /\ versionEvent' = [versionEvent EXCEPT ![j] = "pending"]
    /\ artifactEvent' \in Answered(artifactEvent, j)
    /\ UNCHANGED <<build, worker, exporter, catalog, claim>>

\* The transaction of Capability's Deliver: the inbox decides whether the
\* version is written.
Register(j) ==
    /\ calls[j] > 0
    /\ calls' = [calls EXCEPT ![j] = @ - 1]
    /\ IF versions[j] = 0
       THEN /\ versions' = [versions EXCEPT ![j] = 1]
            /\ versionEvent' = [versionEvent EXCEPT ![j] = "pending"]
       ELSE UNCHANGED <<versions, versionEvent>>
    /\ artifactEvent' \in Answered(artifactEvent, j)
    /\ UNCHANGED <<build, worker, exporter, catalog, claim>>

\* An event that is already in the inbox is acknowledged without a look at
\* anything that may have changed.
Faulty_AcknowledgeArtifact(j) ==
    /\ artifactEvent[j] = "pending"
    /\ artifactEvent' = [artifactEvent EXCEPT ![j] = "acknowledged"]
    /\ UNCHANGED <<build, worker, exporter, catalog, claim, registration, versionEvent>>

AcknowledgeArtifact(j) ==
    /\ artifactEvent[j] = "pending" /\ versions[j] > 0
    /\ artifactEvent' = [artifactEvent EXCEPT ![j] = "acknowledged"]
    /\ UNCHANGED <<build, worker, exporter, catalog, claim, registration, versionEvent>>

\* Build's Deliver, and the transaction that ends the job.
Registered(j) ==
    /\ versionEvent[j] = "pending"
    /\ IF received[j]
       THEN UNCHANGED <<status, received>>
       ELSE /\ status[j] = "registering"
            /\ status' = [status EXCEPT ![j] = "succeeded"]
            /\ received' = [received EXCEPT ![j] = TRUE]
    /\ versionEvent' \in Answered(versionEvent, j)
    /\ UNCHANGED <<jobs, granted, saved, artifact, failures, worker, exporter, catalog, claim, registration,
                   artifactEvent>>

\* authorizeReference lets a release pass without approval, but reads a
\* Runtime Release with runtimeVersion, which does not.
Releases == Cardinality({x \in Job \X Target : claim[x[1]][x[2]] = "released"})

Faulty_ReleaseReference(j, t) ==
    /\ claim[j][t] = "bound" /\ saved[j] /\ Releases < MaxReleases
    /\ t = "runtime" => Claimable(t)
    /\ claim' = [claim EXCEPT ![j][t] = "released"]
    /\ UNCHANGED <<build, worker, exporter, catalog, registration, outbox>>

ReleaseReference(j, t) ==
    /\ claim[j][t] = "bound" /\ Releases < MaxReleases /\ saved[j] /\ status[j] \in Terminal
    /\ t = "runtime" => Claimable(t)
    /\ claim' = [claim EXCEPT ![j][t] = "released"]
    /\ UNCHANGED <<build, worker, exporter, catalog, registration, outbox>>

-----------------------------------------------------------------------------

Pass(w) ==
    \/ RunOnce(w) \/ EndPass(w) \/ TryLock(w) \/ Skip(w) \/ Unlock(w)
    \/ AdvanceRegistering(w) \/ ReadManifest(w) \/ ReadNothing(w) \/ StageValidating(w) \/ Grant(w)
    \/ \E i \in 1..3 : AcquireReference(w, i) \/ BindReference(w, i)
    \/ SaveClaims(w) \/ ClaimRefused(w) \/ StageBuilding(w) \/ NotStarted(w) \/ StartExporter(w)
    \/ ExportedAll(w) \/ Rejected(w) \/ OutcomeUnknown(w) \/ StagePushing(w) \/ Confirm(w)

Deliveries(j) ==
    ValidateFrozenInput(j) \/ Register(j) \/ AcknowledgeArtifact(j) \/ Registered(j)

Next ==
    \/ \E w \in Worker : Pass(w) \/ Abandon(w) \/ LoseLock(w)
    \/ \E j \in Job : CreateBuild(j) \/ Push(j) \/ Deliveries(j)
    \/ \E j \in Job, t \in Target : ReleaseReference(j, t)
    \/ \E t \in Target : SetVersionStatus(t)

Spec == Init /\ [][Next]_vars

\* The service runs a pass each second and the deliveries with it. From some
\* time on no call fails and no process is killed.
Fairness ==
    /\ \A w \in Worker : WF_vars(Pass(w)) /\ SF_vars(ReadManifest(w))
    /\ \A j \in Job : WF_vars(ValidateFrozenInput(j)) /\ SF_vars(Register(j)) /\ WF_vars(Registered(j))
    /\ <>[][\A w \in Worker : ~Abandon(w)]_vars

FairSpec == Spec /\ Fairness

-----------------------------------------------------------------------------
(* Properties.                                                              *)

\* The properties that rest on the lock say so.
LocksHeld == lost = 0

\* An open job is exported once: whichever worker comes back to it, and
\* wherever the last one was stopped, a second exporter is never started.
OpenIsExportedOnce ==
    [][LocksHeld => \A j \in Job : started'[j] > started[j] => started[j] = 0 \/ status[j] \in Terminal]_vars

\* A version is made, and about to be made, only of inputs the job holds bound
\* claims on; they are let go once the job has succeeded.
BuiltUnderClaims ==
    LocksHeld => \A j \in Job : versions[j] > 0 \/ calls[j] > 0 =>
        \A t \in Target : claim[j][t] = "bound" \/ (status[j] = "succeeded" /\ claim[j][t] = "released")

\* The two owners agree on how the build ended: failed means that there is no
\* artifact, no version and nothing under way that could still make one.
EndsAgree ==
    LocksHeld => \A j \in Job :
        /\ status[j] = "succeeded" => versions[j] = 1 /\ artifactEvent[j] # "unsent" /\ received[j]
        /\ status[j] = "failed" => versions[j] = 0 /\ calls[j] = 0 /\ ~artifact[j]

\* Even when a lock is lost under a worker and two of them drive one job to
\* different ends: one version at most, only of an image that was confirmed, and
\* a success only with its version.
OneVersion ==
    \A j \in Job : /\ versions[j] <= 1
                   /\ versions[j] > 0 => artifact[j] /\ registry[j]
                   /\ status[j] = "succeeded" => versions[j] > 0

\* A success is never taken back, and a confirmed artifact never goes back to be
\* built: workers with old records and repeated events come too late.
SuccessIsFinal ==
    [][\A j \in Job :
         /\ status[j] = "succeeded" => status'[j] = "succeeded"
         /\ LocksHeld /\ status[j] = "registering" => status'[j] \in {"registering", "succeeded"}]_vars

\* An accepted build stays in the queue for one reason only. A pass looks at the
\* oldest open jobs, those that wait for an operator or for their registration
\* included, so as many of them as fill its page hide every younger one. A job
\* that is never taken up has a full page of older jobs before it that stay
\* parked for good; one fewer, or one that moves on, and it leaves the queue.
Parked == {i \in DOMAIN jobs : status[jobs[i]] \in {"needs_attention", "registering"}}

Hidden(j) == \E i \in DOMAIN jobs : jobs[i] = j /\ Cardinality({k \in Parked : k < i}) >= Batch

QueueMoves == \A j \in Job : <>[](status[j] = "queued") => <>[]Hidden(j)

\* A confirmed artifact is registered in the end, if its inputs stay approved
\* and claimed.
Held(j) == approved = Target /\ \A t \in Target : claim[j][t] = "bound"

ConfirmedIsRegistered ==
    \A j \in Job : (status[j] = "registering" /\ Held(j)) ~> (status[j] = "succeeded" \/ ~Held(j))
=============================================================================

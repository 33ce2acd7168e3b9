----------------------- MODULE BuildRegistrationProofs -----------------------
(***************************************************************************)
(* Proofs about BuildRegistration for any number of jobs and workers. Two   *)
(* things are kept apart in the inductive invariant: what holds even when   *)
(* a lock session breaks under its worker, and what rests on the lock. The  *)
(* second part says what a worker that holds the lock of a job may still    *)
(* rely on of the record that it read.                                      *)
(***************************************************************************)
EXTENDS BuildRegistration, FiniteSetTheorems, TLAPS

-----------------------------------------------------------------------------
(* The inductive invariant.                                                 *)

Working(w) == at[w] \notin {"idle", "next"}

Exporting(j) == {w \in Worker : at[w] = "exporting" /\ Now(w) = j}

\* A worker that works has a job, and each that waits for an exporter is one
\* that may still be pushing.
WorkersPlaced ==
    /\ \A w \in Worker : Working(w) => todo[w] # <<>>
    /\ \A j \in Job : /\ IsFiniteSet(Exporting(j))
                      /\ Cardinality(Exporting(j)) <= running[j]

\* The registration, with or without locks.
Registering(j) ==
    /\ versions[j] <= 1
    /\ versions[j] > 0 \/ calls[j] > 0 => artifact[j] /\ registry[j] /\ saved[j]
    /\ versionEvent[j] # "unsent" => versions[j] > 0
    /\ status[j] = "succeeded" => versions[j] > 0 /\ received[j]
    /\ artifact[j] => artifactEvent[j] # "unsent"

Acquiring == Range(AcquireAt)
Preparing == {"grant", "save", "validate"} \cup Acquiring \cup Range(BindAt)

\* What another process may do to the record a worker read under the lock.
Since(old, new) ==
    new = old \/ (old = "registering" /\ new = "succeeded") \/ (old = "none" /\ new = "queued")

\* What a worker with the lock of its job relies on.
UnderLock(w) ==
    /\ lock[Now(w)] = w
    /\ at[w] = "advance" => Since(seen[w].status, status[Now(w)])
    /\ at[w] \in {"advance", "grant"} => seen[w].saved = saved[Now(w)]
    /\ at[w] \in Acquiring => ~saved[Now(w)]
    /\ at[w] \in Preparing => status[Now(w)] \in {"validating"} \cup Terminal
    /\ at[w] = "export" => \/ status[Now(w)] = "building" /\ started[Now(w)] = 0
                           \/ status[Now(w)] \in Terminal
    /\ at[w] \in {"exporting", "pushing"}
       => status[Now(w)] \notin {"none", "queued", "validating", "registering"}

\* The stages of a job whose locks were never lost.
Staging(j) ==
    /\ artifact[j] <=> status[j] \in {"registering", "succeeded"}
    /\ started[j] > 0 => status[j] \notin {"none", "queued", "validating"}
    /\ versions[j] > 0 \/ calls[j] > 0 =>
         \A t \in Target : claim[j][t] = "bound" \/ (status[j] = "succeeded" /\ claim[j][t] = "released")

LocksWork ==
    LocksHeld => /\ \A w \in Worker : Working(w) => UnderLock(w)
                 /\ \A j \in Job : Staging(j)

BuildInv ==
    /\ BuildTypeOK
    /\ WorkersPlaced
    /\ \A j \in Job : Registering(j)
    /\ LocksWork

-----------------------------------------------------------------------------
(* The lists of the model, and the types.                                   *)

\* The three inputs and the places that belong to them.
LEMMA Lists ==
    /\ Target = {"package", "runtime", "webui"}
    /\ Acquiring = {"acquire_package", "acquire_runtime", "acquire_webui"}
    /\ Range(BindAt) = {"bind_package", "bind_runtime", "bind_webui"}
    /\ \A i \in 1..3 : Targets[i] \in Target /\ AcquireAt[i] \in Acquiring /\ BindAt[i] \in Range(BindAt)
    /\ AcquireAt[1] \in Acquiring /\ BindAt[1] \in Range(BindAt)
    /\ \A i \in 1..3 : i < 3 => AcquireAt[i + 1] \in Acquiring /\ BindAt[i + 1] \in Range(BindAt)
  <1>1. Target = {"package", "runtime", "webui"}
        BY DEF Target, Targets, Range
  <1>2. Acquiring = {"acquire_package", "acquire_runtime", "acquire_webui"}
        BY DEF Acquiring, AcquireAt, Range
  <1>3. Range(BindAt) = {"bind_package", "bind_runtime", "bind_webui"}
        BY DEF BindAt, Range
  <1>4. \A i \in 1..3 : /\ Targets[i] \in {"package", "runtime", "webui"}
                        /\ AcquireAt[i] \in {"acquire_package", "acquire_runtime", "acquire_webui"}
                        /\ BindAt[i] \in {"bind_package", "bind_runtime", "bind_webui"}
        BY DEF Targets, AcquireAt, BindAt
  <1> QED BY <1>1, <1>2, <1>3, <1>4

\* The places of a worker.
LEMMA Places ==
    /\ {"idle", "next", "advance", "grant", "save", "validate", "export", "exporting", "pushing",
        "confirm", "unlock"} \subseteq Place
    /\ Acquiring \subseteq Place /\ Range(BindAt) \subseteq Place
  BY DEF Place, Acquiring

\* The type invariant in three parts: the jobs, the workers, and what the other
\* owners hold.
JobsOK ==
    /\ jobs \in Seq(Job)
    /\ status \in [Job -> Open \cup Terminal \cup {"none"}]
    /\ granted \in [Job -> BOOLEAN] /\ saved \in [Job -> BOOLEAN]
    /\ artifact \in [Job -> BOOLEAN] /\ failures \in [Job -> BOOLEAN]
    /\ received \in [Job -> BOOLEAN]

WorkersOK ==
    /\ lock \in [Job -> Worker \cup {None}] /\ todo \in [Worker -> Seq(Job)]
    /\ at \in [Worker -> Place] /\ seen \in [Worker -> Record] /\ lost \in 0..MaxLost

OwnersOK ==
    /\ started \in [Job -> Nat] /\ running \in [Job -> Nat] /\ registry \in [Job -> BOOLEAN]
    /\ approved \subseteq Target /\ changes \in 0..MaxChanges
    /\ claim \in [Job -> [Target -> {"none", "acquired", "bound", "released"}]]
    /\ artifactEvent \in [Job -> {"unsent", "pending", "acknowledged"}]
    /\ versionEvent \in [Job -> {"unsent", "pending", "acknowledged"}]
    /\ calls \in [Job -> 0..MaxCalls] /\ versions \in [Job -> Nat]

\* The parts make the type invariant, before a step and after it.
LEMMA TypeParts ==
    /\ BuildTypeOK <=> JobsOK /\ WorkersOK /\ OwnersOK
    /\ BuildTypeOK' <=> JobsOK' /\ WorkersOK' /\ OwnersOK'
  BY DEF BuildTypeOK, JobsOK, WorkersOK, OwnersOK

\* A step that leaves a part's variables alone keeps the part.
LEMMA PartsKept ==
    /\ JobsOK /\ UNCHANGED build => JobsOK'
    /\ WorkersOK /\ UNCHANGED worker => WorkersOK'
    /\ OwnersOK /\ UNCHANGED <<exporter, catalog, claim, registration, outbox>> => OwnersOK'
  <1>1. JobsOK /\ UNCHANGED build => JobsOK'
        BY DEF JobsOK, build
  <1>2. WorkersOK /\ UNCHANGED worker => WorkersOK'
        BY DEF WorkersOK, worker
  <1>3. OwnersOK /\ UNCHANGED <<exporter, catalog, claim, registration, outbox>> => OwnersOK'
        BY DEF OwnersOK, exporter, catalog, registration, outbox
  <1> QED BY <1>1, <1>2, <1>3

\* Nothing is built before it is asked for.
LEMMA InitBuildInv == Init => BuildInv
  <1> SUFFICES ASSUME Init PROVE BuildInv
      OBVIOUS
  <1>1. BuildTypeOK
        BY BuildAssumption, Places DEF Init, BuildTypeOK, NoRecord, Record
  <1>2. WorkersPlaced
    <2>1. \A w \in Worker : at[w] = "idle"
          BY DEF Init
    <2>2. \A j \in Job : Exporting(j) = {} /\ running[j] = 0
          BY <2>1 DEF Init, Exporting
    <2>3. ASSUME NEW j \in Job
          PROVE  IsFiniteSet(Exporting(j)) /\ Cardinality(Exporting(j)) <= running[j]
      <3>1. Exporting(j) = {} /\ running[j] = 0
            BY <2>2
      <3> QED BY <3>1, FS_EmptySet
    <2> QED BY <2>1, <2>3 DEF WorkersPlaced, Working
  <1>3. ASSUME NEW j \in Job PROVE Registering(j) /\ Staging(j)
        BY DEF Init, Registering, Staging
  <1>4. LocksWork
        BY <1>3 DEF Init, LocksWork, Working
  <1> QED BY <1>1, <1>2, <1>3, <1>4 DEF BuildInv

\* The job of a worker that works.
LEMMA NowIsJob ==
    ASSUME BuildInv, NEW w \in Worker, Working(w)
    PROVE  Now(w) \in Job /\ todo[w] # <<>> /\ todo[w] \in Seq(Job)
  BY DEF BuildInv, BuildTypeOK, WorkersPlaced, Now

\* Workers: the pass, its locks and the moves that write nothing.
LEMMA PassTypes ==
    ASSUME BuildInv, NEW w \in Worker,
           \/ RunOnce(w) \/ EndPass(w) \/ TryLock(w) \/ Skip(w) \/ Unlock(w) \/ Abandon(w) \/ LoseLock(w)
           \/ AdvanceRegistering(w) \/ ReadManifest(w)
    PROVE  BuildTypeOK'
  <1>t. BuildTypeOK /\ (Working(w) => Now(w) \in Job /\ todo[w] # <<>> /\ todo[w] \in Seq(Job))
        BY NowIsJob DEF BuildInv
  <1>1. CASE RunOnce(w)
    <2>1. PICK f \in Listing : todo' = [todo EXCEPT ![w] = [k \in DOMAIN f |-> jobs[f[k]]]]
          BY <1>1 DEF RunOnce
    <2>2. PICK n \in 1..Batch : f \in [1..n -> OpenAt]
          BY <2>1 DEF Listing
    <2>3. [k \in DOMAIN f |-> jobs[f[k]]] \in Seq(Job)
      <3>1. n \in Nat /\ DOMAIN f = 1..n
            BY <2>2, BuildAssumption
      <3>2. \A k \in 1..n : jobs[f[k]] \in Job
            BY <1>t, <2>2 DEF OpenAt, BuildTypeOK
      <3> QED BY <3>1, <3>2
    <2>4. WorkersOK'
          BY <1>t, <1>1, <2>1, <2>3, Places, TypeParts DEF RunOnce, WorkersOK
    <2> QED BY <1>t, <1>1, <2>4, TypeParts, PartsKept DEF RunOnce
  <1>2. CASE EndPass(w) \/ AdvanceRegistering(w) \/ ReadManifest(w)
    <2>1. PICK p \in Place : at' = [at EXCEPT ![w] = p]
          BY <1>2, Places DEF EndPass, AdvanceRegistering, ReadManifest, GoTo
    <2>2. UNCHANGED <<lock, todo, seen, lost, build, exporter, catalog, claim, registration, outbox>>
          BY <1>2 DEF EndPass, AdvanceRegistering, ReadManifest, GoTo
    <2>3. WorkersOK'
          BY <1>t, <2>1, <2>2, TypeParts DEF WorkersOK
    <2> QED BY <1>t, <2>2, <2>3, TypeParts, PartsKept
  <1>3. CASE TryLock(w)
    <2>1. Now(w) \in Job
          BY <1>t, <1>3 DEF TryLock, Now, BuildTypeOK
    <2>2. Read(Now(w)) \in Record
          BY <1>t, <2>1 DEF Read, Record, BuildTypeOK
    <2> QED BY <1>t, <1>3, <2>1, <2>2, Places
            DEF TryLock, BuildTypeOK, build, exporter, catalog, registration, outbox
  <1>4. CASE Skip(w)
    <2>1. Tail(todo[w]) \in Seq(Job)
          BY <1>t, <1>4 DEF Skip, BuildTypeOK
    <2> QED BY <1>t, <1>4, <2>1 DEF Skip, BuildTypeOK, build, exporter, catalog, registration, outbox
  <1>5. CASE Unlock(w) \/ Abandon(w)
    <2>1. NoRecord \in Record
          BY DEF NoRecord, Record
    <2>2. Working(w)
          BY <1>5 DEF Unlock, Abandon, Working
    <2>3. Tail(todo[w]) \in Seq(Job) /\ <<>> \in Seq(Job)
          BY <1>t, <2>2
    <2>4. Unlocked(w) \in [Job -> Worker \cup {None}]
          BY <1>t, <2>2 DEF Unlocked, BuildTypeOK
    <2>5. PICK rest \in Seq(Job) : todo' = [todo EXCEPT ![w] = rest]
          BY <1>t, <1>5, <2>3 DEF Unlock, Abandon, BuildTypeOK
    <2>6. PICK p \in {"idle", "next"} : at' = [at EXCEPT ![w] = p]
          BY <1>5 DEF Unlock, Abandon
    <2>7. lock' = Unlocked(w) /\ seen' = [seen EXCEPT ![w] = NoRecord]
          BY <1>5 DEF Unlock, Abandon
    <2>8. UNCHANGED <<lost, build, exporter, catalog, claim, registration, outbox>>
          BY <1>5 DEF Unlock, Abandon
    <2>9. /\ todo' \in [Worker -> Seq(Job)] /\ at' \in [Worker -> Place]
          /\ seen' \in [Worker -> Record] /\ lock' \in [Job -> Worker \cup {None}]
          BY <1>t, <2>1, <2>4, <2>5, <2>6, <2>7, Places DEF BuildTypeOK
    <2>10. WorkersOK'
           BY <1>t, <2>8, <2>9, TypeParts DEF WorkersOK
    <2> QED BY <1>t, <2>8, <2>10, TypeParts, PartsKept
  <1>6. CASE LoseLock(w)
    <2>1. WorkersOK'
          BY <1>t, <1>6, BuildAssumption, TypeParts DEF LoseLock, Working, WorkersOK
    <2> QED BY <1>t, <1>6, <2>1, TypeParts, PartsKept DEF LoseLock
  <1> QED BY <1>1, <1>2, <1>3, <1>4, <1>5, <1>6

\* The exporter a worker waits for is counted.
LEMMA ExporterRuns ==
    ASSUME BuildInv, NEW w \in Worker, at[w] = "exporting"
    PROVE  running[Now(w)] > 0
  <1>1. PICK j \in Job : j = Now(w)
        BY NowIsJob DEF Working
  <1>2. w \in Exporting(j) /\ IsFiniteSet(Exporting(j)) /\ Cardinality(Exporting(j)) <= running[j]
        BY <1>1 DEF Exporting, BuildInv, WorkersPlaced
  <1>3. Cardinality(Exporting(j)) \in Nat /\ Cardinality(Exporting(j)) # 0
        BY <1>2, FS_CardinalityType, FS_EmptySet
  <1> QED BY <1>1, <1>2, <1>3 DEF BuildInv, BuildTypeOK

\* A stage is a status.
LEMMA StagedType ==
    ASSUME BuildInv, NEW w \in Worker, Working(w), NEW s \in Open \cup Terminal
    PROVE  Staged(w, s) \in [Job -> Open \cup Terminal \cup {"none"}]
  BY NowIsJob DEF Staged, BuildInv, BuildTypeOK

\* Workers: the stages of a job.
LEMMA StageTypes ==
    ASSUME BuildInv, NEW w \in Worker,
           \/ ReadNothing(w) \/ StageValidating(w) \/ Grant(w) \/ SaveClaims(w) \/ ClaimRefused(w)
           \/ StageBuilding(w) \/ NotStarted(w) \/ StartExporter(w) \/ ExportedAll(w) \/ Rejected(w)
           \/ OutcomeUnknown(w) \/ StagePushing(w) \/ Confirm(w)
           \/ \E i \in 1..3 : AcquireReference(w, i) \/ BindReference(w, i)
    PROVE  BuildTypeOK'
  <1>w. Working(w)
        BY Lists DEF ReadNothing, StageValidating, Grant, SaveClaims, ClaimRefused, StageBuilding,
                     NotStarted, StartExporter, ExportedAll, Rejected, OutcomeUnknown, StagePushing,
                     Confirm, AcquireReference, BindReference, Working
  <1>t. BuildTypeOK /\ Now(w) \in Job
        BY <1>w, NowIsJob DEF BuildInv
  <1>s. \A s \in {"needs_attention", "validating", "building", "pushing", "failed"} :
           Staged(w, s) \in [Job -> Open \cup Terminal \cup {"none"}]
        BY <1>w, StagedType DEF Open, Terminal
  <1>f. ASSUME StageFailed(w), UNCHANGED <<catalog, claim, registration, outbox, started, registry>>,
               running' \in [Job -> Nat]
        PROVE  BuildTypeOK'
    <2>1. /\ status' = Staged(w, "failed") /\ failures' = [failures EXCEPT ![Now(w)] = TRUE]
          /\ at' = [at EXCEPT ![w] = "unlock"]
          /\ UNCHANGED <<lock, todo, lost, jobs, granted, saved, artifact, received, seen>>
          BY <1>f DEF StageFailed, GoTo
    <2> QED BY <1>f, <1>s, <1>t, <2>1, Places DEF BuildTypeOK, catalog, registration, outbox
  <1>1. CASE ReadNothing(w) \/ StageValidating(w) \/ StageBuilding(w) \/ OutcomeUnknown(w) \/ StagePushing(w)
    <2>1. PICK p \in {"unlock", "grant", "export", "confirm"} : at' = [at EXCEPT ![w] = p]
          BY <1>1 DEF ReadNothing, StageValidating, StageBuilding, OutcomeUnknown, StagePushing, GoTo
    <2>2. status' \in [Job -> Open \cup Terminal \cup {"none"}]
      <3>1. status' = status \/ \E s \in {"needs_attention", "validating", "building", "pushing"} :
                                    status' = Staged(w, s)
            BY <1>1 DEF ReadNothing, StageValidating, StageBuilding, OutcomeUnknown, StagePushing
      <3>2. status \in [Job -> Open \cup Terminal \cup {"none"}]
            BY <1>t DEF BuildTypeOK
      <3> QED BY <1>s, <3>1, <3>2
    <2>3. UNCHANGED <<lock, todo, lost, seen, jobs, granted, saved, artifact, failures, received, exporter,
                      catalog, claim, registration, outbox>>
          BY <1>1 DEF ReadNothing, StageValidating, StageBuilding, OutcomeUnknown, StagePushing, GoTo
    <2> QED BY <1>t, <2>1, <2>2, <2>3, Places
            DEF BuildTypeOK, exporter, catalog, registration, outbox
  <1>2. CASE Grant(w)
    <2>1. PICK p \in Place : at' = [at EXCEPT ![w] = p]
          BY <1>2, Lists, Places DEF Grant, GoTo
    <2> QED BY <1>t, <1>2, <2>1 DEF Grant, GoTo, BuildTypeOK, exporter, catalog, registration, outbox
  <1>3. CASE SaveClaims(w)
    <2>1. PICK p \in Place : at' = [at EXCEPT ![w] = p]
          BY <1>3, Lists, Places DEF SaveClaims, GoTo
    <2>2. /\ saved' = [saved EXCEPT ![Now(w)] = TRUE]
          /\ UNCHANGED <<lock, todo, lost, seen, jobs, status, granted, artifact, failures, received,
                         exporter, catalog, claim, registration, outbox>>
          BY <1>3 DEF SaveClaims, GoTo
    <2> QED BY <1>t, <2>1, <2>2 DEF BuildTypeOK, exporter, catalog, registration, outbox
  <1>4. ASSUME NEW i \in 1..3, AcquireReference(w, i) \/ BindReference(w, i) PROVE BuildTypeOK'
    <2>1. PICK p \in Place : at' = [at EXCEPT ![w] = p]
          BY <1>4, Lists, Places DEF AcquireReference, BindReference, GoTo
    <2>2. PICK t \in Target : t = Targets[i]
          BY Lists
    <2>3. PICK c \in {"none", "acquired", "bound", "released"} : claim' = [claim EXCEPT ![Now(w)][t] = c]
      <3>1. CASE BindReference(w, i)
            BY <2>2, <3>1 DEF BindReference
      <3>2. CASE AcquireReference(w, i)
        <4>1. claim[Now(w)][t] \in {"none", "acquired", "bound", "released"}
              BY <1>t DEF BuildTypeOK
        <4> QED BY <2>2, <3>2, <4>1 DEF AcquireReference
      <3> QED BY <1>4, <3>1, <3>2
    <2>4. claim' \in [Job -> [Target -> {"none", "acquired", "bound", "released"}]]
          BY <1>t, <2>3 DEF BuildTypeOK
    <2>5. UNCHANGED <<lock, todo, lost, seen, build, exporter, catalog, registration, outbox>>
          BY <1>4 DEF AcquireReference, BindReference, GoTo
    <2> QED BY <1>t, <2>1, <2>4, <2>5 DEF BuildTypeOK, build, exporter, catalog, registration, outbox
  <1>5. CASE ClaimRefused(w) \/ NotStarted(w)
        BY <1>5, <1>f, <1>t DEF ClaimRefused, NotStarted, exporter, BuildTypeOK
  <1>6. CASE Rejected(w)
    <2>1. running' \in [Job -> Nat]
          BY <1>t, <1>6, ExporterRuns DEF Rejected, BuildTypeOK
    <2> QED BY <1>6, <1>f, <2>1 DEF Rejected
  <1>7. CASE ExportedAll(w)
    <2>1. running' \in [Job -> Nat]
          BY <1>t, <1>7, ExporterRuns DEF ExportedAll, BuildTypeOK
    <2>2. at' = [at EXCEPT ![w] = "pushing"] /\ "pushing" \in Place
          BY <1>7, Places DEF ExportedAll, GoTo
    <2>3. at' \in [Worker -> Place]
          BY <1>t, <2>2 DEF BuildTypeOK
    <2>4. WorkersOK'
          BY <1>t, <1>7, <2>3, TypeParts DEF ExportedAll, GoTo, WorkersOK
    <2>5. OwnersOK'
          BY <1>t, <1>7, <2>1, TypeParts DEF ExportedAll, OwnersOK, catalog, registration, outbox
    <2> QED BY <1>t, <1>7, <2>4, <2>5, TypeParts, PartsKept DEF ExportedAll
  <1>8. CASE StartExporter(w)
    <2>1. WorkersOK'
          BY <1>t, <1>8, Places, TypeParts DEF StartExporter, GoTo, WorkersOK
    <2>2. OwnersOK'
          BY <1>t, <1>8, TypeParts DEF StartExporter, OwnersOK, catalog, registration, outbox
    <2> QED BY <1>t, <1>8, <2>1, <2>2, TypeParts, PartsKept DEF StartExporter
  <1>9. CASE Confirm(w)
    <2>1. WorkersOK'
          BY <1>t, <1>9, Places, TypeParts DEF Confirm, GoTo, WorkersOK
    <2>2. OwnersOK'
          BY <1>t, <1>9, TypeParts DEF Confirm, OwnersOK, exporter, catalog, registration
    <2>3. JobsOK'
          BY <1>t, <1>9, TypeParts DEF Confirm, JobsOK, Open
    <2> QED BY <2>1, <2>2, <2>3, TypeParts
  <1> QED BY <1>1, <1>2, <1>3, <1>4, <1>5, <1>6, <1>7, <1>8, <1>9

\* Requests, exporters, deliveries, releases and approvals.
LEMMA OutsideTypes ==
    ASSUME BuildInv,
           \/ \E j \in Job : CreateBuild(j) \/ Push(j) \/ Deliveries(j)
           \/ \E j \in Job, t \in Target : ReleaseReference(j, t)
           \/ \E t \in Target : SetVersionStatus(t)
    PROVE  BuildTypeOK'
  <1>t. BuildTypeOK
        BY DEF BuildInv
  <1>1. ASSUME NEW j \in Job, CreateBuild(j) \/ Push(j) PROVE BuildTypeOK'
    <2>1. CASE CreateBuild(j)
      <3>1. Append(jobs, j) \in Seq(Job)
            BY <1>t DEF BuildTypeOK
      <3> QED BY <1>t, <2>1, <3>1
              DEF CreateBuild, BuildTypeOK, Open, worker, exporter, catalog, registration, outbox
    <2>2. CASE Push(j)
      <3>1. registry' \in [Job -> BOOLEAN]
            BY <1>t, <2>2 DEF Push, BuildTypeOK
      <3>2. UNCHANGED <<started, running, build, worker, catalog, claim, registration, outbox>>
            BY <2>2 DEF Push
      <3> QED BY <1>t, <3>1, <3>2 DEF BuildTypeOK, build, worker, catalog, registration, outbox
    <2> QED BY <1>1, <2>1, <2>2
  <1>2. ASSUME NEW j \in Job, ValidateFrozenInput(j) PROVE BuildTypeOK'
    <2>1. OwnersOK'
          BY <1>t, <1>2, BuildAssumption, TypeParts DEF ValidateFrozenInput, OwnersOK, exporter, catalog, outbox
    <2> QED BY <1>t, <1>2, <2>1, TypeParts, PartsKept DEF ValidateFrozenInput
  <1>3. ASSUME NEW j \in Job, Register(j) PROVE BuildTypeOK'
    <2>0. /\ calls \in [Job -> 0..MaxCalls] /\ versions \in [Job -> Nat]
          /\ versionEvent \in [Job -> {"unsent", "pending", "acknowledged"}]
          /\ artifactEvent \in [Job -> {"unsent", "pending", "acknowledged"}]
          BY <1>t DEF BuildTypeOK
    <2>1. calls' \in [Job -> 0..MaxCalls]
          BY <1>3, <2>0, BuildAssumption DEF Register
    <2>2. versions' \in [Job -> Nat] /\ versionEvent' \in [Job -> {"unsent", "pending", "acknowledged"}]
          BY <1>3, <2>0 DEF Register
    <2>4. artifactEvent' \in [Job -> {"unsent", "pending", "acknowledged"}]
      <3>1. artifactEvent' \in Answered(artifactEvent, j)
            BY <1>3 DEF Register
      <3> QED BY <2>0, <3>1 DEF Answered
    <2>3. UNCHANGED <<build, worker, exporter, catalog, claim>>
          BY <1>3 DEF Register
    <2>5. OwnersOK'
          BY <1>t, <2>1, <2>2, <2>3, <2>4, TypeParts DEF OwnersOK, exporter, catalog
    <2> QED BY <1>t, <2>3, <2>5, TypeParts, PartsKept
  <1>4. ASSUME NEW j \in Job, AcknowledgeArtifact(j) \/ Registered(j) PROVE BuildTypeOK'
    <2>1. UNCHANGED <<worker, exporter, catalog, claim, registration>>
          BY <1>4 DEF AcknowledgeArtifact, Registered
    <2>2. /\ artifactEvent' \in [Job -> {"unsent", "pending", "acknowledged"}]
          /\ versionEvent' \in [Job -> {"unsent", "pending", "acknowledged"}]
          BY <1>t, <1>4, TypeParts DEF AcknowledgeArtifact, Registered, Answered, OwnersOK
    <2>3. OwnersOK'
          BY <1>t, <2>1, <2>2, TypeParts DEF OwnersOK, exporter, catalog, registration
    <2>4. JobsOK'
          BY <1>t, <1>4, TypeParts DEF AcknowledgeArtifact, Registered, JobsOK, Terminal, build
    <2> QED BY <1>t, <2>1, <2>3, <2>4, TypeParts, PartsKept
  <1>5. ASSUME NEW j \in Job, NEW t \in Target, ReleaseReference(j, t) PROVE BuildTypeOK'
        BY <1>t, <1>5
        DEF ReleaseReference, BuildTypeOK, build, worker, exporter, catalog, registration, outbox
  <1>6. ASSUME NEW t \in Target, SetVersionStatus(t) PROVE BuildTypeOK'
        BY <1>t, <1>6, BuildAssumption
        DEF SetVersionStatus, BuildTypeOK, build, worker, exporter, registration, outbox
  <1> QED BY <1>1, <1>2, <1>3, <1>4, <1>5, <1>6 DEF Deliveries

-----------------------------------------------------------------------------
(* Who works where.                                                         *)

\* A worker that moves without an exporter started or ended.
LEMMA MovePlaced ==
    ASSUME BuildInv, BuildTypeOK', NEW w \in Worker, NEW p \in Place \ {"exporting"},
           at' = [at EXCEPT ![w] = p], \A v \in Worker \ {w} : todo'[v] = todo[v],
           p \notin {"idle", "next"} => todo'[w] # <<>>, running' = running
    PROVE  WorkersPlaced'
  <1>t. at \in [Worker -> Place] /\ WorkersPlaced
        BY DEF BuildInv, BuildTypeOK
  <1>1. \A v \in Worker : Working(v)' => todo'[v] # <<>>
        BY <1>t DEF WorkersPlaced, Working
  <1>2. ASSUME NEW j \in Job
        PROVE  IsFiniteSet(Exporting(j)') /\ Cardinality(Exporting(j)') <= running'[j]
    <2>1. Exporting(j)' \subseteq Exporting(j)
          BY <1>t DEF Exporting, Now
    <2>2. IsFiniteSet(Exporting(j)) /\ Cardinality(Exporting(j)) <= running[j]
          BY <1>t DEF WorkersPlaced
    <2>3. /\ IsFiniteSet(Exporting(j)')
          /\ Cardinality(Exporting(j)') <= Cardinality(Exporting(j))
          BY <2>1, <2>2, FS_Subset
    <2>4. /\ Cardinality(Exporting(j)) \in Nat /\ Cardinality(Exporting(j)') \in Nat
          /\ running'[j] = running[j] /\ running[j] \in Nat
          BY <2>2, <2>3, FS_CardinalityType DEF BuildInv, BuildTypeOK
    <2> QED BY <2>2, <2>3, <2>4
  <1> QED BY <1>1, <1>2 DEF WorkersPlaced

\* A worker that stays where it is.
LEMMA StayPlaced ==
    ASSUME BuildInv, UNCHANGED <<at, todo, running>>
    PROVE  WorkersPlaced'
  <1>1. \A j \in Job : Exporting(j)' = Exporting(j)
        BY DEF Exporting, Now
  <1> QED BY <1>1 DEF BuildInv, WorkersPlaced, Working

\* An exporter that is started is counted for its worker.
LEMMA StartPlaced ==
    ASSUME BuildInv, NEW w \in Worker, StartExporter(w)
    PROVE  WorkersPlaced'
  <1>1. PICK k \in Job : k = Now(w)
        BY NowIsJob DEF StartExporter, Working
  <1>2. /\ at[w] = "export" /\ at' = [at EXCEPT ![w] = "exporting"] /\ todo' = todo
        /\ running' = [running EXCEPT ![k] = @ + 1]
        /\ at \in [Worker -> Place] /\ running \in [Job -> Nat] /\ WorkersPlaced
        BY <1>1 DEF StartExporter, GoTo, BuildInv, BuildTypeOK
  <1>3. \A v \in Worker : Working(v)' => todo'[v] # <<>>
        BY <1>2 DEF WorkersPlaced, Working
  <1>4. ASSUME NEW j \in Job
        PROVE  IsFiniteSet(Exporting(j)') /\ Cardinality(Exporting(j)') <= running'[j]
    <2>1. IsFiniteSet(Exporting(j)) /\ Cardinality(Exporting(j)) <= running[j]
          BY <1>2 DEF WorkersPlaced
    <2>2. Cardinality(Exporting(j)) \in Nat
          BY <2>1, FS_CardinalityType
    <2>3. CASE j = k
      <3>1. Exporting(j)' = Exporting(j) \cup {w} /\ w \notin Exporting(j)
            BY <1>1, <1>2, <2>3 DEF Exporting, Now
      <3>2. IsFiniteSet(Exporting(j) \cup {w}) /\ Cardinality(Exporting(j) \cup {w}) = Cardinality(Exporting(j)) + 1
            BY <2>1, <3>1, FS_AddElement
      <3> QED BY <1>2, <2>1, <2>2, <2>3, <3>1, <3>2
    <2>4. CASE j # k
      <3>1. Exporting(j)' = Exporting(j)
            BY <1>1, <1>2, <2>4 DEF Exporting, Now
      <3> QED BY <1>2, <2>1, <2>4, <3>1
    <2> QED BY <2>3, <2>4
  <1> QED BY <1>3, <1>4 DEF WorkersPlaced

\* An exporter that ended is no longer counted.
LEMMA EndPlaced ==
    ASSUME BuildInv, NEW w \in Worker, ExportedAll(w) \/ Rejected(w)
    PROVE  WorkersPlaced'
  <1>1. PICK k \in Job : k = Now(w)
        BY NowIsJob DEF ExportedAll, Rejected, Working
  <1>2. /\ at[w] = "exporting" /\ todo' = todo
        /\ running' = [running EXCEPT ![k] = @ - 1]
        /\ at \in [Worker -> Place] /\ running \in [Job -> Nat] /\ WorkersPlaced
        BY <1>1 DEF ExportedAll, Rejected, StageFailed, GoTo, BuildInv, BuildTypeOK
  <1>3. PICK p \in {"pushing", "unlock"} : at' = [at EXCEPT ![w] = p]
        BY DEF ExportedAll, Rejected, StageFailed, GoTo
  <1>4. \A v \in Worker : Working(v)' => todo'[v] # <<>>
        BY <1>2, <1>3 DEF WorkersPlaced, Working
  <1>5. ASSUME NEW j \in Job
        PROVE  IsFiniteSet(Exporting(j)') /\ Cardinality(Exporting(j)') <= running'[j]
    <2>1. IsFiniteSet(Exporting(j)) /\ Cardinality(Exporting(j)) <= running[j]
          BY <1>2 DEF WorkersPlaced
    <2>2. Cardinality(Exporting(j)) \in Nat
          BY <2>1, FS_CardinalityType
    <2>3. CASE j = k
      <3>1. Exporting(j)' = Exporting(j) \ {w} /\ w \in Exporting(j)
            BY <1>1, <1>2, <1>3, <2>3 DEF Exporting, Now
      <3>2. IsFiniteSet(Exporting(j) \ {w}) /\ Cardinality(Exporting(j) \ {w}) = Cardinality(Exporting(j)) - 1
            BY <2>1, <3>1, FS_RemoveElement
      <3> QED BY <1>2, <2>1, <2>2, <2>3, <3>1, <3>2
    <2>4. CASE j # k
      <3>1. Exporting(j)' = Exporting(j)
            BY <1>1, <1>2, <1>3, <2>4 DEF Exporting, Now
      <3> QED BY <1>2, <2>1, <2>4, <3>1
    <2> QED BY <2>3, <2>4
  <1> QED BY <1>4, <1>5 DEF WorkersPlaced

-----------------------------------------------------------------------------
(* A step is about one job.                                                 *)

\* Nothing is written of any other job.
OnlyOf(j) ==
    \A k \in Job \ {j} :
        /\ status'[k] = status[k] /\ saved'[k] = saved[k] /\ artifact'[k] = artifact[k]
        /\ received'[k] = received[k] /\ started'[k] = started[k] /\ registry'[k] = registry[k]
        /\ claim'[k] = claim[k] /\ calls'[k] = calls[k] /\ versions'[k] = versions[k]
        /\ artifactEvent'[k] = artifactEvent[k] /\ versionEvent'[k] = versionEvent[k]

\* What is so of the other jobs stays so.
LEMMA OtherJobs ==
    ASSUME BuildInv, NEW j \in Job, OnlyOf(j), NEW k \in Job \ {j}
    PROVE  Registering(k)' /\ (LocksHeld => Staging(k)')
  BY DEF BuildInv, OnlyOf, Registering, LocksWork, Staging

\* A worker with the lock of another job is not disturbed.
LEMMA OtherWorkers ==
    ASSUME BuildInv, LocksHeld, NEW w \in Worker, NEW j \in Job, lock[j] \in {w, None}, OnlyOf(j),
           \A k \in Job \ {j} : lock'[k] = lock[k],
           NEW v \in Worker \ {w}, Working(v),
           at'[v] = at[v], todo'[v] = todo[v], seen'[v] = seen[v]
    PROVE  UnderLock(v)'
  <1>1. UnderLock(v)
        BY DEF BuildInv, LocksWork
  <1>2. PICK k \in Job : k = Now(v)
        BY NowIsJob
  <1>3. k # j
        BY <1>1, <1>2, BuildAssumption DEF UnderLock
  <1>4. Now(v)' = k
        BY <1>2 DEF Now
  <1> QED BY <1>1, <1>2, <1>3, <1>4 DEF UnderLock, OnlyOf

\* A step of a worker about the job whose lock it holds.
LEMMA HolderStep ==
    ASSUME BuildInv, BuildTypeOK', WorkersPlaced', NEW w \in Worker, Working(w), NEW p \in Place,
           GoTo(w, p), seen' = seen, NEW j \in Job, j = Now(w), OnlyOf(j), Registering(j)',
           LocksHeld => UnderLock(w)' /\ Staging(j)'
    PROVE  BuildInv'
  <1>1. at' = [at EXCEPT ![w] = p] /\ UNCHANGED <<lock, todo, lost>> /\ at \in [Worker -> Place]
        BY DEF GoTo, BuildInv, BuildTypeOK
  <1>2. \A k \in Job : Registering(k)'
        BY OtherJobs
  <1>3. ASSUME LocksHeld'
        PROVE  /\ \A v \in Worker : Working(v)' => UnderLock(v)'
               /\ \A k \in Job : Staging(k)'
    <2>1. LocksHeld /\ lock[j] = w
          BY <1>1, <1>3 DEF LocksHeld, BuildInv, LocksWork, UnderLock
    <2>2. ASSUME NEW v \in Worker, Working(v)' PROVE UnderLock(v)'
      <3>1. CASE v = w
            BY <2>1, <3>1
      <3>2. CASE v # w
        <4>1. at'[v] = at[v] /\ Working(v)
              BY <1>1, <2>2, <3>2 DEF Working
        <4> QED BY <1>1, <2>1, <3>2, <4>1, OtherWorkers
      <3> QED BY <3>1, <3>2
    <2>3. \A k \in Job : Staging(k)'
          BY <2>1, OtherJobs
    <2> QED BY <2>2, <2>3
  <1> QED BY <1>2, <1>3 DEF BuildInv, LocksWork

\* A step of no worker.
LEMMA OutsideStep ==
    ASSUME BuildInv, BuildTypeOK', UNCHANGED <<worker, running>>, NEW j \in Job, OnlyOf(j),
           Registering(j)', LocksHeld => Staging(j)',
           \A w \in Worker : LocksHeld /\ Working(w) /\ Now(w) = j => UnderLock(w)'
    PROVE  BuildInv'
  <1>1. UNCHANGED <<lock, todo, at, seen, lost, running>>
        BY DEF worker
  <1>2. \A k \in Job : Registering(k)'
        BY OtherJobs
  <1>3. ASSUME LocksHeld'
        PROVE  /\ \A v \in Worker : Working(v)' => UnderLock(v)'
               /\ \A k \in Job : Staging(k)'
    <2>1. LocksHeld
          BY <1>1, <1>3 DEF LocksHeld
    <2>2. ASSUME NEW v \in Worker, Working(v)' PROVE UnderLock(v)'
      <3>1. Working(v) /\ UnderLock(v)
            BY <1>1, <2>1, <2>2 DEF Working, BuildInv, LocksWork
      <3>2. PICK k \in Job : k = Now(v) /\ k = Now(v)'
            BY <1>1, <3>1, NowIsJob DEF Now
      <3>3. CASE k = j
            BY <2>1, <3>1, <3>2, <3>3
      <3>4. CASE k # j
            BY <1>1, <3>1, <3>2, <3>4 DEF UnderLock, OnlyOf
      <3> QED BY <3>3, <3>4
    <2>3. \A k \in Job : Staging(k)'
          BY <2>1, OtherJobs
    <2> QED BY <2>2, <2>3
  <1>4. WorkersPlaced'
        BY <1>1, StayPlaced
  <1> QED BY <1>2, <1>3, <1>4 DEF BuildInv, LocksWork

-----------------------------------------------------------------------------
(* The steps of a worker.                                                   *)

jobrow == <<status, saved, artifact, received, started, registry, claim, registration, outbox>>

\* A step that writes nothing of any job.
LEMMA NothingWritten ==
    ASSUME BuildInv, UNCHANGED jobrow, NEW j \in Job
    PROVE  OnlyOf(j) /\ Registering(j)' /\ (LocksHeld => Staging(j)')
  BY DEF BuildInv, jobrow, registration, outbox, OnlyOf, Registering, LocksWork, Staging

\* A stage that is written of the job at hand.
LEMMA StagedJob ==
    ASSUME BuildInv, NEW w \in Worker, Working(w), NEW j \in Job, j = Now(w),
           NEW s \in {"needs_attention", "validating", "building", "pushing", "failed"},
           status' = Staged(w, s),
           UNCHANGED <<saved, artifact, received, started, registry, claim, registration, outbox>>,
           LocksHeld => /\ status[j] # "registering"
                        /\ s = "validating" /\ status[j] \notin Terminal => started[j] = 0
    PROVE  /\ OnlyOf(j) /\ Registering(j)' /\ (LocksHeld => Staging(j)')
           /\ status'[j] = IF status[j] \in Terminal THEN status[j] ELSE s
  <1>1. status' = [status EXCEPT ![j] = IF status[j] \in Terminal THEN status[j] ELSE s]
        BY DEF Staged
  <1>2. /\ status'[j] = IF status[j] \in Terminal THEN status[j] ELSE s
        /\ \A k \in Job \ {j} : status'[k] = status[k]
        /\ status[j] = "succeeded" => status'[j] = "succeeded"
        /\ status'[j] = "succeeded" => status[j] = "succeeded"
        BY <1>1 DEF BuildInv, BuildTypeOK, Terminal
  <1>3. UNCHANGED <<saved, artifact, received, started, registry, claim, calls, versions, artifactEvent,
                    versionEvent>>
        BY DEF registration, outbox
  <1>4. OnlyOf(j)
        BY <1>2, <1>3 DEF OnlyOf
  <1>5. Registering(j)'
        BY <1>2, <1>3 DEF BuildInv, Registering
  <1>6. ASSUME LocksHeld PROVE Staging(j)'
    <2>1. Staging(j) /\ started[j] \in Nat
          BY <1>6 DEF BuildInv, LocksWork, BuildTypeOK
    <2>2. /\ status'[j] \in {"registering", "succeeded"} <=> status[j] \in {"registering", "succeeded"}
          /\ started[j] > 0 => status'[j] \notin {"none", "queued", "validating"}
          BY <1>2, <1>6, <2>1 DEF Staging, Terminal
    <2> QED BY <1>2, <1>3, <2>1, <2>2 DEF Staging
  <1> QED BY <1>2, <1>4, <1>5, <1>6

\* A worker between two jobs, or at rest, holds no lock.
LEMMA RestStep ==
    ASSUME BuildInv, BuildTypeOK', NEW w \in Worker, NEW p \in {"idle", "next"},
           at' = [at EXCEPT ![w] = p], UNCHANGED <<jobrow, running, lost>>,
           \A v \in Worker \ {w} : todo'[v] = todo[v] /\ seen'[v] = seen[v],
           \A k \in Job : lock'[k] = lock[k] \/ lock[k] = w
    PROVE  BuildInv'
  <1>t. at \in [Worker -> Place] /\ WorkersPlaced
        BY DEF BuildInv, BuildTypeOK
  <1>1. WorkersPlaced'
        BY MovePlaced, Places
  <1>2. \A k \in Job : Registering(k)' /\ (LocksHeld => Staging(k)')
        BY NothingWritten
  <1>3. ASSUME NEW v \in Worker, Working(v)', LocksHeld' PROVE UnderLock(v)'
    <2>1. v # w /\ at'[v] = at[v] /\ Working(v)
          BY <1>t, <1>3 DEF Working
    <2>2. LocksHeld /\ UnderLock(v)
          BY <1>3, <2>1 DEF LocksHeld, BuildInv, LocksWork
    <2>3. PICK k \in Job : k = Now(v) /\ k = Now(v)'
          BY <2>1, NowIsJob DEF Now
    <2>4. lock'[k] = v
          BY <2>1, <2>2, <2>3 DEF UnderLock
    <2>5. UNCHANGED <<status, saved, started>>
          BY DEF jobrow
    <2> QED BY <2>1, <2>2, <2>3, <2>4, <2>5 DEF UnderLock
  <1>4. LocksHeld' => LocksHeld
        BY DEF LocksHeld
  <1> QED BY <1>1, <1>2, <1>3, <1>4 DEF BuildInv, LocksWork

\* A worker's pass: its jobs and their locks.
LEMMA PassSteps ==
    ASSUME BuildInv, NEW w \in Worker,
           RunOnce(w) \/ EndPass(w) \/ Skip(w) \/ Unlock(w) \/ Abandon(w) \/ TryLock(w) \/ LoseLock(w)
    PROVE  BuildInv'
  <1>t. BuildTypeOK /\ BuildTypeOK' /\ WorkersPlaced
        BY PassTypes DEF BuildInv
  <1>u. UNCHANGED <<jobrow, running>>
        BY DEF RunOnce, EndPass, Skip, Unlock, Abandon, TryLock, LoseLock, jobrow, build, exporter
  <1>1. CASE RunOnce(w) \/ EndPass(w) \/ Skip(w) \/ Unlock(w) \/ Abandon(w)
    <2>1. PICK p \in {"idle", "next"} : at' = [at EXCEPT ![w] = p]
      <3>1. Skip(w) => at' = [at EXCEPT ![w] = "next"]
            BY <1>t DEF Skip, BuildTypeOK
      <3> QED BY <1>1, <3>1 DEF RunOnce, EndPass, Unlock, Abandon
    <2>2. lost' = lost /\ \A v \in Worker \ {w} : todo'[v] = todo[v] /\ seen'[v] = seen[v]
      <3>1. /\ lost' = lost
            /\ seen' = seen \/ seen' = [seen EXCEPT ![w] = NoRecord]
            BY <1>1 DEF RunOnce, EndPass, Skip, Unlock, Abandon
      <3>2. todo' = todo \/ \E rest : todo' = [todo EXCEPT ![w] = rest]
        <4>1. CASE RunOnce(w)
              BY <4>1 DEF RunOnce
        <4>2. CASE EndPass(w) \/ Skip(w) \/ Unlock(w) \/ Abandon(w)
              BY <4>2 DEF EndPass, Skip, Unlock, Abandon
        <4> QED BY <1>1, <4>1, <4>2
      <3>3. seen \in [Worker -> Record] /\ todo \in [Worker -> Seq(Job)]
            BY <1>t DEF BuildTypeOK
      <3> QED BY <3>1, <3>2, <3>3
    <2>3. \A k \in Job : lock'[k] = lock[k] \/ lock[k] = w
      <3>1. lock' = lock \/ lock' = Unlocked(w)
        <4>1. CASE RunOnce(w)
              BY <4>1 DEF RunOnce
        <4>2. CASE EndPass(w) \/ Skip(w)
              BY <4>2 DEF EndPass, Skip
        <4>3. CASE Unlock(w) \/ Abandon(w)
              BY <4>3 DEF Unlock, Abandon
        <4> QED BY <1>1, <4>1, <4>2, <4>3
      <3> QED BY <1>t, <3>1 DEF Unlocked, BuildTypeOK
    <2> QED BY <1>t, <1>u, <2>1, <2>2, <2>3, RestStep
  <1>2. CASE TryLock(w)
    <2>0. Now(w) \in Job
          BY <1>t, <1>2 DEF TryLock, Now, BuildTypeOK
    <2>1. PICK j \in Job : j = Now(w)
          BY <2>0
    <2>2. /\ at' = [at EXCEPT ![w] = "advance"] /\ lock' = [lock EXCEPT ![j] = w] /\ lock[j] = None
          /\ seen' = [seen EXCEPT ![w] = Read(j)] /\ UNCHANGED <<todo, lost>> /\ todo[w] # <<>>
          /\ at[w] = "next"
          BY <1>2, <2>1 DEF TryLock
    <2>3. WorkersPlaced'
          BY <1>t, <1>u, <2>2, MovePlaced, Places
    <2>4. \A k \in Job : OnlyOf(k) /\ Registering(k)' /\ (LocksHeld => Staging(k)')
          BY <1>u, NothingWritten
    <2>5. ASSUME LocksHeld', NEW v \in Worker, Working(v)' PROVE UnderLock(v)'
      <3>1. LocksHeld
            BY <2>2, <2>5 DEF LocksHeld
      <3>2. CASE v = w
        <4>0. DOMAIN at = Worker /\ DOMAIN lock = Job /\ DOMAIN seen = Worker
              BY <1>t DEF BuildTypeOK
        <4>1. at'[w] = "advance" /\ lock'[j] = w /\ seen'[w] = Read(j) /\ Now(w)' = j
              BY <2>1, <2>2, <4>0 DEF Now
        <4>2. seen'[w].status = status'[j] /\ seen'[w].saved = saved'[j]
              BY <1>u, <4>1 DEF Read, jobrow
        <4> QED BY <3>2, <4>1, <4>2, Lists DEF UnderLock, Since, Preparing
      <3>3. CASE v # w
        <4>1. /\ at'[v] = at[v] /\ seen'[v] = seen[v] /\ todo'[v] = todo[v] /\ Working(v)
              /\ \A k \in Job \ {j} : lock'[k] = lock[k]
              BY <1>t, <2>2, <2>5, <3>3 DEF BuildTypeOK, Working
        <4> QED BY <2>2, <2>4, <3>1, <3>3, <4>1, OtherWorkers
      <3> QED BY <3>2, <3>3
    <2>6. LocksHeld' => LocksHeld
          BY <2>2 DEF LocksHeld
    <2> QED BY <1>t, <2>3, <2>4, <2>5, <2>6 DEF BuildInv, LocksWork
  <1>3. CASE LoseLock(w)
    <2>1. UNCHANGED <<todo, at, running>> /\ ~LocksHeld'
          BY <1>t, <1>3, <1>u, BuildAssumption DEF LoseLock, LocksHeld, BuildTypeOK
    <2>2. \A k \in Job : Registering(k)'
          BY <1>u, NothingWritten
    <2> QED BY <1>t, <2>1, <2>2, StayPlaced DEF BuildInv, LocksWork
  <1> QED BY <1>1, <1>2, <1>3

\* What a worker relies on at the place it goes to.
Arrives(w, j, p) ==
    /\ p # "advance"
    /\ p = "grant" => seen[w].saved = saved'[j]
    /\ p \in Acquiring => ~saved'[j]
    /\ p \in Preparing => status'[j] \in {"validating"} \cup Terminal
    /\ p = "export" => \/ status'[j] = "building" /\ started'[j] = 0
                       \/ status'[j] \in Terminal
    /\ p \in {"exporting", "pushing"} => status'[j] \notin {"none", "queued", "validating", "registering"}

\* A worker goes on to where it has what it needs.
LEMMA ArriveStep ==
    ASSUME BuildInv, BuildTypeOK', WorkersPlaced', NEW w \in Worker, Working(w), NEW p \in Place,
           GoTo(w, p), seen' = seen, NEW j \in Job, j = Now(w), OnlyOf(j), Registering(j)',
           LocksHeld => Staging(j)' /\ Arrives(w, j, p)
    PROVE  BuildInv'
  <1>1. /\ at' = [at EXCEPT ![w] = p] /\ UNCHANGED <<lock, todo, lost>> /\ at \in [Worker -> Place]
        BY DEF GoTo, BuildInv, BuildTypeOK
  <1>2. at'[w] = p /\ Now(w)' = j /\ seen'[w] = seen[w]
        BY <1>1 DEF Now
  <1>3. ASSUME LocksHeld PROVE UnderLock(w)'
    <2>1. lock'[j] = w /\ Arrives(w, j, p)
          BY <1>1, <1>3 DEF BuildInv, LocksWork, UnderLock
    <2> QED BY <1>2, <2>1 DEF UnderLock, Arrives
  <1> QED BY <1>3, HolderStep

\* The same without an exporter.
LEMMA MoveStep ==
    ASSUME BuildInv, BuildTypeOK', running' = running, NEW w \in Worker, Working(w),
           NEW p \in Place \ {"exporting"},
           GoTo(w, p), seen' = seen, NEW j \in Job, j = Now(w), OnlyOf(j), Registering(j)',
           LocksHeld => Staging(j)' /\ Arrives(w, j, p)
    PROVE  BuildInv'
  <1>1. at' = [at EXCEPT ![w] = p] /\ todo' = todo /\ todo[w] # <<>>
        BY NowIsJob DEF GoTo
  <1>2. WorkersPlaced'
        BY <1>1, MovePlaced
  <1> QED BY <1>2, ArriveStep

\* A worker that wrote a stage of its job.
LEMMA StageStep ==
    ASSUME BuildInv, NEW w \in Worker,
           \/ ReadNothing(w) \/ StageValidating(w) \/ StageBuilding(w) \/ OutcomeUnknown(w) \/ StagePushing(w)
    PROVE  BuildInv'
  <1>w. Working(w)
        BY DEF ReadNothing, StageValidating, StageBuilding, OutcomeUnknown, StagePushing, Working
  <1>j. PICK j \in Job : j = Now(w)
        BY <1>w, NowIsJob
  <1>t. BuildTypeOK' /\ BuildTypeOK
        BY StageTypes DEF BuildInv
  <1>u. /\ UNCHANGED <<saved, artifact, received, started, registry, claim, registration, outbox>>
        /\ seen' = seen /\ running' = running
        BY DEF ReadNothing, StageValidating, StageBuilding, OutcomeUnknown, StagePushing, exporter
  <1>l. LocksHeld => /\ UnderLock(w) /\ Staging(j) /\ started[j] \in Nat
                     /\ status[j] \in Open \cup Terminal \cup {"none"}
        BY <1>w, <1>t DEF BuildInv, LocksWork, BuildTypeOK
  <1>p. "unlock" \notin Preparing /\ "confirm" \notin Preparing /\ "export" \notin Preparing
        /\ "unlock" \notin Acquiring /\ "confirm" \notin Acquiring /\ "export" \notin Acquiring
        /\ "grant" \notin Acquiring /\ "validate" \in Preparing
        /\ {"unlock", "confirm", "export", "grant"} \subseteq Place \ {"exporting"}
        BY Lists, Places DEF Preparing
  <1>1. CASE ReadNothing(w)
    <2>1. GoTo(w, "unlock") /\ at[w] = "advance" /\ Restarted(w)
          BY <1>1 DEF ReadNothing
    <2>2. LocksHeld => status[j] \in {"building", "pushing", "needs_attention"}
          BY <1>j, <1>l, <2>1 DEF UnderLock, Since, Restarted
    <2>3. CASE status' = status
      <3>1. UNCHANGED jobrow
            BY <1>u, <2>3 DEF jobrow
      <3> QED BY <1>w, <1>j, <1>t, <1>u, <1>p, <2>1, <3>1, NothingWritten, MoveStep DEF Arrives
    <2>4. CASE status' = Staged(w, "needs_attention")
      <3>1. OnlyOf(j) /\ Registering(j)' /\ (LocksHeld => Staging(j)')
            BY <1>w, <1>j, <1>u, <2>2, <2>4, StagedJob
      <3> QED BY <1>w, <1>j, <1>t, <1>u, <1>p, <2>1, <3>1, MoveStep DEF Arrives
    <2> QED BY <1>1, <2>3, <2>4 DEF ReadNothing
  <1>2. CASE StageValidating(w)
    <2>1. GoTo(w, "grant") /\ at[w] = "advance" /\ status' = Staged(w, "validating")
          /\ seen[w].status \notin {"registering", "building", "pushing", "needs_attention"}
          BY <1>2 DEF StageValidating, Restarted
    <2>2. LocksHeld => status[j] \in {"none", "queued", "validating"} \cup Terminal
          BY <1>j, <1>l, <2>1 DEF UnderLock, Since, Open
    <2>3. LocksHeld => /\ status[j] # "registering"
                       /\ "validating" = "validating" /\ status[j] \notin Terminal => started[j] = 0
          BY <1>l, <2>2 DEF Staging, Terminal
    <2>4. /\ OnlyOf(j) /\ Registering(j)' /\ (LocksHeld => Staging(j)')
          /\ status'[j] = IF status[j] \in Terminal THEN status[j] ELSE "validating"
          BY <1>w, <1>j, <1>u, <2>1, <2>3, StagedJob
    <2>5. LocksHeld => seen[w].saved = saved'[j]
          BY <1>j, <1>l, <1>u, <2>1 DEF UnderLock
    <2>6. LocksHeld => Arrives(w, j, "grant")
          BY <1>p, <2>4, <2>5 DEF Arrives
    <2> QED BY <1>w, <1>j, <1>t, <1>u, <1>p, <2>1, <2>4, <2>6, MoveStep
  <1>3. CASE StageBuilding(w)
    <2>1. GoTo(w, "export") /\ at[w] = "validate" /\ status' = Staged(w, "building")
          BY <1>3 DEF StageBuilding
    <2>2. LocksHeld => status[j] \in {"validating"} \cup Terminal
          BY <1>j, <1>l, <1>p, <2>1 DEF UnderLock
    <2>3. LocksHeld => status[j] # "registering"
          BY <2>2 DEF Terminal
    <2>4. /\ OnlyOf(j) /\ Registering(j)' /\ (LocksHeld => Staging(j)')
          /\ status'[j] = IF status[j] \in Terminal THEN status[j] ELSE "building"
          BY <1>w, <1>j, <1>u, <2>1, <2>3, StagedJob
    <2>5. LocksHeld => (status'[j] = "building" /\ started'[j] = 0) \/ status'[j] \in Terminal
          BY <1>l, <1>u, <2>2, <2>4 DEF Staging
    <2>6. LocksHeld => Arrives(w, j, "export")
          BY <1>p, <2>5 DEF Arrives
    <2> QED BY <1>w, <1>j, <1>t, <1>u, <1>p, <2>1, <2>4, <2>6, MoveStep
  <1>4. CASE OutcomeUnknown(w)
    <2>1. GoTo(w, "unlock") /\ at[w] = "exporting" /\ status' = Staged(w, "needs_attention")
          BY <1>4 DEF OutcomeUnknown
    <2>2. LocksHeld => status[j] # "registering"
          BY <1>j, <1>l, <2>1 DEF UnderLock
    <2>3. OnlyOf(j) /\ Registering(j)' /\ (LocksHeld => Staging(j)')
          BY <1>w, <1>j, <1>u, <2>1, <2>2, StagedJob
    <2> QED BY <1>w, <1>j, <1>t, <1>u, <1>p, <2>1, <2>3, MoveStep DEF Arrives
  <1>5. CASE StagePushing(w)
    <2>1. GoTo(w, "confirm") /\ at[w] = "pushing" /\ status' = Staged(w, "pushing")
          BY <1>5 DEF StagePushing
    <2>2. LocksHeld => status[j] # "registering"
          BY <1>j, <1>l, <2>1 DEF UnderLock
    <2>3. OnlyOf(j) /\ Registering(j)' /\ (LocksHeld => Staging(j)')
          BY <1>w, <1>j, <1>u, <2>1, <2>2, StagedJob
    <2> QED BY <1>w, <1>j, <1>t, <1>u, <1>p, <2>1, <2>3, MoveStep DEF Arrives
  <1> QED BY <1>1, <1>2, <1>3, <1>4, <1>5

\* A worker that fails its job.
LEMMA FailStep ==
    ASSUME BuildInv, NEW w \in Worker, ClaimRefused(w) \/ NotStarted(w) \/ Rejected(w)
    PROVE  BuildInv'
  <1>w. Working(w)
        BY Lists DEF ClaimRefused, NotStarted, Rejected, Working
  <1>j. PICK j \in Job : j = Now(w)
        BY <1>w, NowIsJob
  <1>t. BuildTypeOK'
        BY StageTypes
  <1>u. /\ GoTo(w, "unlock") /\ status' = Staged(w, "failed")
        /\ UNCHANGED <<saved, artifact, received, started, registry, claim, registration, outbox, seen>>
        BY DEF ClaimRefused, NotStarted, Rejected, StageFailed, exporter
  <1>p. at[w] \in Preparing \cup {"export", "exporting"}
        BY Lists DEF ClaimRefused, NotStarted, Rejected, Preparing
  <1>l. LocksHeld => status[j] # "registering"
        BY <1>w, <1>j, <1>p DEF BuildInv, LocksWork, UnderLock, Terminal
  <1>s. OnlyOf(j) /\ Registering(j)' /\ (LocksHeld => Staging(j)')
        BY <1>w, <1>j, <1>u, <1>l, StagedJob
  <1>q. "unlock" \in Place \ {"exporting"} /\ Arrives(w, j, "unlock")
        BY Lists, Places DEF Arrives, Preparing
  <1>1. CASE Rejected(w)
    <2>1. WorkersPlaced'
          BY <1>1, EndPlaced
    <2> QED BY <1>w, <1>j, <1>t, <1>u, <1>s, <1>q, <2>1, ArriveStep
  <1>2. CASE ClaimRefused(w) \/ NotStarted(w)
    <2>1. running' = running
          BY <1>2 DEF ClaimRefused, NotStarted, exporter
    <2> QED BY <1>w, <1>j, <1>t, <1>u, <1>s, <1>q, <2>1, MoveStep
  <1> QED BY <1>1, <1>2

\* A worker that only looks, or writes the grant.
LEMMA LookStep ==
    ASSUME BuildInv, NEW w \in Worker, AdvanceRegistering(w) \/ ReadManifest(w) \/ Grant(w) \/ ExportedAll(w)
    PROVE  BuildInv'
  <1>w. Working(w)
        BY DEF AdvanceRegistering, ReadManifest, Grant, ExportedAll, Working
  <1>j. PICK j \in Job : j = Now(w)
        BY <1>w, NowIsJob
  <1>t. BuildTypeOK'
        BY PassTypes, StageTypes
  <1>u. UNCHANGED jobrow /\ seen' = seen
        BY DEF AdvanceRegistering, ReadManifest, Grant, ExportedAll, jobrow, build, exporter
  <1>v. UNCHANGED <<status, saved>>
        BY <1>u DEF jobrow
  <1>s. OnlyOf(j) /\ Registering(j)' /\ (LocksHeld => Staging(j)')
        BY <1>u, NothingWritten
  <1>l. LocksHeld => UnderLock(w)
        BY <1>w DEF BuildInv, LocksWork
  <1>q. /\ {"unlock", "confirm", "save", "pushing"} \subseteq Place \ {"exporting"}
        /\ Acquiring \subseteq Place \ {"exporting"} /\ AcquireAt[1] \in Acquiring
        /\ "grant" \in Preparing /\ Acquiring \subseteq Preparing /\ "save" \in Preparing
        BY Lists, Places DEF Preparing
  <1>r. /\ {"unlock", "confirm", "pushing"} \cap Preparing = {}
        /\ {"unlock", "confirm", "pushing", "save"} \cap Acquiring = {}
        /\ Acquiring \cap {"advance", "grant", "export", "exporting", "pushing"} = {}
        BY Lists DEF Preparing
  <1>1. CASE AdvanceRegistering(w) \/ ReadManifest(w)
    <2>1. PICK p \in {"unlock", "confirm"} : GoTo(w, p)
          BY <1>1 DEF AdvanceRegistering, ReadManifest
    <2>2. Arrives(w, j, p)
          BY <1>r DEF Arrives
    <2>3. running' = running
          BY <1>1 DEF AdvanceRegistering, ReadManifest, exporter
    <2> QED BY <1>w, <1>j, <1>t, <1>u, <1>s, <1>q, <2>1, <2>2, <2>3, MoveStep
  <1>2. CASE Grant(w)
    <2>1. PICK p : p = IF seen[w].saved THEN "save" ELSE AcquireAt[1]
          OBVIOUS
    <2>2. GoTo(w, p) /\ at[w] = "grant" /\ running' = running
          BY <1>2, <2>1 DEF Grant, exporter
    <2>3. ASSUME LocksHeld PROVE Arrives(w, j, p)
      <3>1. status'[j] \in {"validating"} \cup Terminal
            BY <1>j, <1>l, <1>q, <1>v, <2>2, <2>3 DEF UnderLock
      <3>2. seen[w].saved = saved'[j]
            BY <1>j, <1>l, <1>v, <2>2, <2>3 DEF UnderLock
      <3>3. p \in Acquiring => ~saved'[j]
            BY <1>r, <2>1, <3>2
      <3> QED BY <1>q, <1>r, <2>1, <3>1, <3>3 DEF Arrives
    <2>4. p \in Place \ {"exporting"}
          BY <1>q, <2>1
    <2> QED BY <1>w, <1>j, <1>t, <1>u, <1>s, <2>2, <2>3, <2>4, MoveStep
  <1>3. CASE ExportedAll(w)
    <2>1. WorkersPlaced' /\ GoTo(w, "pushing") /\ at[w] = "exporting"
          BY <1>3, EndPlaced DEF ExportedAll
    <2>2. LocksHeld => Arrives(w, j, "pushing")
          BY <1>j, <1>l, <1>r, <1>v, <2>1 DEF UnderLock, Arrives
    <2> QED BY <1>w, <1>j, <1>t, <1>u, <1>s, <1>q, <2>1, <2>2, ArriveStep
  <1> QED BY <1>1, <1>2, <1>3

\* A worker and the claims of its job.
LEMMA ClaimStep ==
    ASSUME BuildInv, NEW w \in Worker,
           SaveClaims(w) \/ \E i \in 1..3 : AcquireReference(w, i) \/ BindReference(w, i)
    PROVE  BuildInv'
  <1>w. Working(w)
        BY Lists DEF SaveClaims, AcquireReference, BindReference, Working
  <1>j. PICK j \in Job : j = Now(w)
        BY <1>w, NowIsJob
  <1>t. BuildTypeOK' /\ BuildTypeOK
        BY StageTypes DEF BuildInv
  <1>l. LocksHeld => UnderLock(w) /\ Staging(j)
        BY <1>w DEF BuildInv, LocksWork
  <1>g. Registering(j)
        BY DEF BuildInv
  <1>u. UNCHANGED <<status, seen, running, artifact, received, started, registry, calls, versions,
                    artifactEvent, versionEvent>>
        BY DEF SaveClaims, AcquireReference, BindReference, build, exporter, registration, outbox
  <1>q. /\ Acquiring \subseteq Place \ {"exporting"} /\ Range(BindAt) \subseteq Place \ {"exporting"}
        /\ {"save", "validate"} \subseteq Place \ {"exporting"}
        /\ Acquiring \subseteq Preparing /\ Range(BindAt) \subseteq Preparing
        /\ {"save", "validate"} \subseteq Preparing
        /\ (Range(BindAt) \cup {"save", "validate"}) \cap Acquiring = {}
        /\ {"advance", "grant", "export", "exporting", "pushing"} \cap
             (Acquiring \cup Range(BindAt) \cup {"save", "validate"}) = {}
        BY Lists, Places DEF Preparing
  <1>1. CASE SaveClaims(w)
    <2>1. PICK p : p = BindAt[1]
          OBVIOUS
    <2>2. /\ GoTo(w, p) /\ at[w] = "save" /\ claim' = claim /\ p \in Range(BindAt)
          /\ saved' = [saved EXCEPT ![j] = TRUE] /\ saved \in [Job -> BOOLEAN]
          BY <1>1, <1>j, <1>t, <2>1, Lists DEF SaveClaims, BuildTypeOK
    <2>3. saved'[j] /\ \A k \in Job \ {j} : saved'[k] = saved[k]
          BY <2>2
    <2>4. OnlyOf(j)
          BY <1>u, <2>2, <2>3 DEF OnlyOf
    <2>5. Registering(j)'
          BY <1>g, <1>u, <2>3 DEF Registering
    <2>6. LocksHeld => Staging(j)'
          BY <1>l, <1>u, <2>2 DEF Staging
    <2>7. LocksHeld => Arrives(w, j, p)
          BY <1>j, <1>l, <1>q, <1>u, <2>2 DEF UnderLock, Arrives
    <2>8. p \in Place \ {"exporting"}
          BY <1>q, <2>2
    <2> QED BY <1>w, <1>j, <1>t, <1>u, <2>2, <2>4, <2>5, <2>6, <2>7, <2>8, MoveStep
  <1>2. ASSUME NEW i \in 1..3, AcquireReference(w, i) \/ BindReference(w, i) PROVE BuildInv'
    <2>1. PICK t \in Target : t = Targets[i]
          BY Lists
    <2>2. PICK c : claim' = [claim EXCEPT ![j][t] = c] /\ (BindReference(w, i) => c = "bound")
          BY <1>2, <1>j, <2>1 DEF AcquireReference, BindReference
    <2>3. /\ \A k \in Job \ {j} : claim'[k] = claim[k]
          /\ \A s \in Target : claim'[j][s] = IF s = t THEN c ELSE claim[j][s]
          BY <1>t, <2>2 DEF BuildTypeOK
    <2>4. saved' = saved
          BY <1>2 DEF AcquireReference, BindReference, build
    <2>5. OnlyOf(j) /\ Registering(j)'
          BY <1>g, <1>u, <2>3, <2>4 DEF OnlyOf, Registering
    <2>6. ASSUME LocksHeld PROVE Staging(j)'
      <3>1. CASE BindReference(w, i)
            BY <1>l, <1>u, <2>2, <2>3, <2>6, <3>1 DEF Staging
      <3>2. CASE AcquireReference(w, i)
        <4>1. ~saved[j]
              BY <1>j, <1>l, <2>6, <3>2, Lists DEF AcquireReference, UnderLock
        <4>2. ~(versions[j] > 0 \/ calls[j] > 0)
              BY <1>g, <4>1 DEF Registering
        <4> QED BY <1>l, <1>u, <2>6, <4>2 DEF Staging
      <3> QED BY <1>2, <3>1, <3>2
    <2>7. PICK p : GoTo(w, p) /\ (\/ p \in Range(BindAt) \cup {"save", "validate"}
                                  \/ p \in Acquiring /\ AcquireReference(w, i))
      <3>1. CASE BindReference(w, i)
            BY <3>1, Lists DEF BindReference
      <3>2. CASE AcquireReference(w, i)
            BY <3>2, Lists DEF AcquireReference
      <3> QED BY <1>2, <3>1, <3>2
    <2>8. LocksHeld => Arrives(w, j, p)
      <3> SUFFICES ASSUME LocksHeld PROVE Arrives(w, j, p)
          OBVIOUS
      <3>1. at[w] \in Preparing /\ (AcquireReference(w, i) => at[w] \in Acquiring)
            BY <1>2, <1>q, Lists DEF AcquireReference, BindReference
      <3>2. status'[j] \in {"validating"} \cup Terminal
            BY <1>j, <1>l, <1>u, <3>1 DEF UnderLock
      <3>3. p \in Acquiring => ~saved'[j]
            BY <1>j, <1>l, <1>q, <2>4, <2>7, <3>1 DEF UnderLock
      <3>4. p \notin {"advance", "grant", "export", "exporting", "pushing"}
            BY <1>q, <2>7
      <3> QED BY <3>2, <3>3, <3>4 DEF Arrives
    <2>9. p \in Place \ {"exporting"}
          BY <1>q, <2>7
    <2> QED BY <1>w, <1>j, <1>t, <1>u, <2>5, <2>6, <2>7, <2>8, <2>9, MoveStep
  <1> QED BY <1>1, <1>2

\* An exporter is started.
LEMMA StartStep ==
    ASSUME BuildInv, NEW w \in Worker, StartExporter(w)
    PROVE  BuildInv'
  <1>w. Working(w)
        BY DEF StartExporter, Working
  <1>j. PICK j \in Job : j = Now(w)
        BY <1>w, NowIsJob
  <1>t. BuildTypeOK' /\ WorkersPlaced'
        BY StageTypes, StartPlaced
  <1>u. /\ GoTo(w, "exporting") /\ at[w] = "export"
        /\ UNCHANGED <<status, saved, artifact, received, registry, claim, calls, versions, artifactEvent,
                       versionEvent, seen>>
        BY DEF StartExporter, build, registration, outbox
  <1>1. \A k \in Job \ {j} : started'[k] = started[k]
        BY <1>j DEF StartExporter, BuildInv, BuildTypeOK
  <1>2. OnlyOf(j) /\ Registering(j)'
        BY <1>u, <1>1 DEF OnlyOf, Registering, BuildInv
  <1>3. ASSUME LocksHeld PROVE Staging(j)' /\ Arrives(w, j, "exporting")
    <2>1. UnderLock(w) /\ Staging(j)
          BY <1>w, <1>3 DEF BuildInv, LocksWork
    <2>2. status[j] = "building" \/ status[j] \in Terminal
          BY <1>j, <1>u, <2>1 DEF UnderLock
    <2>3. Staging(j)'
          BY <1>u, <2>1, <2>2 DEF Staging, Terminal
    <2>4. "exporting" \notin Preparing /\ "exporting" \notin Acquiring
          BY Lists DEF Preparing
    <2>5. Arrives(w, j, "exporting")
          BY <1>u, <2>2, <2>4 DEF Arrives, Terminal
    <2> QED BY <2>3, <2>5
  <1>4. "exporting" \in Place
        BY Places
  <1> QED BY <1>w, <1>j, <1>t, <1>u, <1>2, <1>3, <1>4, ArriveStep

\* An artifact is confirmed.
LEMMA ConfirmStep ==
    ASSUME BuildInv, NEW w \in Worker, Confirm(w)
    PROVE  BuildInv'
  <1>w. Working(w)
        BY DEF Confirm, Working
  <1>j. PICK j \in Job : j = Now(w)
        BY <1>w, NowIsJob
  <1>t. BuildTypeOK' /\ BuildTypeOK
        BY StageTypes DEF BuildInv
  <1>u. /\ GoTo(w, "unlock") /\ running' = running
        /\ UNCHANGED <<saved, received, started, registry, claim, calls, versions, versionEvent, seen>>
        BY DEF Confirm, exporter, registration
  <1>q. "unlock" \in Place \ {"exporting"} /\ Arrives(w, j, "unlock")
        BY Lists, Places DEF Arrives, Preparing
  <1>1. CASE status[j] \in {"registering", "succeeded"}
    <2>1. UNCHANGED jobrow
          BY <1>j, <1>u, <1>1 DEF Confirm, jobrow, registration, outbox
    <2> QED BY <1>w, <1>j, <1>t, <1>u, <1>q, <2>1, NothingWritten, MoveStep
  <1>2. CASE status[j] \notin {"registering", "succeeded"}
    <2>1. /\ artifact' = [artifact EXCEPT ![j] = TRUE]
          /\ artifactEvent' = [artifactEvent EXCEPT ![j] = "pending"]
          /\ status' = [status EXCEPT ![j] = "registering"]
          BY <1>j, <1>2 DEF Confirm
    <2>2. /\ artifact'[j] /\ artifactEvent'[j] = "pending" /\ status'[j] = "registering"
          /\ \A k \in Job \ {j} : /\ artifact'[k] = artifact[k] /\ artifactEvent'[k] = artifactEvent[k]
                                  /\ status'[k] = status[k]
          BY <1>t, <2>1 DEF BuildTypeOK
    <2>3. OnlyOf(j)
          BY <1>u, <2>2 DEF OnlyOf
    <2>4. Registering(j)'
          BY <1>u, <2>2 DEF BuildInv, Registering
    <2>5. LocksHeld => Staging(j)'
          BY <1>u, <1>2, <2>2 DEF BuildInv, LocksWork, Staging
    <2> QED BY <1>w, <1>j, <1>t, <1>u, <1>q, <2>3, <2>4, <2>5, MoveStep
  <1> QED BY <1>1, <1>2

-----------------------------------------------------------------------------
(* The steps of the others.                                                 *)

\* A worker relies on nothing of what a delivery or a release writes.
LEMMA LeftAlone ==
    ASSUME BuildInv, UNCHANGED <<worker, status, saved, started>>, NEW w \in Worker, LocksHeld, Working(w)
    PROVE  UnderLock(w)'
  <1>1. UnderLock(w) /\ UNCHANGED <<lock, todo, at, seen, status, saved, started>>
        BY DEF BuildInv, LocksWork, worker
  <1>2. Now(w)' = Now(w)
        BY <1>1 DEF Now
  <1> QED BY <1>1, <1>2 DEF UnderLock

\* Requests, and the end of a registration: the two changes a worker meets.
LEMMA RecordStep ==
    ASSUME BuildInv, NEW j \in Job, CreateBuild(j) \/ Registered(j)
    PROVE  BuildInv'
  <1>t. BuildTypeOK' /\ BuildTypeOK
        BY OutsideTypes DEF BuildInv, Deliveries
  <1>u. UNCHANGED <<worker, running>>
        BY DEF CreateBuild, Registered, exporter
  <1>v. UNCHANGED <<saved, artifact, started, registry, claim, calls, versions, artifactEvent>>
        BY DEF CreateBuild, Registered, exporter, registration, outbox
  <1>g. Registering(j) /\ versions[j] \in Nat
        BY <1>t DEF BuildInv, BuildTypeOK
  <1>1. CASE versionEvent' \in Answered(versionEvent, j) /\ versionEvent[j] = "pending"
             /\ UNCHANGED <<status, received>>
    <2>a. versions[j] > 0
          BY <1>1, <1>g DEF Registering
    <2>b. DOMAIN versionEvent = Job
          BY <1>t DEF BuildTypeOK
    <2>c. \/ versionEvent' = versionEvent
          \/ versionEvent' = [versionEvent EXCEPT ![j] = "acknowledged"]
          BY <1>1 DEF Answered
    <2>1. (\A k \in Job \ {j} : versionEvent'[k] = versionEvent[k]) /\ versions[j] > 0
          BY <2>a, <2>b, <2>c
    <2>2. OnlyOf(j) /\ Registering(j)' /\ (LocksHeld => Staging(j)')
          BY <1>1, <1>v, <1>g, <2>1 DEF OnlyOf, Registering, BuildInv, LocksWork, Staging
    <2> QED BY <1>t, <1>u, <1>v, <1>1, <2>2, LeftAlone, OutsideStep
  <1>2. ASSUME NEW old \in {"none", "registering"}, NEW new \in {"queued", "succeeded"},
               old = "none" <=> new = "queued",
               status[j] = old, status' = [status EXCEPT ![j] = new],
               new = "succeeded" => versions[j] > 0 /\ received'[j],
               \A k \in Job \ {j} : received'[k] = received[k] /\ versionEvent'[k] = versionEvent[k],
               versionEvent'[j] # "unsent" => versions[j] > 0
        PROVE  BuildInv'
    <2>1. status'[j] = new /\ \A k \in Job \ {j} : status'[k] = status[k]
          BY <1>t, <1>2 DEF BuildTypeOK
    <2>2. OnlyOf(j) /\ Registering(j)'
          BY <1>v, <1>g, <1>2, <2>1 DEF OnlyOf, Registering
    <2>3. LocksHeld => Staging(j)'
          BY <1>v, <1>t, <1>2, <2>1 DEF BuildInv, LocksWork, Staging, BuildTypeOK
    <2>4. ASSUME NEW w \in Worker, LocksHeld, Working(w), Now(w) = j PROVE UnderLock(w)'
      <3>1. UnderLock(w) /\ UNCHANGED <<lock, todo, at, seen>>
            BY <1>u, <2>4 DEF BuildInv, LocksWork, worker
      <3>2. Now(w)' = j
            BY <2>4, <3>1 DEF Now
      <3>3. at[w] \notin Preparing \cup {"export", "exporting", "pushing"}
            BY <1>2, <2>4, <3>1 DEF UnderLock, Terminal
      <3>4. at[w] = "advance" => Since(seen[w].status, status'[j])
            BY <1>2, <2>1, <2>4, <3>1 DEF UnderLock, Since
      <3> QED BY <1>v, <2>4, <3>1, <3>2, <3>3, <3>4 DEF UnderLock
    <2> QED BY <1>t, <1>u, <2>2, <2>3, <2>4, OutsideStep
  <1>3. CASE CreateBuild(j)
    <2>1. /\ status[j] = "none" /\ status' = [status EXCEPT ![j] = "queued"]
          /\ UNCHANGED <<received, versionEvent>>
          BY <1>3 DEF CreateBuild, outbox
    <2>2. versionEvent'[j] # "unsent" => versions[j] > 0
          BY <1>g, <2>1 DEF Registering
    <2> QED BY <1>2, <2>1, <2>2
  <1>4. CASE Registered(j) /\ received[j]
        BY <1>1, <1>4 DEF Registered
  <1>5. CASE Registered(j) /\ ~received[j]
    <2>1. /\ versionEvent[j] = "pending" /\ status[j] = "registering"
          /\ status' = [status EXCEPT ![j] = "succeeded"] /\ received' = [received EXCEPT ![j] = TRUE]
          /\ versionEvent' \in Answered(versionEvent, j)
          BY <1>5 DEF Registered
    <2>2. versions[j] > 0
          BY <1>g, <2>1 DEF Registering
    <2>3. received'[j] /\ \A k \in Job \ {j} : received'[k] = received[k]
      <3>1. received \in [Job -> BOOLEAN] /\ received' = [received EXCEPT ![j] = TRUE]
            BY <1>t, <2>1 DEF BuildTypeOK
      <3> QED BY <3>1
    <2>4. \A k \in Job \ {j} : versionEvent'[k] = versionEvent[k]
      <3>1. DOMAIN versionEvent = Job
            BY <1>t DEF BuildTypeOK
      <3>2. \/ versionEvent' = versionEvent
            \/ versionEvent' = [versionEvent EXCEPT ![j] = "acknowledged"]
            BY <2>1 DEF Answered
      <3> QED BY <3>1, <3>2
    <2> QED BY <1>2, <2>1, <2>2, <2>3, <2>4
  <1> QED BY <1>3, <1>4, <1>5

\* Exporters, Capability's handlers and releases.
LEMMA OwnerStep ==
    ASSUME BuildInv, NEW j \in Job,
           \/ Push(j) \/ ValidateFrozenInput(j) \/ Register(j) \/ AcknowledgeArtifact(j)
           \/ \E t \in Target : ReleaseReference(j, t)
    PROVE  BuildInv'
  <1>t. BuildTypeOK' /\ BuildTypeOK
        BY OutsideTypes DEF BuildInv, Deliveries
  <1>u. UNCHANGED <<worker, running, status, saved, artifact, received, started>>
        BY DEF Push, ValidateFrozenInput, Register, AcknowledgeArtifact, ReleaseReference, build, exporter
  <1>g. /\ Registering(j) /\ versions[j] \in Nat /\ calls[j] \in Nat
        /\ LocksHeld => Staging(j)
        BY <1>t, BuildAssumption DEF BuildInv, BuildTypeOK, LocksWork
  <1>s. SUFFICES OnlyOf(j) /\ Registering(j)' /\ (LocksHeld => Staging(j)')
        BY <1>t, <1>u, LeftAlone, OutsideStep
  <1>1. CASE Push(j)
    <2>1. registry'[j] /\ \A k \in Job \ {j} : registry'[k] = registry[k]
          BY <1>t, <1>1 DEF Push, BuildTypeOK
    <2>2. UNCHANGED <<claim, calls, versions, artifactEvent, versionEvent>>
          BY <1>1 DEF Push, registration, outbox
    <2> QED BY <1>u, <1>g, <2>1, <2>2 DEF OnlyOf, Registering, Staging
  <1>2. CASE ValidateFrozenInput(j)
    <2>1. /\ artifact[j] /\ registry[j] /\ saved[j] /\ \A t \in Target : claim[j][t] = "bound"
          /\ \A k \in Job \ {j} : calls'[k] = calls[k]
          BY <1>t, <1>2 DEF ValidateFrozenInput, Registrable, BuildTypeOK
    <2>2. UNCHANGED <<claim, registry, versions, artifactEvent, versionEvent>>
          BY <1>2 DEF ValidateFrozenInput, exporter, outbox
    <2> QED BY <1>u, <1>g, <2>1, <2>2 DEF OnlyOf, Registering, Staging
  <1>3. CASE Register(j)
    <2>1. UNCHANGED <<claim, registry>> /\ calls[j] > 0
          BY <1>3 DEF Register, exporter
    <2>2. /\ \A k \in Job \ {j} : calls'[k] = calls[k] /\ artifactEvent'[k] = artifactEvent[k]
          /\ artifactEvent'[j] \in {artifactEvent[j], "acknowledged"}
          BY <1>t, <1>3 DEF Register, Answered, BuildTypeOK
    <2>3. /\ \A k \in Job \ {j} : versions'[k] = versions[k] /\ versionEvent'[k] = versionEvent[k]
          /\ versions'[j] = 1
          BY <1>t, <1>g, <1>3 DEF Register, BuildTypeOK, Registering
    <2>4. OnlyOf(j)
          BY <1>u, <2>1, <2>2, <2>3 DEF OnlyOf
    <2>5. Registering(j)'
          BY <1>u, <1>g, <2>1, <2>2, <2>3 DEF Registering
    <2>6. LocksHeld => Staging(j)'
          BY <1>u, <1>g, <2>1 DEF Staging
    <2> QED BY <2>4, <2>5, <2>6
  <1>4. CASE AcknowledgeArtifact(j)
    <2>1. /\ artifactEvent'[j] = "acknowledged"
          /\ \A k \in Job \ {j} : artifactEvent'[k] = artifactEvent[k]
          BY <1>t, <1>4 DEF AcknowledgeArtifact, BuildTypeOK
    <2>2. UNCHANGED <<claim, registry, calls, versions, versionEvent>>
          BY <1>4 DEF AcknowledgeArtifact, exporter, registration
    <2> QED BY <1>u, <1>g, <2>1, <2>2 DEF OnlyOf, Registering, Staging
  <1>5. ASSUME NEW t \in Target, ReleaseReference(j, t)
        PROVE  OnlyOf(j) /\ Registering(j)' /\ (LocksHeld => Staging(j)')
    <2>1. /\ claim' = [claim EXCEPT ![j][t] = "released"] /\ status[j] \in Terminal
          /\ UNCHANGED <<registry, calls, versions, artifactEvent, versionEvent>>
          BY <1>5 DEF ReleaseReference, exporter, registration, outbox
    <2>2. /\ \A k \in Job \ {j} : claim'[k] = claim[k]
          /\ \A s \in Target : claim'[j][s] = IF s = t THEN "released" ELSE claim[j][s]
          BY <1>t, <2>1 DEF BuildTypeOK
    <2>3. OnlyOf(j) /\ Registering(j)'
          BY <1>u, <1>g, <2>1, <2>2 DEF OnlyOf, Registering
    <2>4. ASSUME LocksHeld PROVE Staging(j)'
      <3>1. CASE status[j] = "succeeded"
            BY <1>u, <1>g, <2>1, <2>2, <2>4, <3>1 DEF Staging
      <3>2. CASE status[j] = "failed"
        <4>1. ~(versions[j] > 0 \/ calls[j] > 0)
              BY <1>g, <2>4, <3>2 DEF Staging, Registering
        <4> QED BY <1>u, <1>g, <2>1, <2>4, <4>1 DEF Staging
      <3> QED BY <2>1, <3>1, <3>2 DEF Terminal
    <2> QED BY <2>3, <2>4
  <1> QED BY <1>1, <1>2, <1>3, <1>4, <1>5

-----------------------------------------------------------------------------
(* The invariant.                                                           *)

\* Every step, and one that changes nothing, keeps the invariant.
LEMMA NextBuildInv == BuildInv /\ [Next]_vars => BuildInv'
  <1> SUFFICES ASSUME BuildInv, [Next]_vars PROVE BuildInv'
      OBVIOUS
  <1>1. ASSUME NEW w \in Worker, Pass(w) \/ Abandon(w) \/ LoseLock(w) PROVE BuildInv'
    <2>1. CASE \/ RunOnce(w) \/ EndPass(w) \/ Skip(w) \/ Unlock(w) \/ Abandon(w) \/ TryLock(w) \/ LoseLock(w)
          BY <2>1, PassSteps
    <2>2. CASE \/ ReadNothing(w) \/ StageValidating(w) \/ StageBuilding(w) \/ OutcomeUnknown(w)
               \/ StagePushing(w)
          BY <2>2, StageStep
    <2>3. CASE ClaimRefused(w) \/ NotStarted(w) \/ Rejected(w)
          BY <2>3, FailStep
    <2>4. CASE AdvanceRegistering(w) \/ ReadManifest(w) \/ Grant(w) \/ ExportedAll(w)
          BY <2>4, LookStep
    <2>5. CASE SaveClaims(w) \/ \E i \in 1..3 : AcquireReference(w, i) \/ BindReference(w, i)
          BY <2>5, ClaimStep
    <2>6. CASE StartExporter(w)
          BY <2>6, StartStep
    <2>7. CASE Confirm(w)
          BY <2>7, ConfirmStep
    <2> QED BY <1>1, <2>1, <2>2, <2>3, <2>4, <2>5, <2>6, <2>7 DEF Pass
  <1>2. ASSUME NEW j \in Job, CreateBuild(j) \/ Registered(j) PROVE BuildInv'
        BY <1>2, RecordStep
  <1>3. ASSUME NEW j \in Job,
               \/ Push(j) \/ ValidateFrozenInput(j) \/ Register(j) \/ AcknowledgeArtifact(j)
               \/ \E t \in Target : ReleaseReference(j, t)
        PROVE  BuildInv'
        BY <1>3, OwnerStep
  <1>4. ASSUME UNCHANGED <<worker, running, jobrow>>, BuildTypeOK' PROVE BuildInv'
    <2>1. UNCHANGED <<lock, todo, at, seen, lost, running, status, saved, started>>
          BY <1>4 DEF worker, jobrow
    <2>2. \A k \in Job : Registering(k)' /\ (LocksHeld => Staging(k)')
          BY <1>4, NothingWritten
    <2>3. \A v \in Worker : LocksHeld /\ Working(v)' => UnderLock(v)'
          BY <1>4, <2>1, LeftAlone DEF Working
    <2>4. WorkersPlaced' /\ (LocksHeld' => LocksHeld)
          BY <2>1, StayPlaced DEF LocksHeld
    <2> QED BY <1>4, <2>2, <2>3, <2>4 DEF BuildInv, LocksWork
  <1>5. ASSUME NEW t \in Target, SetVersionStatus(t) PROVE BuildInv'
    <2>1. UNCHANGED <<worker, running, jobrow>>
          BY <1>5 DEF SetVersionStatus, build, exporter, jobrow
    <2> QED BY <1>4, <1>5, <2>1, OutsideTypes
  <1>6. CASE UNCHANGED vars
    <2>1. UNCHANGED <<worker, running, jobrow>>
          BY <1>6 DEF vars, build, exporter, jobrow
    <2>2. BuildTypeOK'
          BY <1>6 DEF BuildInv, BuildTypeOK, vars, build, worker, exporter, catalog, registration, outbox
    <2> QED BY <1>4, <2>1, <2>2
  <1> QED BY <1>1, <1>2, <1>3, <1>5, <1>6 DEF Next, Deliveries

\* The invariant holds in every state.
LEMMA BuildInvariant == Spec => []BuildInv
  BY InitBuildInv, NextBuildInv, PTL DEF Spec

\* Types, with the bounds of the model.
THEOREM TypeCorrect == Spec => []BuildTypeOK
  <1>1. BuildInv => BuildTypeOK
        BY DEF BuildInv
  <1> QED BY <1>1, BuildInvariant, PTL

\* One version at most of every job, of a confirmed image, and no success
\* without it: whatever happens to the locks (Capability's inbox decides in the
\* transaction of Deliver).
THEOREM OneVersionHolds == Spec => []OneVersion
  <1>1. BuildInv => OneVersion
        BY DEF BuildInv, BuildTypeOK, Registering, OneVersion
  <1> QED BY <1>1, BuildInvariant, PTL

\* While no lock was lost, Build and Capability agree on how a job ended.
THEOREM OwnersAgreeOnEnds == Spec => []EndsAgree
  <1>1. ASSUME BuildInv, LocksHeld, NEW j \in Job
        PROVE  /\ status[j] = "succeeded" => versions[j] = 1 /\ artifactEvent[j] # "unsent" /\ received[j]
               /\ status[j] = "failed" => versions[j] = 0 /\ calls[j] = 0 /\ ~artifact[j]
    <2>1. Registering(j) /\ Staging(j) /\ versions[j] \in Nat /\ calls[j] \in Nat
          BY <1>1, BuildAssumption DEF BuildInv, LocksWork, BuildTypeOK
    <2> QED BY <2>1 DEF Registering, Staging
  <1>2. BuildInv => EndsAgree
        BY <1>1 DEF EndsAgree
  <1> QED BY <1>2, BuildInvariant, PTL

\* While no lock was lost, a version is made only under bound claims.
THEOREM VersionsAreClaimed == Spec => []BuiltUnderClaims
  <1>1. BuildInv => BuiltUnderClaims
        BY DEF BuildInv, LocksWork, Staging, BuiltUnderClaims
  <1> QED BY <1>1, BuildInvariant, PTL

-----------------------------------------------------------------------------
(* What no step does.                                                       *)

\* Where a worker writes a stage, its job waits for no registration.
LEMMA StagedIsOpen ==
    ASSUME BuildInv, LocksHeld, NEW w \in Worker,
           \/ ReadNothing(w) \/ StageValidating(w) \/ StageBuilding(w) \/ OutcomeUnknown(w)
           \/ StagePushing(w) \/ ClaimRefused(w) \/ NotStarted(w) \/ Rejected(w)
    PROVE  status[Now(w)] # "registering"
  <1>1. /\ \/ at[w] \in Preparing \cup {"export", "exporting", "pushing"}
           \/ at[w] = "advance" /\ seen[w].status # "registering"
        BY Lists DEF ReadNothing, StageValidating, StageBuilding, OutcomeUnknown, StagePushing, ClaimRefused,
                     NotStarted, Rejected, Restarted, Preparing
  <1>2. Working(w)
        BY <1>1, Lists DEF Working, Preparing
  <1>3. UnderLock(w)
        BY <1>2 DEF BuildInv, LocksWork
  <1> QED BY <1>1, <1>3 DEF UnderLock, Since, Terminal

\* A success is never taken back, and a confirmed artifact is not built again.
THEOREM SuccessStands == Spec => SuccessIsFinal
  <1>1. ASSUME BuildInv, [Next]_vars, NEW j \in Job
        PROVE  /\ status[j] = "succeeded" => status'[j] = "succeeded"
               /\ LocksHeld /\ status[j] = "registering" => status'[j] \in {"registering", "succeeded"}
    <2>t. status \in [Job -> Open \cup Terminal \cup {"none"}]
          BY <1>1 DEF BuildInv, BuildTypeOK
    <2>1. CASE status' = status
          BY <2>1
    <2>2. ASSUME NEW w \in Worker,
                 \/ ReadNothing(w) \/ StageValidating(w) \/ StageBuilding(w) \/ OutcomeUnknown(w)
                 \/ StagePushing(w) \/ ClaimRefused(w) \/ NotStarted(w) \/ Rejected(w)
          PROVE  /\ status[j] = "succeeded" => status'[j] = "succeeded"
                 /\ LocksHeld /\ status[j] = "registering" => status'[j] \in {"registering", "succeeded"}
      <3>1. LocksHeld => status[Now(w)] # "registering"
            BY <1>1, <2>2, StagedIsOpen
      <3>2. status' = status \/ \E s \in {"needs_attention", "validating", "building", "pushing", "failed"} :
                                    status' = Staged(w, s)
            BY <2>2 DEF ReadNothing, StageValidating, StageBuilding, OutcomeUnknown, StagePushing,
                        ClaimRefused, NotStarted, Rejected, StageFailed
      <3>3. ASSUME NEW s, status' = Staged(w, s)
            PROVE  status'[j] = status[j] \/ (j = Now(w) /\ status[j] \notin Terminal)
            BY <2>t, <3>3 DEF Staged
      <3> QED BY <3>1, <3>2, <3>3 DEF Terminal
    <2>3. ASSUME NEW w \in Worker, Confirm(w)
          PROVE  /\ status[j] = "succeeded" => status'[j] = "succeeded"
                 /\ status[j] = "registering" => status'[j] \in {"registering", "succeeded"}
          BY <2>t, <2>3 DEF Confirm
    <2>4. ASSUME NEW k \in Job, CreateBuild(k) \/ Registered(k)
          PROVE  /\ status[j] = "succeeded" => status'[j] = "succeeded"
                 /\ status[j] = "registering" => status'[j] \in {"registering", "succeeded"}
          BY <2>t, <2>4 DEF CreateBuild, Registered
    <2>5. \/ \E w \in Worker : \/ ReadNothing(w) \/ StageValidating(w) \/ StageBuilding(w) \/ OutcomeUnknown(w)
                               \/ StagePushing(w) \/ ClaimRefused(w) \/ NotStarted(w) \/ Rejected(w)
                               \/ Confirm(w)
          \/ \E k \in Job : CreateBuild(k) \/ Registered(k)
          \/ status' = status
      <3>1. ASSUME NEW w \in Worker,
                   \/ RunOnce(w) \/ EndPass(w) \/ TryLock(w) \/ Skip(w) \/ Unlock(w) \/ Abandon(w) \/ LoseLock(w)
                   \/ AdvanceRegistering(w) \/ ReadManifest(w) \/ Grant(w) \/ SaveClaims(w)
                   \/ StartExporter(w) \/ ExportedAll(w)
                   \/ \E i \in 1..3 : AcquireReference(w, i) \/ BindReference(w, i)
            PROVE  status' = status
            BY <3>1 DEF RunOnce, EndPass, TryLock, Skip, Unlock, Abandon, LoseLock, AdvanceRegistering,
                        ReadManifest, Grant, SaveClaims, StartExporter, ExportedAll, AcquireReference,
                        BindReference, build
      <3>2. ASSUME NEW k \in Job,
                   \/ Push(k) \/ ValidateFrozenInput(k) \/ Register(k) \/ AcknowledgeArtifact(k)
                   \/ \E t \in Target : ReleaseReference(k, t)
            PROVE  status' = status
            BY <3>2 DEF Push, ValidateFrozenInput, Register, AcknowledgeArtifact, ReleaseReference, build
      <3>3. ASSUME NEW t \in Target, SetVersionStatus(t) PROVE status' = status
            BY <3>3 DEF SetVersionStatus, build
      <3>4. UNCHANGED vars => status' = status
            BY DEF vars, build
      <3> QED BY <1>1, <3>1, <3>2, <3>3, <3>4 DEF Next, Pass, Deliveries
    <2> QED BY <2>1, <2>2, <2>3, <2>4, <2>5
  <1>2. BuildInv /\ [Next]_vars =>
          [\A j \in Job :
             /\ status[j] = "succeeded" => status'[j] = "succeeded"
             /\ LocksHeld /\ status[j] = "registering" => status'[j] \in {"registering", "succeeded"}]_vars
        BY <1>1
  <1> QED BY <1>2, BuildInvariant, PTL DEF Spec, SuccessIsFinal

\* While no lock was lost, an open job is exported once, whichever worker comes
\* back to it.
THEOREM ExportedOnce == Spec => OpenIsExportedOnce
  <1>1. ASSUME BuildInv, Next, LocksHeld, NEW j \in Job, started'[j] > started[j]
        PROVE  started[j] = 0 \/ status[j] \in Terminal
    <2>t. started \in [Job -> Nat]
          BY <1>1 DEF BuildInv, BuildTypeOK
    <2>1. ASSUME NEW w \in Worker, StartExporter(w)
          PROVE  started[j] = 0 \/ status[j] \in Terminal
      <3>1. at[w] = "export" /\ UnderLock(w)
            BY <1>1, <2>1 DEF StartExporter, BuildInv, LocksWork, Working
      <3>2. Now(w) = j
            BY <1>1, <2>t, <2>1 DEF StartExporter
      <3> QED BY <3>1, <3>2 DEF UnderLock
    <2>2. started' # started
          BY <1>1, <2>t
    <2>3. \E w \in Worker : StartExporter(w)
      <3>1. ASSUME NEW w \in Worker,
                   \/ RunOnce(w) \/ EndPass(w) \/ TryLock(w) \/ Skip(w) \/ Unlock(w) \/ Abandon(w) \/ LoseLock(w)
                   \/ AdvanceRegistering(w) \/ ReadManifest(w) \/ ReadNothing(w) \/ StageValidating(w)
                   \/ Grant(w) \/ SaveClaims(w) \/ ClaimRefused(w) \/ StageBuilding(w) \/ NotStarted(w)
                   \/ ExportedAll(w) \/ Rejected(w) \/ OutcomeUnknown(w) \/ StagePushing(w) \/ Confirm(w)
                   \/ \E i \in 1..3 : AcquireReference(w, i) \/ BindReference(w, i)
            PROVE  started' = started
            BY <3>1 DEF RunOnce, EndPass, TryLock, Skip, Unlock, Abandon, LoseLock, AdvanceRegistering,
                        ReadManifest, ReadNothing, StageValidating, Grant, SaveClaims, ClaimRefused,
                        StageBuilding, NotStarted, ExportedAll, Rejected, OutcomeUnknown, StagePushing,
                        Confirm, AcquireReference, BindReference, exporter
      <3>2. ASSUME NEW k \in Job,
                   \/ CreateBuild(k) \/ Push(k) \/ Deliveries(k) \/ \E t \in Target : ReleaseReference(k, t)
            PROVE  started' = started
            BY <3>2 DEF CreateBuild, Push, Deliveries, ValidateFrozenInput, Register, AcknowledgeArtifact,
                        Registered, ReleaseReference, exporter
      <3>3. ASSUME NEW t \in Target, SetVersionStatus(t) PROVE started' = started
            BY <3>3 DEF SetVersionStatus, exporter
      <3> QED BY <1>1, <2>2, <3>1, <3>2, <3>3 DEF Next, Pass
    <2> QED BY <2>1, <2>3
  <1>2. BuildInv /\ [Next]_vars =>
          [LocksHeld => \A j \in Job : started'[j] > started[j] => started[j] = 0 \/ status[j] \in Terminal]_vars
        BY <1>1
  <1> QED BY <1>2, BuildInvariant, PTL DEF Spec, OpenIsExportedOnce
=============================================================================

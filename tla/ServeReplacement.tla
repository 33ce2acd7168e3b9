------------------------- MODULE ServeReplacement -------------------------
(***************************************************************************)
(* How Serve switches a Workspace from the delivery it serves to another   *)
(* one: UpdateWorkspaceVersion and RollbackWorkspace, both runReplacement   *)
(* of services/serve/internal/delivery/replacement.go, against the          *)
(* executor that really starts, stops and removes the applications, and     *)
(* against the Workspace owner that closes the whole lineage (Retire).      *)
(*                                                                         *)
(* A switch is identified by its caller's idempotency key, and the delivery *)
(* it admits by the switch: Delivery is one original delivery and one per   *)
(* switch.  Every call of a switch is a run of a handler; calls of the same *)
(* key and of different keys overlap, as they do across Serve processes.    *)
(* The Workspace advisory lock is taken by a transaction, or by the session *)
(* of lockRuntimeTransition, and is lost with it: a handler whose session   *)
(* ends is assumed to end with it.                                          *)
(***************************************************************************)
EXTENDS Naturals, FiniteSets

CONSTANTS
    Original,          \* the delivery the Workspace was launched with
    Switch,            \* the keys of the switches callers ask for
    Rollback,          \* the switches that are RollbackWorkspace calls
    ExclusiveWriter,   \* the deliveries that declare a mount they cannot share
    Handler,           \* the calls Serve works on at a time
    MayBreak,          \* whether a call can end anywhere, with its process or deadline
    None

Delivery == Switch \cup {Original}

ASSUME SwitchAssumption ==
    /\ IsFiniteSet(Switch) /\ Original \notin Switch
    /\ Rollback \subseteq Switch /\ ExclusiveWriter \subseteq Delivery
    /\ None \notin Delivery \cup Handler /\ MayBreak \in BOOLEAN

VARIABLES
    row,      \* serve.agent_deployments, its owning operation and its instance
    action,   \* serve.agent_runtime_actions: the recorded intents, by kind
    app,      \* what the executor runs for each delivery
    route,    \* the delivery the access binding selects
    closed,   \* a runtime_retire operation exists
    lock,     \* the handler that holds the Workspace lock across steps
    run       \* where each handler stands, and for which switch

vars == <<row, action, app, route, closed, lock, run>>

Open == {"queued", "deploying", "verifying"}
Kind == {"start", "stop", "resume", "terminate", "retire"}

\* A mount is held from the first Pod to the last, a stopping application included.
HoldsMount(d) == app[d] \notin {"absent", "suspended", "clearing"}

Idle == [at |-> "idle", switch |-> None, doing |-> None]

Holder == {h \in Handler : run[h].at \in {"call", "confirm", "record", "observe"}}

ServeTypeOK ==
    /\ row \in [Delivery ->
         [status : Open \cup {"none", "active", "superseded"},
          inst   : {"none", "pending", "starting", "ready", "failed", "stopped", "terminated"},
          op     : {"none", "accepted", "admitted", "succeeded"},
          epoch  : 0..(1 + Cardinality(Switch)),
          prev   : Delivery \cup {None},
          want   : Delivery \cup {None}]]
    /\ action \in [Kind -> [Delivery -> {"none", "unknown", "confirmed"}]]
    /\ app \in [Delivery -> {"absent", "starting", "ready", "failed",
                             "draining", "suspended", "removing", "clearing"}]
    /\ route \in Delivery \cup {None}
    /\ closed \in BOOLEAN
    /\ lock \in Handler \cup {None}
    /\ run \in [Handler ->
         [at : {"idle", "admit", "accept", "lock", "call", "confirm", "record", "start",
                "observe", "readback", "retire", "remove", "removed", "clear"},
          switch : Switch \cup {None}, doing : {"stop", "resume", None}]]
    /\ Holder = {h \in Handler : lock = h}

Init ==
    /\ row = [d \in Delivery |->
                IF d = Original
                THEN [status |-> "active", inst |-> "ready", op |-> "succeeded",
                      epoch |-> 1, prev |-> None, want |-> None]
                ELSE [status |-> "none", inst |-> "none", op |-> "none",
                      epoch |-> 0, prev |-> None, want |-> None]]
    /\ action = [k \in Kind |-> [d \in Delivery |->
                  IF k = "start" /\ d = Original THEN "confirmed" ELSE "none"]]
    /\ app = [d \in Delivery |-> IF d = Original THEN "ready" ELSE "absent"]
    /\ route = Original
    /\ closed = FALSE
    /\ lock = None
    /\ run = [h \in Handler |-> Idle]

----------------------------------------------------------------------------
(* What a transaction of Serve reads.                                       *)

\* currentDeliveryTx: the delivery with status 'active', of which there is at
\* most one (agent_deployments_one_active).
Current == {d \in Delivery : row[d].status = "active"}

\* refuseRetiredRuntime: a termination, of a failed switch or of the closeout,
\* fences every start even while it is unconfirmed.
Retiring(d) == action["terminate"][d] # "none" \/ action["retire"][d] # "none"

\* validateReserved: only the newest execution epoch is observed or started.
Faulty_StaleEpoch(d) == FALSE
StaleEpoch(d) == \E e \in Delivery : row[e].epoch > row[d].epoch

\* exclusiveDataWriter: either side may be the one that states the limit.
Exclusive(r, current) == r \in ExclusiveWriter \/ current \in ExclusiveWriter

\* refusePendingReplacement: a switch that is neither current nor removed, or
\* an update that was accepted and has no delivery yet.
Faulty_PendingReplacement(r) ==
    \E q \in Switch \ {r} : q \notin Rollback /\ row[q].op = "accepted"

PendingReplacement(r) ==
    \/ \E q \in Switch : row[q].status \in Open /\ row[q].inst # "terminated"
    \/ \E q \in Switch \ {r} : q \notin Rollback /\ row[q].op = "accepted"

----------------------------------------------------------------------------
(* The steps of runReplacement.                                             *)

Step(h, at) == run' = [run EXCEPT ![h].at = at]
Return(h) == run' = [run EXCEPT ![h] = Idle]

\* A caller names the delivery it saw as current, once per key, and calls
\* again with the same key for as long as it likes.
Request(h, r) ==
    /\ run[h].at = "idle"
    /\ \/ row[r].want # None /\ UNCHANGED row
       \/ /\ row[r].want = None
          /\ \E d \in Current : row' = [row EXCEPT ![r].want = d]
    /\ run' = [run EXCEPT ![h] = [at |-> "admit", switch |-> r, doing |-> None]]
    /\ UNCHANGED <<action, app, route, closed, lock>>

\* A call is over before any admission: the Workspace is closed, the switch is
\* done, its predecessor is not the current delivery or another one is pending.
RefuseReplacement(h) ==
    /\ run[h].at = "admit" /\ lock = None
    /\ LET r == run[h].switch IN
         \/ closed
         \/ row[r].op = "succeeded"
         \/ row[r].status = "none" /\ (Current # {row[r].want} \/ PendingReplacement(r))
    /\ Return(h)
    /\ UNCHANGED <<row, action, app, route, closed, lock>>

\* acceptReplacementTx: an update first commits its acceptance, which is what
\* Identity issues the grant for, and runReplacement starts over.
AcceptReplacement(h) ==
    /\ run[h].at = "admit" /\ lock = None /\ ~closed
    /\ LET r == run[h].switch IN
         /\ r \notin Rollback /\ row[r].op = "none"
         /\ Current = {row[r].want} /\ ~PendingReplacement(r)
         /\ row' = [row EXCEPT ![r].op = "accepted"]
    /\ UNCHANGED <<action, app, route, closed, lock, run>>

\* admitReplacementTx: the delivery, its instance and its operation in one
\* transaction, one epoch above the delivery it replaces.
AdmitReplacement(h) ==
    /\ run[h].at = "admit" /\ lock = None /\ ~closed
    /\ LET r == run[h].switch IN
         /\ row[r].op = IF r \in Rollback THEN "none" ELSE "accepted"
         /\ Current = {row[r].want} /\ ~PendingReplacement(r)
         /\ row' = [row EXCEPT ![r] =
                      [@ EXCEPT !.status = "queued", !.inst = "pending", !.op = "admitted",
                                !.epoch = row[row[r].want].epoch + 1, !.prev = row[r].want]]
    /\ Step(h, "accept")
    /\ UNCHANGED <<action, app, route, closed, lock>>

\* A retry of an admitted switch goes on with the delivery it already owns,
\* whatever the Workspace serves by now.
ReplayReplacement(h) ==
    /\ run[h].at = "admit" /\ lock = None /\ ~closed
    /\ row[run[h].switch].op = "admitted"
    /\ Step(h, "accept")
    /\ UNCHANGED <<row, action, app, route, closed, lock>>

\* acceptReplacementStart records the frozen start before any provider call
\* (bindReservation before it changes no state of Serve).
AcceptStart(h) ==
    /\ run[h].at = "accept" /\ lock = None
    /\ LET r == run[h].switch IN
         IF closed \/ Retiring(r)
         THEN Return(h) /\ UNCHANGED <<row, action>>
         ELSE /\ action' = [action EXCEPT !["start"][r] = IF @ = "none" THEN "unknown" ELSE @]
              /\ row' = [row EXCEPT ![r].status =
                           IF row[r].op = "succeeded" THEN @ ELSE "deploying"]
              /\ run' = [run EXCEPT ![h] =
                           IF Exclusive(r, row[r].prev)
                           THEN [@ EXCEPT !.at = "lock", !.doing = "stop"]
                           ELSE [@ EXCEPT !.at = "start"]]
    /\ UNCHANGED <<app, route, closed, lock>>
----------------------------------------------------------------------------
(* transitionCurrentWriter: stopping the displaced writer for a switch, and  *)
(* restoring it after the switch failed.  The session lock of                *)
(* lockRuntimeTransition is held from the recorded intent to the recorded    *)
(* state, the provider call included.                                        *)

Writer(h) == row[run[h].switch].prev

\* What a call with nothing left to do leads to.
AfterStop(h) == run' = [run EXCEPT ![h] = [@ EXCEPT !.at = "start", !.doing = None]]

\* lockRuntimeTransition and recordRuntimeActionTx.  A confirmed stop is not
\* issued again; a confirmed resume only has its state recorded again.
LockTransition(h) ==
    /\ run[h].at = "lock" /\ lock = None
    /\ LET result == action[run[h].doing][run[h].switch] IN
       IF closed \/ Retiring(Writer(h))
       THEN Return(h) /\ UNCHANGED <<action, lock>>
       ELSE IF run[h].doing = "stop" /\ result = "confirmed"
       THEN AfterStop(h) /\ UNCHANGED <<action, lock>>
       ELSE /\ action' = [action EXCEPT ![run[h].doing][run[h].switch] =
                            IF @ = "none" THEN "unknown" ELSE @]
            /\ lock' = h
            /\ Step(h, IF result = "confirmed" THEN "record" ELSE "call")
    /\ UNCHANGED <<row, app, route, closed>>

\* SetWorkspaceApplicationRuntimeLifecycle scales the workload and answers with
\* what it reads back at once: anything but the desired state is an error.
Scaled(d, doing) ==
    [app EXCEPT ![d] =
       IF doing = "stop"
       THEN IF @ \in {"starting", "ready", "failed"} THEN "draining" ELSE @
       ELSE IF @ \in {"draining", "suspended"} THEN "starting" ELSE @]

Reached(d, doing) ==
    app[d] \in IF doing = "stop" THEN {"suspended", "absent"} ELSE {"ready"}

Faulty_CallTransition(h) ==
    /\ run[h].at = "call"
    /\ app' = Scaled(Writer(h), run[h].doing)
    /\ Step(h, "confirm")
    /\ UNCHANGED <<row, action, route, closed, lock>>

CallTransition(h) ==
    /\ run[h].at = "call"
    /\ app' = Scaled(Writer(h), run[h].doing)
    /\ IF Reached(Writer(h), run[h].doing)
       THEN Step(h, "confirm") /\ UNCHANGED lock
       ELSE Return(h) /\ lock' = None
    /\ UNCHANGED <<row, action, route, closed>>

\* The confirmation and the instance state are separate statements.
ConfirmTransition(h) ==
    /\ run[h].at = "confirm"
    /\ action' = [action EXCEPT ![run[h].doing][run[h].switch] = "confirmed"]
    /\ Step(h, "record")
    /\ UNCHANGED <<row, app, route, closed, lock>>

\* setRuntimeInstanceStateTx, which refuses a runtime that is retiring: the
\* closeout waits for the lock, a failed switch's own retirement does not.
RecordTransition(h) ==
    /\ run[h].at = "record"
    /\ lock' = None
    /\ LET d == Writer(h)
           refused == row[d].inst = "terminated" \/ Retiring(d) IN
         /\ row' = IF refused THEN row
                   ELSE [row EXCEPT ![d].inst =
                           IF run[h].doing = "stop" THEN "stopped" ELSE "ready"]
         /\ IF refused \/ run[h].doing = "resume" THEN Return(h) ELSE AfterStop(h)
    /\ UNCHANGED <<action, app, route, closed>>
----------------------------------------------------------------------------
(* observeAndFinishDelivery: one transaction under the Workspace lock around *)
(* the provider's start and its separate observation.                        *)

StartRuntime(h) ==
    /\ run[h].at = "start" /\ lock = None
    /\ LET r == run[h].switch IN
         IF closed \/ Retiring(r) \/ StaleEpoch(r)
         THEN Return(h) /\ UNCHANGED <<app, lock>>
         ELSE /\ app' = [app EXCEPT ![r] = IF @ = "absent" THEN "starting" ELSE @]
              /\ lock' = h
              /\ Step(h, "observe")
    /\ UNCHANGED <<row, action, route, closed>>

\* agentExecutionAdapter.observe and resolveObservationState.
Observed(d) ==
    CASE app[d] \in {"ready", "failed"} -> app[d]
      [] app[d] = "absent" -> "terminated"
      [] OTHER -> "starting"

\* recordDeploymentObservation, finishFirstDelivery and commitDeliveryRoute: a
\* ready delivery supersedes the one it replaced and takes the route in the
\* transaction that observed it; any other observation is 'verifying', even of
\* a delivery that was already active.
Replaced(r) == {row[r].prev} \cap Current

\* agent_deployments_one_active and the route's epoch check would undo the
\* transaction; ActivationIsNeverUndone says that they never have to.
Activates(r) ==
    /\ Current \subseteq Replaced(r) \cup {r}
    /\ route = None \/ row[r].epoch >= row[route].epoch

FinishDelivery(h) ==
    /\ run[h].at = "observe"
    /\ LET r == run[h].switch
           seen == Observed(r) IN
         IF seen = "ready"
         THEN /\ Activates(r)
              /\ row' = [d \in Delivery |->
                           IF d = r
                           THEN [row[d] EXCEPT !.status = "active", !.inst = "ready",
                                               !.op = "succeeded"]
                           ELSE IF d \in Replaced(r) THEN [row[d] EXCEPT !.status = "superseded"]
                           ELSE row[d]]
              /\ route' = r
              /\ action' = [action EXCEPT !["start"][r] = "confirmed"]
         ELSE /\ row' = [row EXCEPT ![r].status = "verifying", ![r].inst = seen]
              /\ UNCHANGED <<route, action>>
    /\ lock' = None
    /\ Step(h, "readback")
    /\ UNCHANGED <<app, closed>>

\* The readback after the commit: available and still converging switches are
\* answered, a definite failure is undone.
ReadBack(h) ==
    /\ run[h].at = "readback"
    /\ IF row[run[h].switch].inst \in {"failed", "terminated"} THEN Step(h, "retire") ELSE Return(h)
    /\ UNCHANGED <<row, action, app, route, closed, lock>>
----------------------------------------------------------------------------
(* retireFailedReplacement and restoreWriterStoppedByReplacement.            *)

\* Only the confirmed stop this switch recorded is undone.
Restore(h) ==
    run' = [run EXCEPT ![h] =
              IF action["stop"][@.switch] = "confirmed"
              THEN [@ EXCEPT !.at = "lock", !.doing = "resume"] ELSE Idle]

\* A transaction that observes the same runtime holds its row, so the intent
\* waits for it; the Workspace lock is not taken.
ObservedByAnother(r) == \E g \in Handler : run[g].at = "observe" /\ run[g].switch = r

RecordRetirement(h) ==
    /\ run[h].at = "retire" /\ ~ObservedByAnother(run[h].switch)
    /\ LET r == run[h].switch IN
         IF action["terminate"][r] = "confirmed"
         THEN Restore(h) /\ UNCHANGED action
         ELSE /\ action' = [action EXCEPT !["terminate"][r] = "unknown"]
              /\ Step(h, "remove")
    /\ UNCHANGED <<row, app, route, closed, lock>>

\* The deletion is only requested: what had no Pod is cleared away, the rest drains.
Removed(d) ==
    [app EXCEPT ![d] = IF @ = "absent" THEN @
                       ELSE IF HoldsMount(d) THEN "removing" ELSE "clearing"]

RemoveFailed(h) ==
    /\ run[h].at = "remove"
    /\ LET r == run[h].switch IN
         /\ app' = Removed(r)
         /\ IF app[r] = "absent" THEN Step(h, "removed") ELSE Return(h)
    /\ UNCHANGED <<row, action, route, closed, lock>>

ConfirmRemoval(h) ==
    /\ run[h].at = "removed"
    /\ action' = [action EXCEPT !["terminate"][run[h].switch] = "confirmed"]
    /\ Step(h, "clear")
    /\ UNCHANGED <<row, app, route, closed, lock>>

ClearFailed(h) ==
    /\ run[h].at = "clear"
    /\ row' = [row EXCEPT ![run[h].switch].inst = "terminated"]
    /\ Restore(h)
    /\ UNCHANGED <<action, app, route, closed, lock>>

\* A call ends anywhere: a dependency or the provider answers with an error, the
\* caller's deadline passes, the process dies.  Its lock goes with its session.
Faulty_Break(h) ==
    /\ MayBreak /\ run[h].at # "idle"
    /\ Return(h)
    /\ UNCHANGED <<row, action, app, route, closed, lock>>

Break(h) ==
    /\ MayBreak /\ run[h].at # "idle"
    /\ Return(h)
    /\ lock' = IF lock = h THEN None ELSE lock
    /\ UNCHANGED <<row, action, app, route, closed>>
----------------------------------------------------------------------------
(* The Workspace owner's closeout.                                          *)

\* prepareWorkspaceRetirement: every admitted runtime's termination intent, the
\* runtime_retire operation and the retired route in one locked transaction.
Retire ==
    /\ lock = None /\ ~closed
    /\ closed' = TRUE
    /\ route' = None
    /\ action' = [action EXCEPT !["retire"] =
                    [d \in Delivery |-> IF row[d].status = "none" THEN @[d] ELSE "unknown"]]
    /\ UNCHANGED <<row, app, lock, run>>

\* retirePreparedRuntime, newest epoch first and the original last, called
\* again by the Workspace until it confirms.  A runtime that was never started
\* has nothing to remove.
Unretired == {d \in Delivery : action["retire"][d] = "unknown"}

Faulty_RetireNext(d) == TRUE
RetireNext(d) ==
    \A e \in Unretired \ {d} : d # Original /\ (e = Original \/ row[e].epoch <= row[d].epoch)

RetireRuntime(d) ==
    /\ d \in Unretired /\ RetireNext(d)
    /\ LET started == action["start"][d] # "none" IN
         /\ app' = IF started THEN Removed(d) ELSE app
         /\ IF started /\ app[d] # "absent"
            THEN UNCHANGED <<row, action>>
            ELSE /\ action' = [action EXCEPT !["retire"][d] = "confirmed"]
                 /\ row' = [row EXCEPT ![d].inst = "terminated"]
    /\ UNCHANGED <<route, closed, lock, run>>

----------------------------------------------------------------------------
(* The executor's workloads: Pods come up, fail and are replaced, and are    *)
(* gone some time after they were told to.                                   *)

Converge(d) ==
    /\ app' = [app EXCEPT ![d] = CASE @ = "starting" -> "ready"
                                   [] @ = "draining" -> "suspended"
                                   [] @ \in {"removing", "clearing"} -> "absent"
                                   [] OTHER -> @]
    /\ app' # app
    /\ UNCHANGED <<row, action, route, closed, lock, run>>

Falter(d) ==
    /\ app' = [app EXCEPT ![d] = CASE @ = "starting" -> "failed"
                                   [] @ \in {"ready", "failed"} -> "starting"
                                   [] OTHER -> @]
    /\ app' # app
    /\ UNCHANGED <<row, action, route, closed, lock, run>>

----------------------------------------------------------------------------
HandlerStep(h) ==
    \/ RefuseReplacement(h) \/ AcceptReplacement(h) \/ AdmitReplacement(h)
    \/ ReplayReplacement(h) \/ AcceptStart(h)
    \/ LockTransition(h) \/ CallTransition(h) \/ ConfirmTransition(h) \/ RecordTransition(h)
    \/ StartRuntime(h) \/ FinishDelivery(h) \/ ReadBack(h)
    \/ RecordRetirement(h) \/ RemoveFailed(h) \/ ConfirmRemoval(h) \/ ClearFailed(h)

Next ==
    \/ \E h \in Handler : HandlerStep(h) \/ Break(h) \/ \E r \in Switch : Request(h, r)
    \/ Retire
    \/ \E d \in Delivery : RetireRuntime(d) \/ Converge(d) \/ Falter(d)

Spec == Init /\ [][Next]_vars

\* A handler that works goes on working; a caller that is still owed an answer
\* calls again with the same key; Pods that were started, stopped or deleted get
\* there.  Nothing makes a caller start a switch, an application fail or a
\* Workspace close.
Fairness ==
    /\ \A h \in Handler : WF_vars(HandlerStep(h))
    /\ \A r \in Switch : SF_vars(row[r].want # None /\ row[r].op # "succeeded"
                                   /\ \E h \in Handler : Request(h, r))
    /\ \A d \in Delivery : WF_vars(Converge(d)) /\ WF_vars(RetireRuntime(d))

FairSpec == Spec /\ Fairness

----------------------------------------------------------------------------
(* Properties.                                                              *)

(* A replacement that cannot share its data never holds the mount together   *)
(* with the writer it displaced, through retries, overlapping calls and lost *)
(* answers of the stop.  The one exception the code leaves is another switch *)
(* over the same writer, failed earlier, whose late restore starts that       *)
(* writer again (transitionCurrentWriter, exclusiveDataWriter).               *)
DisplacedWriterIsDown ==
    \A r \in Switch :
        LET d == row[r].prev IN
          d # None /\ Exclusive(r, d) /\ HoldsMount(r) /\ HoldsMount(d) =>
            \E q \in Switch \ {r} : row[q].prev = d /\ action["resume"][q] # "none"

(* At any time at most one switch of a Workspace is undecided: accepted, or   *)
(* admitted and neither current nor removed.  A second caller, a retry or a   *)
(* call that resumes after a long pause opens no second one                   *)
(* (refusePendingReplacement under the Workspace lock).                       *)
OneOpenSwitch ==
    Cardinality({r \in Switch : \/ row[r].op = "accepted"
                                \/ row[r].op = "admitted" /\ row[r].inst # "terminated"}) <= 1

(* A delivery that is observed ready can always take over: no other delivery  *)
(* became current, and the route moved to no newer epoch, while its call was  *)
(* between its admission and its observation (validateReserved and the        *)
(* Workspace lock, before the unique index and commitRouteSwitchTx).          *)
ActivationIsNeverUndone ==
    \A h \in Handler : run[h].at = "observe" => Activates(run[h].switch)

(* Once Serve confirms the retirement of the original reservation, which is   *)
(* the Workspace's evidence that nothing runs any more, no delivery of the     *)
(* lineage runs or comes up again: a switch that was in flight can neither     *)
(* start its delivery nor restore a writer (Retire, refuseClosedWorkspace).    *)
ClosedIsEmpty ==
    action["retire"][Original] = "confirmed" => \A d \in Delivery : app[d] = "absent"

(* A switch that definitely failed is undone when its caller retries it: its  *)
(* runtime is removed and recorded as terminated (retireFailedReplacement).   *)
FailedSwitchIsUndone ==
    \A r \in Switch :
        action["terminate"][r] = "unknown" ~> (row[r].inst = "terminated" \/ closed)

=============================================================================

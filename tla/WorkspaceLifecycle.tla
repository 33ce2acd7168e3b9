------------------------- MODULE WorkspaceLifecycle -------------------------
(***************************************************************************)
(* The suspension and the recovery of a delivered Workspace                 *)
(* (services/workspace/internal/launch/lifecycle.go) over the reversible    *)
(* state of its managed key in Gateway (identity/managed_key_lifecycle.go), *)
(* together with the deletion of the same Workspace, as far as the two      *)
(* meet: the row's status and the key. Every replica of the service runs    *)
(* the same passes; a pass is not one transaction, so what it listed, what  *)
(* it read of the Workspace and what Gateway answered may be stale when     *)
(* they are used.                                                           *)
(*                                                                          *)
(* One Workspace whose application declares a key. Per kind there is at     *)
(* most one event that is not finished, and finished ones are never read    *)
(* again, so an event is a slot of its kind; its status "none" stands for   *)
(* "no such row, or a succeeded one", "open" for accepted, running and      *)
(* awaiting_confirmation. Nothing in the service renews a period: once      *)
(* over, it stays unpaid.                                                   *)
(***************************************************************************)
EXTENDS Naturals, FiniteSets

CONSTANTS
    Worker,         \* replicas of the Workspace service
    None,           \* no holder
    RecoveryLimit,  \* lifecycleRecoveryLimit: attempts of one event
    MaxFlips,       \* bound on changes of what the provider has
    MaxLapses,      \* bound on leases that end under a running worker
    MaxBreaks       \* bound on passes that end in the middle

ASSUME LifecycleAssumption ==
    /\ None \notin Worker /\ RecoveryLimit \in Nat \ {0}
    /\ MaxFlips \in Nat /\ MaxLapses \in Nat /\ MaxBreaks \in Nat

VARIABLES
    ws,         \* workspaces.status
    paid,       \* the confirmed period contains now
    present,    \* what Fabric reads back of the original resources
    flips,
    event,      \* the unfinished suspend_workspace and resume_workspace
    said,       \* the key state the last succeeded event recorded as confirmed
    pass,       \* a worker's pass: where it is, the kind of event it works on and
                \* what applyManagedKeyLifecycle came back with
    key,        \* the key as the external authority has it
    disabled,   \* key_bindings.disabled_at is set
    guard,      \* advisory lock "gateway.workspace_key"
    stray,      \* states asked for by calls that nobody waits for any more
    closer,     \* the deletion's disable_managed_key step
    overtaken,  \* history: two events were worked on at the same time, a worker outran
                \* its lease or a request outlived its caller
    lapses, breaks

row == <<ws, paid, present, flips>>
gateway == <<key, disabled, guard, stray>>
faults == <<overtaken, lapses, breaks>>
vars == <<row, event, said, pass, gateway, closer, faults>>

Kind == {"suspend", "resume"}
Desired(k) == IF k = "suspend" THEN "disabled" ELSE "active"
NoPass == [at |-> "idle", work |-> "suspend", answer |-> "none"]
NoEvent == [status |-> "none", attempts |-> 0, lease |-> None]

Opening == {"open_expired", "open_lost", "open_restored"}
Observing == {"observe_lost", "observe_restored"}
Leased == {"standing", "suspend", "begin_read", "read", "begin_command", "call", "set", "readback",
           "mark", "confirm", "restore", "checkpoint"}
Answer == {"none", "superseded", "confirmed", "rejected", "revoked", "unknown"}

LifecycleTypeOK ==
    /\ ws \in {"active", "suspended", "deleting", "deleted"}
    /\ paid \in BOOLEAN /\ present \in BOOLEAN /\ flips \in 0..MaxFlips
    /\ event \in [Kind -> [status : {"none", "open", "attention"},
                           attempts : 0..RecoveryLimit, lease : Worker \cup {None}]]
    /\ said \in {"active", "disabled", "other"}
    /\ pass \in [Worker -> [at : {"idle", "take", "lease"} \cup Opening \cup Observing \cup Leased,
                           work : Kind, answer : Answer]]
    /\ key \in {"active", "disabled", "revoked"} /\ disabled \in BOOLEAN
    /\ guard \in Worker \cup {None} /\ stray \subseteq {"active", "disabled"}
    /\ closer \in {"none", "set", "readback", "mark", "confirmed", "rejected", "unknown"}
    /\ overtaken \in BOOLEAN /\ lapses \in 0..MaxLapses /\ breaks \in 0..MaxBreaks

\* A launch has just succeeded: the Workspace is active, its period is paid and its
\* key was issued.
Init ==
    /\ ws = "active" /\ paid = TRUE /\ present = TRUE /\ flips = 0
    /\ event = [k \in Kind |-> NoEvent] /\ said = "other"
    /\ pass = [w \in Worker |-> NoPass]
    /\ key = "active" /\ disabled = FALSE /\ guard = None /\ stray = {}
    /\ closer = "none" /\ overtaken = FALSE /\ lapses = 0 /\ breaks = 0

-----------------------------------------------------------------------------
(* The sweeps. Each lists with one query and then, for the recovery and the *)
(* lost resources, asks Fabric; only then is the event opened.              *)

At(w) == pass[w].at
Work(w) == pass[w].work

Goto(w, place) == pass' = [pass EXCEPT ![w].at = place]
Rest(w) == pass' = [pass EXCEPT ![w] = NoPass]
GotoIf(w, condition, place) == IF condition THEN Goto(w, place) ELSE Rest(w)
TakeUp(w, k) == pass' = [pass EXCEPT ![w] = [NoPass EXCEPT !.at = "take", !.work = k]]

\* The three queries leave out a Workspace with an event of either kind that is
\* accepted, running or awaiting_confirmation, not one that needs attention.
NothingOpen == \A k \in Kind : event[k].status # "open"

Listed(w, condition, place) ==
    /\ At(w) = "idle" /\ NothingOpen /\ condition
    /\ Goto(w, place)
    /\ UNCHANGED <<row, event, said, gateway, closer, faults>>

SuspendExpired(w) == Listed(w, ws = "active" /\ ~paid, "open_expired")
SuspendLost(w) == Listed(w, ws = "active", "observe_lost")

Faulty_RecoverRestored(w) ==
    Listed(w, ws = "suspended" /\ paid /\ said = "disabled", "observe_restored")

RecoverRestored(w) == Listed(w, ws = "suspended" /\ paid, "observe_restored")

\* An unanswered read of the resources is a wait.
ObserveResources(w) ==
    /\ At(w) \in Observing
    /\ \/ Rest(w)
       \/ At(w) = "observe_lost" /\ ~present /\ Goto(w, "open_lost")
       \/ At(w) = "observe_restored" /\ present /\ Goto(w, "open_restored")
    /\ UNCHANGED <<row, event, said, gateway, closer, faults>>

LifecycleApplicable(place) ==
    CASE place = "open_expired"  -> ws = "active" /\ ~paid
      [] place = "open_lost"     -> ws = "active"
      [] place = "open_restored" -> ws = "suspended" /\ paid

\* The event of the same kind is looked for under the advisory lock, with the ones
\* that need attention; the other kind is not looked at again.
OpenLifecycleOperation(w) ==
    /\ At(w) \in Opening
    /\ LET k == IF At(w) = "open_restored" THEN "resume" ELSE "suspend"
       IN \/ /\ event[k].status # "none"
             /\ TakeUp(w, k)
             /\ UNCHANGED event
          \/ /\ event[k].status = "none" /\ LifecycleApplicable(At(w))
             /\ event' = [event EXCEPT ![k] = [NoEvent EXCEPT !.status = "open"]]
             /\ TakeUp(w, k)
          \/ /\ event[k].status = "none" /\ ~LifecycleApplicable(At(w))
             /\ Rest(w)
             /\ UNCHANGED event
    /\ UNCHANGED <<row, said, gateway, closer, faults>>

\* RunOnce goes on with what is open and not leased.
Faulty_RunOnce(w, k) ==
    /\ At(w) = "idle" /\ event[k].status = "open" /\ event[k].lease = None
    /\ event[k].attempts > 0
    /\ TakeUp(w, k)
    /\ UNCHANGED <<row, event, said, gateway, closer, faults>>

RunOnce(w, k) ==
    /\ At(w) = "idle" /\ event[k].status = "open" /\ event[k].lease = None
    /\ TakeUp(w, k)
    /\ UNCHANGED <<row, event, said, gateway, closer, faults>>

-----------------------------------------------------------------------------
(* applyWorkspaceLifecycle: read the event, lease it, act on it.            *)

\* An event that needs attention, or ended, is left alone.
ApplyLifecycle(w) ==
    /\ At(w) = "take"
    /\ GotoIf(w, event[Work(w)].status = "open", "lease")
    /\ UNCHANGED <<row, event, said, gateway, closer, faults>>

\* The lease refuses a finished event, but not one that needs attention by now.
LeaseLifecycle(w) ==
    /\ At(w) = "lease"
    /\ LET e == event[Work(w)]
           free == e.status # "none" /\ e.lease = None
       IN /\ event' = IF free THEN [event EXCEPT ![Work(w)].lease = w] ELSE event
          /\ overtaken' = (overtaken \/ (free /\ \E k \in Kind : event[k].lease # None))
          /\ GotoIf(w, free, "standing")
    /\ UNCHANGED <<row, said, gateway, closer, lapses, breaks>>

\* The answer decides: a recovery restores the Workspace before it reports.
Faulty_Answered(w, a) ==
    pass' = [pass EXCEPT ![w].answer = a,
                         ![w].at = IF Work(w) = "resume" /\ a \in {"confirmed", "rejected"}
                                     THEN "restore" ELSE "checkpoint"]

Answered(w, a) ==
    pass' = [pass EXCEPT ![w].answer = a,
                         ![w].at = IF Work(w) = "resume" /\ a = "confirmed" THEN "restore" ELSE "checkpoint"]

ReadStanding(w) ==
    /\ At(w) = "standing"
    /\ LET applies == IF Work(w) = "suspend" THEN ws \in {"active", "suspended"}
                                             ELSE ws = "suspended" /\ paid
       IN IF applies
            THEN Goto(w, IF ws = "active" THEN "suspend" ELSE "begin_read")
            ELSE Answered(w, "superseded")
    /\ UNCHANGED <<row, event, said, gateway, closer, faults>>

\* UPDATE ... WHERE status='active', whatever it finds.
SuspendWorkspace(w) ==
    /\ At(w) = "suspend"
    /\ ws' = IF ws = "active" THEN "suspended" ELSE ws
    /\ Goto(w, "begin_read")
    /\ UNCHANGED <<paid, present, flips, event, said, gateway, closer, faults>>

\* The worker's writes about the event hold only under its own lease.
Fenced(w) == event[Work(w)].lease = w

\* A pass that ends without a report gives the lease back if it still has it.
Stop(w) ==
    /\ event' = IF Fenced(w) THEN [event EXCEPT ![Work(w)].lease = None] ELSE event
    /\ Rest(w)

\* The key of a Workspace whose model configuration is not confirmed has no name;
\* that is an unknown answer. Otherwise beginStep marks the event running.
BeginRead(w) ==
    /\ At(w) = "begin_read"
    /\ \/ Answered(w, "unknown") /\ UNCHANGED event
       \/ /\ Fenced(w)
          /\ event' = [event EXCEPT ![Work(w)].status = "open"]
          /\ Goto(w, "read")
       \/ ~Fenced(w) /\ Stop(w)
    /\ UNCHANGED <<row, said, gateway, closer, faults>>

\* ReadManagedKeyLifecycle: the state the external authority confirms. A key that
\* has the desired state is not asked for it again.
ReadKeyLifecycle(w) ==
    /\ At(w) = "read"
    /\ \/ Answered(w, "unknown") \/ Answered(w, "rejected")
       \/ key = "revoked" /\ Answered(w, "revoked")
       \/ key = Desired(Work(w)) /\ Work(w) = "suspend" /\ Answered(w, "confirmed")
       \/ /\ key = Desired(Work(w)) /\ Work(w) = "resume"
          /\ Goto(w, "confirm")
       \/ /\ key \notin {"revoked", Desired(Work(w))}
          /\ Goto(w, "begin_command")
    /\ UNCHANGED <<row, event, said, gateway, closer, faults>>

BeginCommand(w) ==
    /\ At(w) = "begin_command"
    /\ \/ /\ Fenced(w)
          /\ event' = [event EXCEPT ![Work(w)].status = "open"]
          /\ Goto(w, "call")
       \/ ~Fenced(w) /\ Stop(w)
    /\ UNCHANGED <<row, said, gateway, closer, faults>>

-----------------------------------------------------------------------------
(* Gateway's handler of the command: setManagedKeyLifecycle, under the      *)
(* guard when the key is to be enabled. The "close:" barrier that Enable    *)
(* also reads is raised only by the deletion of a Workspace that was never  *)
(* delivered, so it is down here.                                           *)

Unguard(w) == guard' = IF guard = w THEN None ELSE guard

\* The call is unavailable or its answer is lost; before the external authority was
\* told, it may also be refused (authorization, wallet binding, the authority), and so
\* may the record be (ErrManagedKeyLifecycleConflict).
CallFails(w) ==
    /\ At(w) \in {"call", "set", "readback", "mark"}
    /\ \/ Answered(w, "unknown")
       \/ At(w) \in {"call", "set", "mark"} /\ Answered(w, "rejected")
    /\ Unguard(w)
    /\ UNCHANGED <<row, event, said, key, disabled, stray, closer, faults>>

SetManagedKeyLifecycle(w) ==
    /\ At(w) = "call"
    /\ \/ Work(w) = "resume" /\ guard # None /\ Answered(w, "unknown") /\ UNCHANGED guard
       \/ /\ Work(w) = "resume" => guard = None
          /\ key = "revoked" /\ Answered(w, "rejected") /\ UNCHANGED guard
       \/ /\ Work(w) = "resume" => guard = None
          /\ key # "revoked"
          /\ guard' = IF Work(w) = "resume" THEN w ELSE guard
          /\ Goto(w, IF key = Desired(Work(w)) THEN "mark" ELSE "set")
    /\ UNCHANGED <<row, event, said, key, disabled, stray, closer, faults>>

\* The external authority takes the state over, unless it has revoked the key.
Becomes(state) == key' = IF key = "revoked" THEN key ELSE state

\* It may also answer without having done so: that is what the readback is for.
SetKeyState(w) ==
    /\ At(w) = "set"
    /\ Becomes(Desired(Work(w))) \/ UNCHANGED key
    /\ Goto(w, "readback")
    /\ UNCHANGED <<row, event, said, disabled, guard, stray, closer, faults>>

Faulty_ReadbackKeyState(w) ==
    /\ At(w) = "readback"
    /\ Goto(w, "mark") /\ UNCHANGED guard
    /\ UNCHANGED <<row, event, said, key, disabled, stray, closer, faults>>

ReadbackKeyState(w) ==
    /\ At(w) = "readback"
    /\ \/ key = Desired(Work(w)) /\ Goto(w, "mark") /\ UNCHANGED guard
       \/ key # Desired(Work(w)) /\ Answered(w, "rejected") /\ Unguard(w)
    /\ UNCHANGED <<row, event, said, key, disabled, stray, closer, faults>>

MarkManagedKey(w) ==
    /\ At(w) = "mark"
    /\ disabled' = (Work(w) = "suspend")
    /\ Unguard(w)
    /\ IF Work(w) = "suspend" THEN Answered(w, "confirmed") ELSE Goto(w, "confirm")
    /\ UNCHANGED <<row, event, said, key, stray, closer, faults>>

-----------------------------------------------------------------------------
(* Back in the worker.                                                      *)

\* ReadManagedKey looks at Gateway's own row only.
ConfirmManagedKeyReadable(w) ==
    /\ At(w) = "confirm"
    /\ \/ Answered(w, "unknown") \/ Answered(w, "rejected")
       \/ ~disabled /\ Answered(w, "confirmed")
    /\ UNCHANGED <<row, event, said, gateway, closer, faults>>

Faulty_RestoreWorkspace(w) ==
    /\ At(w) = "restore"
    /\ ws' = "active" /\ Goto(w, "checkpoint")
    /\ UNCHANGED <<paid, present, flips, event, said, gateway, closer, faults>>

\* UPDATE ... WHERE status='suspended', not fenced by the lease.
RestoreWorkspace(w) ==
    /\ At(w) = "restore"
    /\ ws' = IF ws = "suspended" THEN "active" ELSE ws
    /\ Goto(w, "checkpoint")
    /\ UNCHANGED <<paid, present, flips, event, said, gateway, closer, faults>>

Succeeds(k, a) == a \in {"superseded", "confirmed"} \/ (k = "suspend" /\ a \in {"rejected", "revoked"})

Faulty_Counted(e, a) ==
    IF a = "revoked" THEN [e EXCEPT !.status = "attention", !.lease = None]
    ELSE [status |-> IF e.attempts + 1 > RecoveryLimit THEN "attention" ELSE "open",
          attempts |-> e.attempts + 1, lease |-> None]

Counted(e, a) ==
    LET attempts == IF e.attempts < RecoveryLimit THEN e.attempts + 1 ELSE RecoveryLimit
    IN IF a = "revoked" THEN [e EXCEPT !.status = "attention", !.lease = None]
       ELSE [status |-> IF attempts = RecoveryLimit THEN "attention" ELSE "open",
             attempts |-> attempts, lease |-> None]

CheckpointLifecycle(w) ==
    /\ At(w) = "checkpoint"
    /\ LET k == Work(w)
           a == pass[w].answer
       IN IF Fenced(w) /\ Succeeds(k, a)
            THEN /\ event' = [event EXCEPT ![k] = NoEvent]
                 /\ said' = IF a = "confirmed" THEN Desired(k) ELSE "other"
            ELSE /\ event' = IF Fenced(w) THEN [event EXCEPT ![k] = Counted(@, a)] ELSE event
                 /\ UNCHANGED said
    /\ Rest(w)
    /\ UNCHANGED <<row, gateway, closer, faults>>

-----------------------------------------------------------------------------
(* The deletion of the same Workspace. Its step for the key of a delivered  *)
(* Workspace is a plain DisableManagedKey, without guard or barrier.        *)

DeleteWorkspace ==
    /\ ws \in {"active", "suspended"}
    /\ ws' = "deleting"
    /\ UNCHANGED <<paid, present, flips, event, said, pass, gateway, closer, faults>>

Closes(from, to) ==
    /\ closer \in from /\ closer' = to
    /\ UNCHANGED <<row, event, said, pass, guard, stray, faults>>

DisableDeletedWorkspaceKey ==
    /\ ws \in {"deleting", "deleted"}
    /\ \/ key = "revoked" /\ Closes({"none", "unknown"}, "rejected")
       \/ key = "disabled" /\ Closes({"none", "unknown"}, "mark")
       \/ key = "active" /\ Closes({"none", "unknown"}, "set")
    /\ UNCHANGED <<key, disabled>>

CloserSets ==
    /\ Becomes("disabled") \/ UNCHANGED key
    /\ Closes({"set"}, "readback")
    /\ UNCHANGED disabled

CloserReadsBack ==
    /\ \/ key = "disabled" /\ Closes({"readback"}, "mark")
       \/ key # "disabled" /\ Closes({"readback"}, "rejected")
    /\ UNCHANGED <<key, disabled>>

CloserMarks == disabled' = TRUE /\ Closes({"mark"}, "confirmed") /\ UNCHANGED key

CloserFails ==
    /\ Closes({"set", "readback", "mark"}, "unknown")
    /\ UNCHANGED <<key, disabled>>

RecordDeletedWorkspace ==
    /\ ws = "deleting" /\ closer \in {"confirmed", "rejected", "unknown"}
    /\ ws' = "deleted"
    /\ UNCHANGED <<paid, present, flips, event, said, pass, gateway, closer, faults>>

-----------------------------------------------------------------------------
(* Time, the provider, and what goes wrong.                                 *)

PeriodEnds ==
    /\ paid /\ paid' = FALSE
    /\ UNCHANGED <<ws, present, flips, event, said, pass, gateway, closer, faults>>

ResourcesChange ==
    /\ flips < MaxFlips /\ flips' = flips + 1
    /\ present' = ~present
    /\ UNCHANGED <<ws, paid, event, said, pass, gateway, closer, faults>>

KeyIsRevoked ==
    /\ key # "revoked" /\ key' = "revoked"
    /\ UNCHANGED <<row, event, said, pass, disabled, guard, stray, closer, faults>>

\* A lease ends after 60 seconds: nobody holds it any more, or the worker is slow
\* (the sweeps set no deadline for what they apply).
LeaseEnds(k) ==
    /\ event[k].lease # None
    /\ LET w == event[k].lease
           held == Work(w) = k /\ At(w) \in Leased
       IN IF held THEN lapses < MaxLapses /\ lapses' = lapses + 1 /\ overtaken' = TRUE
                  ELSE UNCHANGED <<overtaken, lapses>>
    /\ event' = [event EXCEPT ![k].lease = None]
    /\ UNCHANGED <<row, said, pass, gateway, closer, breaks>>

\* The process stops, or its deadline passes: Gateway's handler is cancelled with its
\* guard, but a request it has sent to the external authority may still arrive.
PassBreaks(w) ==
    /\ At(w) # "idle" /\ breaks < MaxBreaks
    /\ breaks' = breaks + 1
    /\ \/ UNCHANGED event /\ Rest(w)
       \/ Stop(w)
    /\ Unguard(w)
    /\ stray' = IF At(w) = "set" THEN stray \cup {Desired(Work(w))} ELSE stray
    /\ UNCHANGED <<row, said, key, disabled, closer, overtaken, lapses>>

StrayArrives ==
    \E state \in stray :
        /\ Becomes(state) /\ stray' = stray \ {state} /\ overtaken' = TRUE
        /\ UNCHANGED <<row, event, said, pass, disabled, guard, closer, lapses, breaks>>

-----------------------------------------------------------------------------

Sweeps(w) ==
    SuspendExpired(w) \/ SuspendLost(w) \/ RecoverRestored(w) \/ \E k \in Kind : RunOnce(w, k)

Applies(w) ==
    \/ ObserveResources(w) \/ OpenLifecycleOperation(w) \/ ApplyLifecycle(w) \/ LeaseLifecycle(w)
    \/ ReadStanding(w) \/ SuspendWorkspace(w) \/ BeginRead(w) \/ ReadKeyLifecycle(w)
    \/ BeginCommand(w) \/ CallFails(w) \/ SetManagedKeyLifecycle(w) \/ SetKeyState(w)
    \/ ReadbackKeyState(w) \/ MarkManagedKey(w) \/ ConfirmManagedKeyReadable(w)
    \/ RestoreWorkspace(w) \/ CheckpointLifecycle(w)

Deletion ==
    \/ DeleteWorkspace \/ DisableDeletedWorkspaceKey \/ CloserSets \/ CloserReadsBack
    \/ CloserMarks \/ CloserFails \/ RecordDeletedWorkspace

Environment ==
    \/ PeriodEnds \/ ResourcesChange \/ KeyIsRevoked \/ StrayArrives
    \/ \E k \in Kind : LeaseEnds(k)
    \/ \E w \in Worker : PassBreaks(w)

Next == (\E w \in Worker : Sweeps(w) \/ Applies(w)) \/ Deletion \/ Environment

Spec == Init /\ [][Next]_vars

\* A pass goes on and runs every sweep in turn, although the others keep it busy;
\* Fabric answers in the end; a lease nobody holds runs out.
Fairness ==
    /\ \A w \in Worker :
        /\ SF_vars(SuspendExpired(w)) /\ SF_vars(RecoverRestored(w))
        /\ \A k \in Kind : SF_vars(RunOnce(w, k))
        /\ WF_vars(Applies(w))
        /\ SF_vars(ObserveResources(w) /\ pass'[w].at = "open_restored")
    /\ \A k \in Kind : WF_vars(LeaseEnds(k))

FairSpec == Spec /\ Fairness

-----------------------------------------------------------------------------
(* Properties.                                                              *)

\* A Workspace that offers access has a usable key, however often it was suspended
\* and recovered and whatever answers were lost on the way: applySuspension takes the
\* row before it takes the key, and applyRecovery restores the row only after the key
\* was read back active and readable. It is up to effects that overtake each other.
StandingHasKey ==
    ~overtaken /\ ws = "active" => key # "disabled"

\* A suspension that recorded its key as disabled recorded the truth, and the key
\* stays off until a recovery has begun: an answer of applyManagedKeyLifecycle is
\* confirmed only by a readback. From the beginning of a recovery on the invariant
\* is silent, also when that recovery ends as superseded after it enabled the key.
SuspendedHasNoKey ==
    ~overtaken /\ said = "disabled" /\ event["resume"].status = "none" => key # "active"

\* No lifecycle event, however late its UPDATE comes, takes a Workspace back from its
\* deletion (applySuspension and applyRecovery name the status they expect).
DeletionEndsStanding ==
    [][/\ ws = "deleting" => ws' \in {"deleting", "deleted"}
       /\ ws = "deleted" => ws' = "deleted"]_ws

\* A Workspace whose period ended is suspended (or deleted), although Gateway or the
\* worker fails on the way, unless an earlier suspension has used up its attempts and
\* waits for an operator (openLifecycleOperation returns that one).
UnpaidIsSuspended ==
    (ws = "active" /\ ~paid) ~> (ws # "active" \/ event["suspend"].status = "attention")

\* A paid Workspace whose resources are there is active again and again, unless its
\* recovery needs attention (recoverRestoredWorkspaces, applyRecovery).
PaidIsRecovered ==
    <>[](paid /\ present /\ ws \in {"active", "suspended"})
        => []<>(ws = "active" \/ event["resume"].status = "attention")
=============================================================================

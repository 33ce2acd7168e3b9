-------------------------- MODULE WorkspaceDeletion --------------------------
(***************************************************************************)
(* The Workspace service deleting one Workspace: services/workspace/        *)
(* internal/launch, delete_workspace. The deletion is accepted while the    *)
(* order is open, delivered or failed; it cancels an open launch, whose     *)
(* worker may still be calling owners. Its passes retire the runtime, prove *)
(* the resources absent, close the managed key, record the evidence and     *)
(* only then settle the money.                                              *)
(***************************************************************************)
EXTENDS WorkspaceLaunch, Naturals

CONSTANTS
    Deleter,        \* the deletion passes that can run at the same time
    RecoveryLimit   \* deletionRecoveryLimit

ASSUME DeleterAssumption == None \notin Deleter
ASSUME RecoveryLimitAssumption == RecoveryLimit \in Nat \ {0}

VARIABLES
    deletion,   \* operations.status of delete_workspace
    closeout,   \* its operations.result
    command,    \* the version in input_snapshot of its delete_resources step
    dholder,    \* its worker_lease_token while worker_lease_until > now()
    dat,        \* a pass's step, and where in the step it is
    dmem,       \* a pass's copy of the result and the version it read
    dout        \* what a pass is about to write

drow == <<deletion, closeout, command>>
dpass == <<dat, dmem, dout>>
dvars == <<drow, dholder, dpass>>
allvars == <<vars, dvars>>

CloseoutFact == {"grant", "retired", "released", "deleted_at", "spent", "receipt"}
KeyCloseout == {"none", "confirmed", "rejected", "unknown", "not_applicable"}
RefundStatus == Money \cup {"not_applicable"}
StepKey == {"grant", "retire_runtime", "delete_resources", "read_resources",
            "disable_managed_key", "deletion_receipt", "read_deletion_receipt",
            "read_original_charge", "complete_original_funding_receipt",
            "read_original_funding", "read_original_fulfillment",
            "refund_confirmed_deletion", "read_refund_confirmed_deletion"}
Closeout == [facts : SUBSET CloseoutFact, key : KeyCloseout, refund : RefundStatus,
             pending : StepKey \cup {"none"}, attempts : 0 .. RecoveryLimit]
NoCloseout == [facts |-> {}, key |-> "none", refund |-> "none", pending |-> "none",
               attempts |-> 0]

ExpectedVersion == {"none", "any", "v0", "v1"}

DeletionStep == {"grant", "retire_runtime", "close_resources", "read_closeout",
                 "observe_version", "delete_resources", "read_resources", "reread_resources",
                 "resume_release", "no_key", "disable_managed_key", "deletion_receipt",
                 "record_deleted", "read_original_charge", "read_original_funding",
                 "read_original_fulfillment", "no_refund", "refund", "read_refund",
                 "settle_refund", "complete"}
DeletionPlace == [step : DeletionStep \cup {"idle", "load", "end"},
                  phase : {"begin", "call", "save"}]
DeletionOutcome == [status : Status, next : DeletionStep \cup {"end"}]
DeletionMemory == [result : Closeout, version : ExpectedVersion]
NoMemory == [result |-> NoCloseout, version |-> "any"]

DeletionTypeOK ==
    /\ LaunchTypeOK
    /\ deletion \in Status
    /\ closeout \in Closeout
    /\ command \in ExpectedVersion
    /\ dholder \in Deleter \cup {None}
    /\ dat \in [Deleter -> DeletionPlace]
    /\ dmem \in [Deleter -> DeletionMemory]
    /\ dout \in [Deleter -> DeletionOutcome]

DeletionUnbegun == {"read_closeout", "observe_version", "resume_release", "no_key",
                    "record_deleted", "read_original_charge", "read_original_funding",
                    "read_original_fulfillment", "no_refund", "settle_refund", "complete"}

DStart(s) == [step |-> s, phase |-> IF s \in DeletionUnbegun THEN "call" ELSE "begin"]

DeletionInit ==
    /\ LaunchInit
    /\ deletion = "none" /\ closeout = NoCloseout /\ command = "none"
    /\ dholder = None
    /\ dat = [d \in Deleter |-> DStart("idle")]
    /\ dmem = [d \in Deleter |-> NoMemory]
    /\ dout = [d \in Deleter |-> NoOutcome]

-----------------------------------------------------------------------------
(* The order of the steps. The launch is terminal once the deletion is      *)
(* accepted, so its row is the frozen input of the deletion.                *)

Unfinished == status # "succeeded"

\* The confirmed charge is refunded once, unless the month was used up by the
\* time the resources were seen absent.
ToRefund(r) ==
    CASE "spent" \in r.facts -> "no_refund"
      [] "spent" \notin r.facts /\ r.refund \in Settled -> "settle_refund"
      [] "spent" \notin r.facts /\ r.refund = "open" -> "read_refund"
      [] OTHER -> "refund"

ToSettlement(r) ==
    CASE ~Unfinished -> ToRefund(r)
      [] Unfinished /\ "acceptance" \in result.facts /\ ~order.paid -> "no_refund"
      [] OTHER -> "read_original_charge"

Faulty_ToReceipt(r) ==
    IF r.key \in {"rejected", "unknown"} THEN "record_deleted" ELSE "deletion_receipt"
ToReceipt(r) == IF "receipt" \in r.facts THEN "record_deleted" ELSE "deletion_receipt"

\* A refused or unanswered closeout is asked for again by every pass.
ToKey(r) ==
    IF r.key \in {"confirmed", "not_applicable"} THEN ToReceipt(r)
    ELSE IF Unfinished \/ "key" \in result.facts THEN "disable_managed_key" ELSE "no_key"

ToRelease(r) ==
    IF Unfinished /\ "set" \notin result.facts THEN "close_resources"
    ELSE IF "released" \in r.facts THEN "reread_resources" ELSE "observe_version"

Faulty_ToCloseout(r) ==
    CASE "grant" \notin r.facts -> "grant"
      [] "grant" \in r.facts /\ "retired" \notin r.facts /\ ~Unfinished -> "retire_runtime"
      [] OTHER -> ToRelease(r)
ToCloseout(r) ==
    CASE "grant" \notin r.facts -> "grant"
      [] "grant" \in r.facts /\ "retired" \notin r.facts -> "retire_runtime"
      [] OTHER -> ToRelease(r)

-----------------------------------------------------------------------------
(* How a deletion pass moves.                                               *)

DCalls(d, s) == dat[d] = [step |-> s, phase |-> "call"]

DGoto(d, place) == dat' = [dat EXCEPT ![d] = place]

\* checkpointDeletion counts the consecutive unconfirmed passes of one step.
\* The count stops at the limit, beyond which it decides nothing more.
Counted(r, s, stepKey, confirmed) ==
    LET before == IF r.pending = stepKey THEN r.attempts ELSE 0
        more == IF before < RecoveryLimit THEN before + 1 ELSE before
    IN CASE s \in {"awaiting_confirmation", "needs_attention"}
              -> [r EXCEPT !.pending = stepKey, !.attempts = more]
         [] s = "running" /\ confirmed /\ r.pending = stepKey
              -> [r EXCEPT !.pending = "none", !.attempts = 0]
         [] OTHER -> r

AtLimit(r) == r.attempts >= RecoveryLimit

DReport(d, r, s, stepKey, confirmed, next) ==
    LET c == Counted(r, s, stepKey, confirmed)
        saved == IF s = "awaiting_confirmation" /\ AtLimit(c) THEN "needs_attention" ELSE s
    IN /\ dat' = [dat EXCEPT ![d].phase = "save"]
       /\ dmem' = [dmem EXCEPT ![d].result = c]
       /\ dout' = [dout EXCEPT ![d] = [status |-> saved, next |-> next]]
       /\ UNCHANGED <<launch, drow, dholder>>

Confirm(d, r, stepKey, next) == DReport(d, r, "running", stepKey, TRUE, next)

\* failedDeletionCall: the outcome is unknown and the pass ends.
DAwait(d, stepKey) == DReport(d, dmem[d].result, "awaiting_confirmation", stepKey, FALSE, "end")

DLeave(d) ==
    /\ DGoto(d, DStart("end"))
    /\ dmem' = [dmem EXCEPT ![d] = NoMemory]
    /\ dout' = [dout EXCEPT ![d] = NoOutcome]

DGoOn(d, next) ==
    IF next = "end" THEN DLeave(d)
    ELSE /\ DGoto(d, DStart(next))
         /\ dmem' = [dmem EXCEPT ![d].version = "any"]
         /\ dout' = [dout EXCEPT ![d] = NoOutcome]

DProceed(d, m, place) ==
    /\ DGoto(d, place)
    /\ dmem' = [dmem EXCEPT ![d] = m]
    /\ UNCHANGED <<launch, drow, dholder, dout>>

DHolds(d) == dholder = d /\ deletion \notin Terminal

-----------------------------------------------------------------------------
(* The operation, its lease and its passes.                                 *)

\* One transaction under the Workspace row lock; an open launch is cancelled
\* and loses its lease.
DeleteWorkspace ==
    /\ deletion = "none" /\ status # "none"
    /\ deletion' = "accepted"
    /\ workspace' = "deleting"
    /\ IF status \in Terminal THEN UNCHANGED <<status, holder>>
       ELSE status' = "cancelled" /\ holder' = None
    /\ UNCHANGED <<owners, subscribed, result, pass, closeout, command, dholder, dpass>>

\* RunOnce leaves a deletion that needs attention alone; only a repeated
\* DeleteWorkspace resumes it (replayDeletion).
DLease(d) ==
    /\ dat[d].step = "idle"
    /\ deletion \in {"accepted", "running", "awaiting_confirmation", "needs_attention"}
    /\ dholder = None
    /\ dholder' = d
    /\ DGoto(d, DStart("load"))
    /\ UNCHANGED <<owners, launch, drow, dmem, dout>>

DLoad(d) ==
    /\ dat[d].step = "load"
    /\ DProceed(d, [NoMemory EXCEPT !.result = closeout], DStart(ToCloseout(closeout)))
    /\ UNCHANGED owners

\* A step's input is written by its first begin and never replaced.
DBegin(d) ==
    /\ dat[d].step \in DeletionStep /\ dat[d].phase = "begin"
    /\ IF DHolds(d)
       THEN /\ deletion' = "running"
            /\ dat' = [dat EXCEPT ![d].phase = "call"]
            /\ command' = IF dat[d].step \in {"close_resources", "delete_resources"}
                             /\ command = "none" THEN dmem[d].version ELSE command
            /\ UNCHANGED <<dmem, dout>>
       ELSE UNCHANGED <<deletion, command>> /\ DLeave(d)
    /\ UNCHANGED <<owners, launch, closeout, dholder>>

DCheckpoint(d) ==
    /\ dat[d].phase = "save"
    /\ IF DHolds(d)
       THEN /\ closeout' = dmem[d].result
            /\ deletion' = dout[d].status
            /\ DGoOn(d, dout[d].next)
       ELSE UNCHANGED <<closeout, deletion>> /\ DLeave(d)
    /\ UNCHANGED <<owners, launch, command, dholder>>

DRelease(d) ==
    /\ dat[d].step = "end"
    /\ dholder' = IF dholder = d THEN None ELSE dholder
    /\ DGoto(d, DStart("idle"))
    /\ UNCHANGED <<owners, launch, drow, dmem, dout>>

DTimeOut(d) ==
    /\ dat[d].step \notin {"idle", "end"}
    /\ DLeave(d)
    /\ UNCHANGED <<owners, launch, drow, dholder>>

DCrash(d) ==
    /\ dat[d].step # "idle"
    /\ DGoto(d, DStart("idle"))
    /\ dmem' = [dmem EXCEPT ![d] = NoMemory]
    /\ dout' = [dout EXCEPT ![d] = NoOutcome]
    /\ UNCHANGED <<owners, launch, drow, dholder>>

DLeaseExpires ==
    /\ dholder # None
    /\ dholder' = None
    /\ UNCHANGED <<owners, launch, drow, dpass>>

-----------------------------------------------------------------------------
(* Grant and runtime.                                                       *)

IssueDeletionGrant(d) ==
    /\ DCalls(d, "grant")
    /\ \/ LET r == With(dmem[d].result, "grant") IN Confirm(d, r, "grant", ToCloseout(r))
       \/ DAwait(d, "grant")
    /\ UNCHANGED owners

\* Serve's own confirmed operation is the retirement.
RetireRuntime(d) ==
    /\ DCalls(d, "retire_runtime")
    /\ \E heard \in Answer :
         /\ Ask(Retire, heard)
         /\ LET r == With(dmem[d].result, "retired")
            IN IF heard = "ok" THEN Confirm(d, r, "retire_runtime", ToRelease(r))
               ELSE DAwait(d, "retire_runtime")

-----------------------------------------------------------------------------
(* Resources.                                                               *)

\* The deletion time is frozen with the first confirmed absence. A delivery
\* may have used up its month by then.
Dated(r) ==
    LET dated == With(r, "deleted_at")
    IN IF "deleted_at" \in r.facts THEN {r}
       ELSE {dated} \cup (IF fulfilled THEN {With(dated, "spent")} ELSE {})

Absent(d, r) ==
    \E dated \in Dated(r) : Confirm(d, dated, "read_resources", ToKey(dated))

StillThere(d, r) == DReport(d, r, "awaiting_confirmation", "read_resources", FALSE, "end")

\* The order never learned its resource set: the original command names it.
CloseResources(d) ==
    /\ DCalls(d, "close_resources")
    /\ \E heard \in Answer :
         /\ Ask(LAMBDA a : DeleteResources("any", a), heard)
         /\ IF heard = "ok" THEN DProceed(d, dmem[d], DStart("read_closeout"))
            ELSE DAwait(d, "delete_resources")

ReadCloseout(d) ==
    /\ DCalls(d, "read_closeout")
    /\ \E heard \in Answer :
         /\ Ask(ReadResources, heard)
         /\ LET r == With(dmem[d].result, "released")
            IN CASE heard = "absent" -> Absent(d, r)
                 [] heard = "lost" -> DAwait(d, "read_resources")
                 [] OTHER -> StillThere(d, r)

\* The version is read immediately before the release.
ObserveVersion(d) ==
    /\ DCalls(d, "observe_version")
    /\ \E heard \in Answer :
         /\ Ask(ReadResources, heard)
         /\ IF heard = "lost" THEN DAwait(d, "delete_resources")
            ELSE DProceed(d, [dmem[d] EXCEPT !.version = Version], DStart("delete_resources"))

ReleaseResources(d) ==
    /\ DCalls(d, "delete_resources")
    /\ \E heard \in Answer :
         /\ Ask(LAMBDA a : DeleteResources(dmem[d].version, a), heard)
         /\ LET r == With(dmem[d].result, "released")
            IN IF heard = "ok"
               THEN DReport(d, r, "running", "delete_resources", FALSE, "read_resources")
               ELSE DAwait(d, "delete_resources")

\* Only a readback proves absence. The release is repeated by a later pass.
Faulty_ReadReleased(d) ==
    /\ DCalls(d, "read_resources") \/ DCalls(d, "reread_resources")
    /\ \E heard \in Answer :
         /\ Ask(ReadResources, heard)
         /\ CASE heard \in {"absent", "confirmed"} -> Absent(d, dmem[d].result)
              [] heard = "lost" -> DAwait(d, "read_resources")
              [] OTHER -> IF dat[d].step = "reread_resources"
                          THEN DProceed(d, dmem[d], DStart("resume_release"))
                          ELSE StillThere(d, dmem[d].result)
ReadReleased(d) ==
    /\ DCalls(d, "read_resources") \/ DCalls(d, "reread_resources")
    /\ \E heard \in Answer :
         /\ Ask(ReadResources, heard)
         /\ CASE heard = "absent" -> Absent(d, dmem[d].result)
              [] heard = "lost" -> DAwait(d, "read_resources")
              [] OTHER -> IF dat[d].step = "reread_resources"
                          THEN DProceed(d, dmem[d], DStart("resume_release"))
                          ELSE StillThere(d, dmem[d].result)

\* The replay is the command as the step's input recorded it.
ResumeRelease(d) ==
    /\ DCalls(d, "resume_release")
    /\ \E heard \in Answer :
         /\ Ask(LAMBDA a : DeleteResources(command, a), heard)
         /\ IF heard = "ok" THEN StillThere(d, dmem[d].result) ELSE DAwait(d, "read_resources")

-----------------------------------------------------------------------------
(* Managed key and evidence.                                                *)

NoKey(d) ==
    /\ DCalls(d, "no_key")
    /\ LET r == [dmem[d].result EXCEPT !.key = "not_applicable"]
       IN Confirm(d, r, "disable_managed_key", ToReceipt(r))
    /\ UNCHANGED owners

Faulty_KeyOutcome(heard) == heard
KeyOutcome(heard) ==
    CASE heard = "ok" -> "confirmed"
      [] heard = "absent" -> "not_applicable"
      [] heard = "refused" -> "rejected"
      [] OTHER -> "unknown"

\* The closeout of an unfinished order names the original create command,
\* which makes Gateway close the Workspace first.
DisableKey(d) ==
    /\ DCalls(d, "disable_managed_key")
    /\ \E heard \in Answer :
         /\ Ask(LAMBDA a : IF Unfinished THEN CloseManagedKey(a) ELSE DisableManagedKey(a), heard)
         /\ LET r == [dmem[d].result EXCEPT !.key = KeyOutcome(heard)]
            IN DReport(d, r, "running", "disable_managed_key", heard \in {"ok", "absent"},
                       ToReceipt(r))

DeletionReceipt(d) ==
    /\ DCalls(d, "deletion_receipt")
    /\ \E heard \in Answer :
         /\ Ask(AppendDeletion, heard)
         /\ LET r == With(dmem[d].result, "receipt")
            IN IF heard = "ok" THEN Confirm(d, r, "deletion_receipt", "record_deleted")
               ELSE DAwait(d, "deletion_receipt") \/ DAwait(d, "read_deletion_receipt")

\* One fenced transaction: the result and the Workspace.
RecordDeletedWorkspace(d) ==
    /\ DCalls(d, "record_deleted")
    /\ IF DHolds(d) /\ workspace \in {"deleting", "deleted"}
       THEN /\ closeout' = dmem[d].result
            /\ workspace' = "deleted"
            /\ DGoOn(d, ToSettlement(dmem[d].result))
       ELSE UNCHANGED <<closeout, workspace>> /\ DLeave(d)
    /\ UNCHANGED <<owners, subscribed, status, result, holder, pass, deletion, command, dholder>>

-----------------------------------------------------------------------------
(* Settlement.                                                              *)

\* An unfinished order is settled by what Gateway answers behind its barrier.
\* An open charge is waited for, and the pass goes on to its end.
ReadOriginalCharge(d) ==
    /\ DCalls(d, "read_original_charge")
    /\ \E heard \in Answer :
         /\ Ask(ReadClosedCharge, heard)
         /\ CASE heard \in {"absent", "rejected"}
                   -> DProceed(d, dmem[d], DStart("no_refund"))
              [] heard = "confirmed"
                   -> DProceed(d, dmem[d], DStart("read_original_funding"))
              [] heard = "open"
                   -> DReport(d, dmem[d].result, "awaiting_confirmation", "read_original_charge",
                              FALSE, "complete")
              [] OTHER -> DAwait(d, "read_original_charge")

\* Ledger's receipt of the charge is read. One that Ledger does not have is
\* appended by the launch's own request, in a step the pass must be allowed to
\* begin; to Ledger that append is the read of a receipt it already has.
ReadOriginalFunding(d) ==
    LET missing == "funding" \notin receipts
    IN /\ DCalls(d, "read_original_funding")
       /\ IF missing /\ ~DHolds(d)
          THEN DLeave(d) /\ UNCHANGED <<owners, launch, drow, dholder>>
          ELSE \E heard \in Answer :
                 /\ Ask(AppendFunding, heard)
                 /\ IF heard = "ok"
                    THEN DProceed(d, dmem[d], DStart("read_original_fulfillment"))
                    ELSE \E stepKey \in {"read_original_funding"} \cup
                              (IF missing THEN {"complete_original_funding_receipt"} ELSE {}) :
                           DAwait(d, stepKey)

ReadOriginalFulfillment(d) ==
    /\ DCalls(d, "read_original_fulfillment")
    /\ \E heard \in Answer :
         /\ Ask(ReadRetired, heard)
         /\ IF heard = "terminated"
            THEN DProceed(d, dmem[d], DStart(ToRefund(dmem[d].result)))
            ELSE DAwait(d, "read_original_fulfillment")

NoRefund(d) ==
    /\ DCalls(d, "no_refund")
    /\ Confirm(d, [dmem[d].result EXCEPT !.refund = "not_applicable"],
               "refund_confirmed_deletion", "complete")
    /\ UNCHANGED owners

SettleRefund(d, answer) ==
    LET r == [dmem[d].result EXCEPT !.refund = answer]
        s == CASE answer = "confirmed" -> "running"
               [] answer = "rejected" -> "needs_attention"
               [] answer = "open" -> "awaiting_confirmation"
    IN DReport(d, r, s, "refund_confirmed_deletion", answer = "confirmed", "complete")

IssueRefund(d) ==
    /\ DCalls(d, "refund")
    /\ \E heard \in Answer :
         /\ Ask(Refund, heard)
         /\ IF heard \in Settled \cup {"open"} THEN SettleRefund(d, heard)
            ELSE DAwait(d, "refund_confirmed_deletion")

\* A refund without a terminal answer is read back and not issued again.
Faulty_ReadRefundStep(d) ==
    /\ DCalls(d, "read_refund")
    /\ \E heard \in Answer :
         /\ Ask(ReadRefund, heard)
         /\ IF heard \in Settled \cup {"open"} THEN SettleRefund(d, heard)
            ELSE Confirm(d, [dmem[d].result EXCEPT !.refund = "not_applicable"],
                         "refund_confirmed_deletion", "complete")
ReadRefundStep(d) ==
    /\ DCalls(d, "read_refund")
    /\ \E heard \in Answer :
         /\ Ask(ReadRefund, heard)
         /\ IF heard \in Settled \cup {"open"} THEN SettleRefund(d, heard)
            ELSE DAwait(d, "read_refund_confirmed_deletion")

SettleStored(d) ==
    /\ DCalls(d, "settle_refund")
    /\ SettleRefund(d, dmem[d].result.refund)
    /\ UNCHANGED owners

\* The refused key is looked at first, then the refund, then the unknown key.
CompleteDeletion(d) ==
    LET r == dmem[d].result
    IN /\ DCalls(d, "complete")
       /\ CASE r.key = "rejected"
                 -> DReport(d, r, "needs_attention", "disable_managed_key", FALSE, "end")
            [] r.key # "rejected" /\ r.refund \notin {"confirmed", "not_applicable"}
                 -> DLeave(d) /\ UNCHANGED <<launch, drow, dholder>>
            [] r.key = "unknown" /\ r.refund \in {"confirmed", "not_applicable"}
                 -> DAwait(d, "disable_managed_key")
            [] OTHER
                 -> /\ IF DHolds(d) THEN deletion' = "succeeded" /\ closeout' = r
                       ELSE UNCHANGED <<deletion, closeout>>
                    /\ DLeave(d)
                    /\ UNCHANGED <<launch, command, dholder>>
       /\ UNCHANGED owners

-----------------------------------------------------------------------------
DPass(d) ==
    \/ DLoad(d) \/ DBegin(d) \/ DCheckpoint(d) \/ DRelease(d)
    \/ IssueDeletionGrant(d) \/ RetireRuntime(d)
    \/ CloseResources(d) \/ ReadCloseout(d) \/ ObserveVersion(d) \/ ReleaseResources(d)
    \/ ReadReleased(d) \/ ResumeRelease(d)
    \/ NoKey(d) \/ DisableKey(d) \/ DeletionReceipt(d) \/ RecordDeletedWorkspace(d)
    \/ ReadOriginalCharge(d) \/ ReadOriginalFunding(d) \/ ReadOriginalFulfillment(d)
    \/ NoRefund(d) \/ IssueRefund(d) \/ ReadRefundStep(d) \/ SettleStored(d)
    \/ CompleteDeletion(d)

DeletionNext ==
    \/ LaunchNext /\ UNCHANGED dvars
    \/ DeleteWorkspace
    \/ DLeaseExpires
    \/ \E d \in Deleter : DLease(d) \/ DPass(d) \/ DTimeOut(d) \/ DCrash(d)

DeletionSpec == DeletionInit /\ [][DeletionNext]_allvars

-----------------------------------------------------------------------------
(* Properties.                                                              *)

Gone == ResourcesAbsent /\ runtime \in {"none", "retired"}

\* A deletion that succeeded left nothing behind and nothing can come back,
\* although a cancelled launch may still be calling owners: no resource, no
\* workload, no usable key, and no money kept for a service not rendered.
NothingLeftBehind ==
    deletion = "succeeded" =>
        /\ Gone
        /\ key \in {"none", "refused", "disabled"}
        /\ \/ charge \in {"none", "rejected"} /\ refund = "none"
           \/ charge = "confirmed" /\ refund = "confirmed"
           \/ charge = "confirmed" /\ refund = "none" /\ "spent" \in closeout.facts

\* Money goes back only for a Workspace that is provably gone, recorded as
\* deleted, and with its evidence in Ledger.
RefundAfterAbsence ==
    refund # "none" => Gone /\ "deletion" \in receipts /\ workspace = "deleted"

\* What the deletion says of the money is what the wallet did, whatever
\* answers were lost: in particular a deletion that says nothing was owed
\* never issued a refund in an earlier pass.
SettlementIsTrue ==
    /\ closeout.refund \in Settled => refund = closeout.refund
    /\ closeout.refund = "not_applicable" => refund = "none"
    /\ closeout.key = "confirmed" => key = "disabled"

\* A deletion is final: an accepted one keeps the Workspace from being active
\* again, and a recorded one is never taken back.
DeletionIsFinal ==
    [][/\ workspace = "deleted" => workspace' = "deleted"
       /\ workspace = "deleting" => workspace' \in {"deleting", "deleted"}
       /\ closeout.facts \subseteq closeout'.facts
       /\ closeout.refund \in Settled => closeout'.refund = closeout.refund]_allvars

-----------------------------------------------------------------------------
(* The order as its customer sees it.                                       *)

\* A resource intent holds nothing yet, and a start that was only recorded runs
\* nothing; both are gone when nothing can bring them back.
Held == IF ResourcesAbsent THEN "gone"
        ELSE IF set \in {"none", "intended"} THEN "none" ELSE "held"
Workload == IF retiring /\ runtime \in {"none", "retired"} THEN "gone"
            ELSE IF runtime \in Started \ {"accepted"} THEN "started" ELSE "none"
Funded == "funding" \in receipts
Attested == "deletion" \in receipts
Closed == deletion = "succeeded"

Contract == INSTANCE WorkspaceOrder WITH
    terms <- order, standing <- workspace, offer <- quote, funded <- Funded, resources <- Held,
    workload <- Workload, delivered <- fulfilled, attested <- Attested, closed <- Closed

\* The two operations together keep the contract of WorkspaceOrder, however
\* their passes are interrupted, repeated and overtaken: each change of the
\* owners is the next step of one order that is paid for before it costs,
\* delivered before it is entitled, stopped before it is emptied, emptied and
\* attested before it is erased, and erased before it is refunded.
KeepsContract == Contract!Spec
=============================================================================

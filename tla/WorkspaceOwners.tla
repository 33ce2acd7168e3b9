--------------------------- MODULE WorkspaceOwners ---------------------------
(***************************************************************************)
(* The owners a Workspace order depends on, as the Workspace service meets *)
(* them: Catalog, Gateway (charge, refund, managed key), Ledger, Fabric    *)
(* and Serve. Each keeps its own database, so each operation below is one   *)
(* atomic step of one owner: what the call does there and, as parameter,    *)
(* what the owner answers. An owner serialises the calls about one          *)
(* Workspace with an advisory lock held over its checks and effects.        *)
(*                                                                          *)
(* One order of one Workspace is modelled. The wallet rows are reduced to   *)
(* what GatewayWallet shows of them: a definite answer is true, and an      *)
(* indefinite one ("open") can be given at any time.                        *)
(***************************************************************************)

VARIABLES
    order,      \* the order: is it paid, does its application declare a key
    quote,      \* Catalog: the quote the order names
    charge,     \* Gateway: the order's charge
    refund,     \* Gateway: the refund of that charge
    key,        \* Gateway: the managed key of the Workspace
    closing,    \* Gateway: the "close:<workspace>" barrier
    receipts,   \* Ledger: receipts recorded for the Workspace
    set,        \* Fabric: the resource set
    releasing,  \* Fabric: a resource_delete operation exists
    runtime,    \* Serve: the application runtime
    retiring,   \* Serve: a runtime_retire operation or terminate action exists
    fulfilled   \* Serve: activated_at of the deployment is set

gateway == <<charge, refund, key, closing>>
fabric == <<set, releasing>>
serve == <<runtime, retiring, fulfilled>>
owners == <<order, quote, gateway, receipts, fabric, serve>>

Money == {"none", "open", "confirmed", "rejected"}
Settled == {"confirmed", "rejected"}
Started == {"accepted", "starting", "ready", "failed", "stopped"}

OwnersTypeOK ==
    /\ order \in [paid : BOOLEAN, keyed : BOOLEAN]
    /\ quote \in {"offered", "accepted", "expired"}
    /\ charge \in Money
    /\ refund \in Money
    /\ key \in {"none", "pending", "issued", "refused", "disabled"}
    /\ closing \in BOOLEAN
    /\ receipts \subseteq {"funding", "deletion"}
    /\ set \in {"none", "intended", "partial", "provisioned", "absent"}
    /\ releasing \in BOOLEAN
    /\ runtime \in {"none", "reserved", "retired"} \cup Started
    /\ retiring \in BOOLEAN
    /\ fulfilled \in BOOLEAN

OwnersInit ==
    /\ order \in [paid : BOOLEAN, keyed : BOOLEAN]
    /\ quote = "offered"
    /\ charge = "none" /\ refund = "none" /\ key = "none" /\ closing = FALSE
    /\ receipts = {}
    /\ set = "none" /\ releasing = FALSE
    /\ runtime = "none" /\ retiring = FALSE /\ fulfilled = FALSE

-----------------------------------------------------------------------------
(* What a caller can hear. "lost" is any answer that decides nothing: the   *)
(* call never arrived, or its effect happened and the answer did not.       *)

Answer == {"ok", "refused", "denied", "lost", "absent", "open", "confirmed", "rejected",
           "unknown", "unstarted", "starting", "ready", "failed", "terminated"}

Ask(Operation(_), heard) ==
    \/ Operation(heard)
    \/ heard = "lost" /\ \E a \in Answer : Operation(a)
    \/ heard = "lost" /\ UNCHANGED owners

-----------------------------------------------------------------------------
(* Catalog.                                                                 *)

\* A quote is accepted once, and every replay returns that acceptance.
AcceptQuote(a) ==
    /\ IF quote = "offered" THEN quote' \in {"accepted", "expired"} ELSE quote' = quote
    /\ a = IF quote' = "accepted" THEN "ok" ELSE "refused"
    /\ UNCHANGED <<order, gateway, receipts, fabric, serve>>

-----------------------------------------------------------------------------
(* Gateway: money. GatewayWallet models these handlers in full.             *)

\* The closing barrier refuses every charge, replays included. Otherwise the
\* first command decides the charge, and a replay answers from its row.
Debit(a) ==
    /\ \/ closing /\ charge' = charge /\ a = "refused"
       \/ /\ ~closing /\ charge = "none"
          /\ charge' \in Money \ {"none"}
          /\ a \in {"open", charge'}
       \/ ~closing /\ charge # "none" /\ charge' = charge /\ a \in {"open", charge}
       \/ ~closing /\ charge = "none" /\ charge' = charge /\ a = "refused"
    /\ UNCHANGED <<order, quote, refund, key, closing, receipts, fabric, serve>>

\* The read of one row: not found, or its status, or an answer that is open.
WalletAnswers(status) == IF status = "none" THEN {"absent"} ELSE {"open", status}

ReadCharge(a) == a \in WalletAnswers(charge) /\ UNCHANGED owners
ReadRefund(a) == a \in WalletAnswers(refund) /\ UNCHANGED owners

\* With ConfirmClosedAbsence nothing is answered before the barrier exists.
ReadClosedCharge(a) ==
    /\ IF closing THEN a \in WalletAnswers(charge) ELSE a = "lost"
    /\ UNCHANGED owners

Refund(a) ==
    /\ \/ charge # "confirmed" /\ refund' = refund /\ a = "refused"
       \/ /\ charge = "confirmed" /\ refund = "none"
          /\ refund' \in Money \ {"none"}
          /\ a \in {"open", refund'}
       \/ charge = "confirmed" /\ refund # "none" /\ refund' = refund /\ a \in {"open", refund}
    /\ UNCHANGED <<order, quote, charge, key, closing, receipts, fabric, serve>>

\* An adjustment whose answer was indefinite turns out one way or the other.
WalletDecides ==
    /\ \/ charge = "open" /\ charge' \in Settled /\ refund' = refund
       \/ refund = "open" /\ refund' \in Settled /\ charge' = charge
    /\ UNCHANGED <<order, quote, key, closing, receipts, fabric, serve>>

-----------------------------------------------------------------------------
(* Gateway: the managed key.                                                *)

\* One original command per Workspace: pending until the issuer's answer is
\* known, then confirmed or refused, and replayed from its journal entry.
CreateManagedKey(a) ==
    /\ key' \in IF ~closing /\ key \in {"none", "pending"} THEN {"pending", "issued", "refused"}
                ELSE {key}
    /\ a = CASE closing -> "refused"
             [] ~closing /\ key' = "pending" -> "lost"
             [] ~closing /\ key' = "refused" -> "refused"
             [] OTHER -> "ok"
    /\ UNCHANGED <<order, quote, charge, refund, closing, receipts, fabric, serve>>

\* DisableManagedKey of a known binding; the issuer may refuse.
DisableManagedKey(a) ==
    /\ \/ key \in {"issued", "disabled"} /\ key' = "disabled" /\ a = "ok"
       \/ key' = key /\ a = "refused"
    /\ UNCHANGED <<order, quote, charge, refund, closing, receipts, fabric, serve>>

\* DisableManagedKey by the original create command: the barrier is written
\* first, then the journal entry of that command decides the answer.
CloseManagedKey(a) ==
    /\ \/ /\ closing' = TRUE
          /\ \/ key \in {"none", "refused"} /\ key' = key /\ a = "absent"
             \/ key = "pending" /\ key' = key /\ a = "lost"
             \/ key \in {"issued", "disabled"} /\ key' = "disabled" /\ a = "ok"
             \/ key \in {"issued", "disabled"} /\ key' = key /\ a = "refused"
       \/ closing' = closing /\ key' = key /\ a = "refused"
    /\ UNCHANGED <<order, quote, charge, refund, receipts, fabric, serve>>

-----------------------------------------------------------------------------
(* Ledger.                                                                  *)

\* The funding receipt: for a paid order Ledger reads the charge at Gateway
\* itself; a Local order's receipt is bound to its accepted quote.
AppendFunding(a) ==
    /\ IF order.paid => charge = "confirmed"
       THEN receipts' = receipts \cup {"funding"} /\ a = "ok"
       ELSE receipts' = receipts /\ a = "refused"
    /\ UNCHANGED <<order, quote, gateway, fabric, serve>>

AppendDeletion(a) ==
    /\ receipts' = receipts \cup {"deletion"}
    /\ a = "ok"
    /\ UNCHANGED <<order, quote, gateway, fabric, serve>>

-----------------------------------------------------------------------------
(* Fabric.                                                                  *)

\* The intent is recorded by the first call. The provider is reached only by
\* a call that names a receipt Ledger confirms; it may leave resources behind
\* without an answer ("partial"). A recorded deletion refuses both.
MayDispatch(receipt) == receipt /\ "funding" \in receipts

EnsureResources(receipt, a) ==
    /\ \/ releasing /\ set' = set /\ a = "refused"
       \/ set' = set /\ a = "denied"
       \/ /\ ~releasing /\ a = "ok"
          /\ set' \in IF set = "none" THEN {"intended"}
                      ELSE IF set \in {"intended", "partial"} /\ MayDispatch(receipt)
                      THEN {set, "partial", "provisioned"} ELSE {set}
    /\ UNCHANGED <<order, quote, gateway, receipts, releasing, serve>>

\* Absence is answered only from evidence: every resource of a confirmed set
\* read back as gone, or a closeout that found no set and bars a later one.
ResourcesAbsent == set = "absent" \/ (set = "none" /\ releasing)

ReadResources(a) ==
    /\ a = CASE ResourcesAbsent -> "absent"
             [] set = "provisioned" -> "confirmed"
             [] OTHER -> "unknown"
    /\ UNCHANGED owners

\* resource_sets.updated_at: it moves when the provision is confirmed.
Version == IF set \in {"intended", "partial"} THEN "v0" ELSE "v1"

\* A command that names a version is refused when the set has changed since.
\* The recorded deletion is the barrier, and a replay of it continues it. Only
\* a set with confirmed execution evidence can be released.
DeleteResources(version, a) ==
    /\ IF version \in {"any", Version}
       THEN /\ releasing' = TRUE
            /\ set' \in IF set = "provisioned" THEN {"provisioned", "absent"} ELSE {set}
            /\ a = "ok"
       ELSE UNCHANGED fabric /\ a = "refused"
    /\ UNCHANGED <<order, quote, gateway, receipts, serve>>

-----------------------------------------------------------------------------
(* Serve.                                                                   *)

Reserve(a) ==
    /\ \/ retiring /\ runtime' = runtime /\ a = "refused"
       \/ ~retiring /\ runtime' = (IF runtime = "none" THEN "reserved" ELSE runtime) /\ a = "ok"
    /\ UNCHANGED <<order, quote, gateway, receipts, fabric, retiring, fulfilled>>

\* What the execution adapter reports of a started workload; "stopped" is a
\* workload that is not there.
Observe ==
    /\ runtime' \in {"starting", "ready", "failed", "stopped"}
    /\ fulfilled' = (fulfilled \/ runtime' = "ready")

\* The start command is recorded before the provider is asked; both happen
\* under the Workspace lock, which a retirement closes. A fulfilled delivery
\* is acknowledged and not started again.
Deploy(a) ==
    /\ \/ retiring /\ UNCHANGED <<runtime, fulfilled>> /\ a = "refused"
       \/ ~retiring /\ fulfilled /\ UNCHANGED <<runtime, fulfilled>> /\ a = "ok"
       \/ ~retiring /\ ~fulfilled /\ set = "provisioned" /\ Observe /\ a = "ok"
       \/ /\ ~retiring /\ ~fulfilled
          /\ runtime' = IF runtime = "reserved" THEN "accepted" ELSE runtime
          /\ UNCHANGED fulfilled /\ a = "refused"
    /\ UNCHANGED <<order, quote, gateway, receipts, fabric, retiring>>

\* How a readback is understood: "unstarted" is a delivery never fulfilled and
\* not retired whose workload is pending or absent.
RuntimeAnswer(r, done) ==
    CASE r \in {"reserved", "accepted"} -> "unstarted"
      [] r = "stopped" -> IF done THEN "terminated" ELSE "unstarted"
      [] r = "retired" -> "terminated"
      [] OTHER -> r

\* A read of a started runtime observes it again, unless it is retiring.
ReadRuntime(a) ==
    /\ \/ /\ retiring \/ runtime = "reserved"
          /\ UNCHANGED <<runtime, fulfilled>>
          /\ a = RuntimeAnswer(runtime, fulfilled)
       \/ /\ ~retiring /\ runtime \in Started /\ set = "provisioned"
          /\ Observe
          /\ a = RuntimeAnswer(runtime', fulfilled')
    /\ UNCHANGED <<order, quote, gateway, receipts, fabric, retiring>>

\* Retirement is recorded before the provider is asked; it is confirmed once
\* the workload is gone, or at once when nothing was ever started.
Retire(a) ==
    /\ retiring' = TRUE
    /\ runtime' \in IF runtime \in Started THEN {runtime, "retired"}
                    ELSE IF runtime = "none" THEN {"none"} ELSE {"retired"}
    /\ a = IF runtime' \in Started THEN "lost" ELSE "ok"
    /\ UNCHANGED <<order, quote, gateway, receipts, fabric, fulfilled>>

\* The closed delivery, with its first fulfilment or the proof there was none.
ReadRetired(a) ==
    /\ a = IF retiring /\ runtime \in {"none", "retired"} THEN "terminated" ELSE "unknown"
    /\ UNCHANGED owners
=============================================================================

---------------------------- MODULE GatewayWallet ----------------------------
(***************************************************************************)
(* The wallet half of the Gateway Integration owner: the handlers Debit,    *)
(* Refund, ReadWalletAction and the closeout half of DisableManagedKey      *)
(* (services/gateway-integration/identity), the rows they keep in           *)
(* gateway.wallet_operations, and the external Sub2API wallet they adjust.  *)
(*                                                                          *)
(* Handlers run concurrently: every database transaction, every call of     *)
(* the wallet and every use of a value read earlier is a step of its own.   *)
(* The model holds one Tenant and one Workspace; authorisation refusals     *)
(* return before any state is touched and are left out.                     *)
(***************************************************************************)
EXTENDS Naturals, FiniteSets, FiniteSetsExt

CONSTANTS
    Handler,    \* requests the server may be executing at one time
    ChargeKey,  \* business idempotency keys of Debit commands
    RefundKey,  \* business idempotency keys of Refund commands
    Binding,    \* ids of tenant wallet bindings
    Amount,     \* positive amounts, in micros
    None,       \* absence of a row, a binding or a lock holder
    MaxFault    \* bound: abandoned requests (crash, deadline, lost connection)

Key == ChargeKey \cup RefundKey

ASSUME WalletKeysDisjoint == ChargeKey \cap RefundKey = {}
ASSUME WalletAmounts == Amount \subseteq Nat \ {0}
ASSUME WalletNone == None \notin Key \cup Binding \cup Handler
ASSUME WalletFaults == MaxFault \in Nat

VARIABLES
    row,      \* gateway.wallet_operations by business key
    binding,  \* gateway.tenant_wallet_bindings: "new", "active" or "revoked"
    closing,  \* the DisableManagedKey "close:<workspace>" journal entry exists
    guard,    \* holder of the advisory lock gateway.workspace_key
    pc,       \* the next step of each handler
    req,      \* the request it executes
    bnd,      \* the binding it has read
    verdict,  \* the status it is about to settle
    native,   \* the external wallet, per business code
    told,     \* the last definite answer a caller received, per key
    faults    \* abandoned requests so far

vars == <<row, binding, closing, guard, pc, req, bnd, verdict, native, told, faults>>
local == <<req, bnd, verdict>>

-----------------------------------------------------------------------------
(* State.                                                                   *)

Terminal == {"confirmed", "rejected"}
Status == {"requested", "unknown"} \cup Terminal

\* One row of gateway.wallet_operations. amount and original are what the
\* request fingerprint tells apart; the id is a digest of the business key.
WalletRecord == [status : Status, amount : Amount, original : ChargeKey \cup {None},
                 binding : Binding]

\* The upstream per code: POSTs dispatched, balance changes made, refusals and
\* audit records written, with the wallet and amount the POSTs carried.
NativeRecord == [sent : Nat, applied : Nat, refused : Nat, audited : Nat,
                 wallet : Binding \cup {None}, amount : Amount \cup {0}]

ASSUME WalletRowPresent == None \notin WalletRecord

Step == {"idle", "lock", "fence", "bind", "reserve", "dispatch", "await", "confirm",
         "settle", "readback", "reconcile", "readfence", "lookup", "others", "finish"}

Call == {"none", "charge", "refund", "read", "closedRead", "close"}

NoRequest == [call |-> "none", key |-> None, original |-> None, amount |-> 0]
Requests == [call : Call, key : Key \cup {None}, original : ChargeKey \cup {None},
             amount : Amount \cup {0}]

Answer == {"none", "absent"} \cup Terminal

TypeOK ==
    /\ row \in [Key -> WalletRecord \cup {None}]
    /\ binding \in [Binding -> {"new", "active", "revoked"}]
    /\ closing \in BOOLEAN
    /\ guard \in Handler \cup {None}
    /\ pc \in [Handler -> Step]
    /\ req \in [Handler -> Requests]
    /\ bnd \in [Handler -> Binding \cup {None}]
    /\ verdict \in [Handler -> {"unknown"} \cup Terminal]
    /\ native \in [Key -> NativeRecord]
    /\ told \in [Key -> Answer]
    /\ faults \in 0 .. MaxFault

Init ==
    /\ row = [k \in Key |-> None]
    /\ binding = [b \in Binding |-> "new"]
    /\ closing = FALSE
    /\ guard = None
    /\ pc = [h \in Handler |-> "idle"]
    /\ req = [h \in Handler |-> NoRequest]
    /\ bnd = [h \in Handler |-> None]
    /\ verdict = [h \in Handler |-> "unknown"]
    /\ native = [k \in Key |-> [sent |-> 0, applied |-> 0, refused |-> 0, audited |-> 0,
                                wallet |-> None, amount |-> 0]]
    /\ told = [k \in Key |-> "none"]
    /\ faults = 0

-----------------------------------------------------------------------------
(* Shared pieces of the handlers.                                           *)

At(h, step) == pc[h] = step
Goto(h, step) == pc' = [pc EXCEPT ![h] = step]

\* The handler returns; defer guard.Rollback() frees the advisory lock.
Return(h) ==
    /\ Goto(h, "idle")
    /\ req' = [req EXCEPT ![h] = NoRequest]
    /\ bnd' = [bnd EXCEPT ![h] = None]
    /\ verdict' = [verdict EXCEPT ![h] = "unknown"]
    /\ guard' = IF guard = h THEN None ELSE guard

\* The handler goes on, keeping what it holds; or with a binding or a verdict.
Proceed(h, step) == Goto(h, step) /\ UNCHANGED <<local, guard>>
ProceedWith(h, step, b) ==
    Goto(h, step) /\ bnd' = [bnd EXCEPT ![h] = b] /\ UNCHANGED <<req, verdict, guard>>
SettleAs(h, v) ==
    Goto(h, "settle") /\ verdict' = [verdict EXCEPT ![h] = v] /\ UNCHANGED <<req, bnd, guard>>
Start(h, step, r) ==
    /\ At(h, "idle")
    /\ Goto(h, step)
    /\ req' = [req EXCEPT ![h] = r]
    /\ UNCHANGED <<row, binding, closing, guard, bnd, verdict, native, told, faults>>

\* A terminal row is the answer; any other row tells the caller nothing final.
Tell(k, status) == told' = [told EXCEPT ![k] = IF status \in Terminal THEN status ELSE @]

Refunds(orig) == {r \in RefundKey : row[r] # None /\ row[r].original = orig}

\* SUM(amount_usd_micros) of the refunds of one charge that are not rejected.
Reserved(orig) ==
    MapThenSumSet(LAMBDA r : row[r].amount,
                  {r \in Refunds(orig) : row[r].status # "rejected"})

-----------------------------------------------------------------------------
(* BindWalletBinding: one transaction under the tenant's advisory lock. The *)
(* version is the number of rows; a stale expected version writes nothing,  *)
(* and a replay of the active binding answers without a write.              *)

BindingVersion == Cardinality({b \in Binding : binding[b] # "new"})

BindWallet(b, expectedVersion) ==
    /\ binding[b] = "new"
    /\ expectedVersion = BindingVersion
    /\ binding' = [c \in Binding |-> IF c = b THEN "active"
                                     ELSE IF binding[c] = "active" THEN "revoked"
                                     ELSE binding[c]]
    /\ UNCHANGED <<row, closing, guard, pc, local, native, told, faults>>

-----------------------------------------------------------------------------
(* walletAction: Debit and Refund.                                          *)

Debit(h, k, a) ==
    Start(h, "lock", [call |-> "charge", key |-> k, original |-> None, amount |-> a])

Refund(h, k, orig, a) ==
    Start(h, "bind", [call |-> "refund", key |-> k, original |-> orig, amount |-> a])

\* guardWorkspaceKey: pg_try_advisory_xact_lock, refused at once when held.
GuardWorkspaceKey(h) ==
    /\ At(h, "lock")
    /\ \/ guard = None /\ guard' = h /\ Goto(h, "fence") /\ UNCHANGED local
       \/ guard # None /\ Return(h)
    /\ UNCHANGED <<row, binding, closing, native, told, faults>>

\* workspaceKeyClosing, read inside the guard by a charge.
Faulty_CheckClosing(h) ==
    /\ At(h, "fence")
    /\ req[h].call = "charge"
    /\ Proceed(h, "bind")
    /\ UNCHANGED <<row, binding, closing, native, told, faults>>
CheckClosing(h) ==
    /\ At(h, "fence")
    /\ req[h].call = "charge"
    /\ IF closing THEN Return(h) ELSE Proceed(h, "bind")
    /\ UNCHANGED <<row, binding, closing, native, told, faults>>

\* The wallet a refund goes back to: the binding recorded with its original.
Faulty_PayerBinding(orig) == CHOOSE b \in Binding : binding[b] = "active"
PayerBinding(orig) == row[orig].binding

\* A charge uses the active binding, a refund the binding of its original row;
\* without one the command is refused.
UsableBindings(h) ==
    IF req[h].call = "charge" THEN {b \in Binding : binding[b] = "active"}
    ELSE {b \in Binding : row[req[h].original] # None /\ b = PayerBinding(req[h].original)}

Faulty_ReadBinding(h) ==
    /\ At(h, "bind")
    /\ \E b \in Binding \cup {None} :
          /\ UsableBindings(h) # {} => b \in UsableBindings(h)
          /\ ProceedWith(h, "reserve", b)
    /\ UNCHANGED <<row, binding, closing, native, told, faults>>
ReadBinding(h) ==
    /\ At(h, "bind")
    /\ \/ UsableBindings(h) = {} /\ Return(h)
       \/ \E b \in UsableBindings(h) : ProceedWith(h, "reserve", b)
    /\ UNCHANGED <<row, binding, closing, native, told, faults>>

\* The original of a refund must be a confirmed charge that still covers it.
Faulty_RefundAllowed(orig, a) ==
    row[orig] # None /\ row[orig].status = "confirmed" /\ a <= row[orig].amount
RefundAllowed(orig, a) ==
    /\ row[orig] # None
    /\ row[orig].status = "confirmed"
    /\ a + Reserved(orig) <= row[orig].amount

\* ReserveWalletOperation finds no row: it refuses the refund, or inserts the
\* row, a refund's under the binding of its original.
ReserveNew(h) ==
    LET k == req[h].key
        b == IF req[h].call = "refund" THEN PayerBinding(req[h].original) ELSE bnd[h]
    IN
    /\ At(h, "reserve")
    /\ row[k] = None
    /\ \/ /\ req[h].call = "refund" => RefundAllowed(req[h].original, req[h].amount)
          /\ row' = [row EXCEPT ![k] =
                       [status |-> "requested", amount |-> req[h].amount,
                        original |-> req[h].original, binding |-> b]]
          /\ ProceedWith(h, "dispatch", b)
       \/ /\ req[h].call = "refund" /\ ~RefundAllowed(req[h].original, req[h].amount)
          /\ Return(h)
          /\ UNCHANGED row
    /\ UNCHANGED <<binding, closing, native, told, faults>>

SameCommand(h) ==
    /\ row[req[h].key].amount = req[h].amount
    /\ row[req[h].key].original = req[h].original

\* ReserveWalletOperation finds the row of an earlier command: another command
\* is refused, a terminal row is the answer, and any other row is resolved from
\* the native history under the binding recorded with it.
Faulty_ReserveExisting(h) ==
    /\ At(h, "reserve")
    /\ row[req[h].key] # None
    /\ IF SameCommand(h) /\ row[req[h].key].status \notin Terminal
       THEN Proceed(h, "dispatch")
       ELSE Return(h)
    /\ UNCHANGED <<row, binding, closing, native, told, faults>>
ReserveExisting(h) ==
    LET k == req[h].key IN
    /\ At(h, "reserve")
    /\ row[k] # None
    /\ \/ ~SameCommand(h) /\ Return(h) /\ UNCHANGED told
       \/ SameCommand(h) /\ row[k].status \in Terminal /\ Return(h) /\ Tell(k, row[k].status)
       \/ /\ SameCommand(h) /\ row[k].status \notin Terminal
          /\ ProceedWith(h, "reconcile", row[k].binding)
          /\ UNCHANGED told
    /\ UNCHANGED <<row, binding, closing, native, faults>>

\* AdjustBalance up to its POST: an unrepresentable amount, a rebate policy or
\* a missing directory token ends it before anything is sent; a binding whose
\* subject is no user id ends the request with the row still requested.
AdjustRefusedLocally(h) ==
    /\ At(h, "dispatch")
    /\ SettleAs(h, "rejected") \/ Return(h)
    /\ UNCHANGED <<row, binding, closing, native, told, faults>>

\* The single POST of AdjustBalance leaves for the upstream.
AdjustBalance(h) ==
    LET k == req[h].key IN
    /\ At(h, "dispatch")
    /\ native' = [native EXCEPT ![k] =
                    [sent |-> @.sent + 1, applied |-> @.applied, refused |-> @.refused,
                     audited |-> @.audited, wallet |-> bnd[h], amount |-> req[h].amount]]
    /\ Proceed(h, "await")
    /\ UNCHANGED <<row, binding, closing, told, faults>>

\* The answer of the POST: success, a definite 4xx, or nothing definite (a
\* transport error, a 5xx or 429, a response naming another user).
AdjustAnswered(h) ==
    LET k == req[h].key IN
    /\ At(h, "await")
    /\ \/ native[k].applied > 0 /\ Proceed(h, "confirm")
       \/ native[k].refused > 0 /\ SettleAs(h, "rejected")
       \/ SettleAs(h, "unknown")
    /\ UNCHANGED <<row, binding, closing, native, told, faults>>

\* PositiveBalanceHistoryByCodes shows an audit record of the row's amount.
HistoryConfirms(k) == native[k].audited > 0 /\ native[k].amount = row[k].amount

\* confirmWalletOperation: the POST succeeded, and only the native history
\* confirms it; a record not visible yet is recorded as unknown.
ConfirmWalletOperation(h) ==
    /\ At(h, "confirm")
    /\ SettleAs(h, IF HistoryConfirms(req[h].key) THEN "confirmed" ELSE "unknown")
    /\ UNCHANGED <<row, binding, closing, native, told, faults>>

\* reconcileWalletOperation: the history confirms the row or leaves it open.
ReconcileWalletOperation(h) ==
    /\ At(h, "reconcile")
    /\ IF HistoryConfirms(req[h].key) THEN SettleAs(h, "confirmed") ELSE Return(h)
    /\ UNCHANGED <<row, binding, closing, native, told, faults>>

\* SettleWalletOperation: UPDATE ... WHERE id = $1, whatever the row holds by
\* now.
SettleWalletOperation(h) ==
    /\ At(h, "settle")
    /\ row' = [row EXCEPT ![req[h].key].status = verdict[h]]
    /\ Proceed(h, "readback")
    /\ UNCHANGED <<binding, closing, native, told, faults>>

\* gatewayStoreRead: the caller gets the row as another statement finds it.
GatewayStoreRead(h) ==
    /\ At(h, "readback")
    /\ Tell(req[h].key, row[req[h].key].status)
    /\ Return(h)
    /\ UNCHANGED <<row, binding, closing, native, faults>>

-----------------------------------------------------------------------------
(* ReadWalletAction, with and without ConfirmClosedAbsence.                 *)

ReadWalletAction(h, k, closed) ==
    /\ closed => k \in ChargeKey
    /\ Start(h, IF closed THEN "readfence" ELSE "lookup",
             [call |-> IF closed THEN "closedRead" ELSE "read", key |-> k,
              original |-> None, amount |-> 0])

ReadFence(h) ==
    /\ At(h, "readfence")
    /\ IF closing THEN Proceed(h, "lookup") ELSE Return(h)
    /\ UNCHANGED <<row, binding, closing, native, told, faults>>

Faulty_LookupWalletOperation(h) ==
    LET k == req[h].key IN
    /\ At(h, "lookup")
    /\ IF row[k] # None /\ row[k].status = "requested"
       THEN ProceedWith(h, "reconcile", row[k].binding)
       ELSE Return(h)
    /\ UNCHANGED <<row, binding, closing, native, told, faults>>
LookupWalletOperation(h) ==
    LET k == req[h].key IN
    /\ At(h, "lookup")
    /\ \/ /\ row[k] = None
          /\ IF req[h].call = "closedRead" THEN Proceed(h, "others") ELSE Return(h)
          /\ UNCHANGED told
       \/ /\ row[k] # None /\ row[k].status \in Terminal
          /\ Return(h)
          /\ Tell(k, row[k].status)
       \/ /\ row[k] # None /\ row[k].status \notin Terminal
          /\ ProceedWith(h, "reconcile", row[k].binding)
          /\ UNCHANGED told
    /\ UNCHANGED <<row, binding, closing, native, faults>>

\* No row under the original key of a closed Workspace: unless some other
\* charge of the Workspace exists, the caller is told that none ever will.
ConfirmAbsence(h) ==
    /\ At(h, "others")
    /\ Return(h)
    /\ told' = IF \E c \in ChargeKey : row[c] # None THEN told
               ELSE [told EXCEPT ![req[h].key] = "absent"]
    /\ UNCHANGED <<row, binding, closing, native, faults>>

-----------------------------------------------------------------------------
(* closeWorkspaceManagedKey, up to its fence: guard, journal entry, return. *)
(* What it then does to the key itself does not touch the wallet.           *)

CloseWorkspace(h) ==
    Start(h, "lock", [call |-> "close", key |-> None, original |-> None, amount |-> 0])

FenceWorkspaceKey(h) ==
    /\ At(h, "fence")
    /\ req[h].call = "close"
    /\ closing' = TRUE
    /\ Proceed(h, "finish")
    /\ UNCHANGED <<row, binding, native, told, faults>>

FinishClose(h) ==
    /\ At(h, "finish")
    /\ Return(h)
    /\ UNCHANGED <<row, binding, closing, native, told, faults>>

\* A crash, an expired deadline or a failing database or history read ends the
\* request: its transactions roll back, and a POST already sent stays sent.
Abandon(h) ==
    /\ ~At(h, "idle")
    /\ faults < MaxFault
    /\ faults' = faults + 1
    /\ Return(h)
    /\ UNCHANGED <<row, binding, closing, native, told>>

-----------------------------------------------------------------------------
(* The external wallet (Sub2API): it changes the balance once per POST or   *)
(* refuses it, and writes the audit record after the balance.               *)

Pending(k) == native[k].applied + native[k].refused < native[k].sent

UpstreamApply(k) ==
    /\ Pending(k)
    /\ native' = [native EXCEPT ![k].applied = @ + 1]
    /\ UNCHANGED <<row, binding, closing, guard, pc, local, told, faults>>

UpstreamRefuse(k) ==
    /\ Pending(k)
    /\ native' = [native EXCEPT ![k].refused = @ + 1]
    /\ UNCHANGED <<row, binding, closing, guard, pc, local, told, faults>>

UpstreamAudit(k) ==
    /\ native[k].audited < native[k].applied
    /\ native' = [native EXCEPT ![k].audited = @ + 1]
    /\ UNCHANGED <<row, binding, closing, guard, pc, local, told, faults>>

-----------------------------------------------------------------------------
HandlerStep(h) ==
    \/ GuardWorkspaceKey(h) \/ CheckClosing(h) \/ ReadBinding(h)
    \/ ReserveNew(h) \/ ReserveExisting(h)
    \/ AdjustRefusedLocally(h) \/ AdjustBalance(h) \/ AdjustAnswered(h)
    \/ ConfirmWalletOperation(h) \/ ReconcileWalletOperation(h)
    \/ SettleWalletOperation(h) \/ GatewayStoreRead(h)
    \/ ReadFence(h) \/ LookupWalletOperation(h) \/ ConfirmAbsence(h)
    \/ FenceWorkspaceKey(h) \/ FinishClose(h)

Request(h) ==
    \/ \E k \in ChargeKey, a \in Amount : Debit(h, k, a)
    \/ \E k \in RefundKey, orig \in ChargeKey, a \in Amount : Refund(h, k, orig, a)
    \/ \E k \in Key, closed \in BOOLEAN : ReadWalletAction(h, k, closed)
    \/ CloseWorkspace(h)

Upstream(k) == UpstreamApply(k) \/ UpstreamRefuse(k) \/ UpstreamAudit(k)

Next ==
    \/ \E b \in Binding, v \in 0 .. Cardinality(Binding) : BindWallet(b, v)
    \/ \E h \in Handler : Request(h) \/ HandlerStep(h) \/ Abandon(h)
    \/ \E k \in Key : Upstream(k)

Spec == Init /\ [][Next]_vars
\* Callers keep polling: the Workspace worker reads an unsettled charge or
\* refund back on every pass, and every request ends by its deadline. A real
\* server has no bound on concurrent requests, hence strong fairness of the
\* read's start; the upstream owes nothing but the audit of what it applied.
Fairness ==
    /\ \A h \in Handler : WF_vars(HandlerStep(h))
    /\ \A k \in Key : SF_vars(\E h \in Handler : ReadWalletAction(h, k, FALSE))
    /\ \A k \in Key : WF_vars(UpstreamAudit(k))

FairSpec == Spec /\ Fairness

-----------------------------------------------------------------------------
(* Properties.                                                              *)

\* "Debit issues at most one charge for an accepted Workspace obligation":
\* however often a command is retried, abandoned or raced by another worker,
\* one business key puts at most one POST on the wire.
OneAdjustmentPerKey == \A k \in Key : native[k].sent <= 1

\* What a caller was told about money is true and stays true: confirmed means
\* the balance changed by the recorded amount; rejected means that it did not
\* and that no POST is left that still could; absent means that no charge was
\* ever sent for the closed Workspace.
AnswersStayTrue ==
    \A k \in Key :
        /\ told[k] = "confirmed" =>
              native[k].applied = 1 /\ row[k] # None /\ native[k].amount = row[k].amount
        /\ told[k] = "rejected" => native[k].applied = 0 /\ ~Pending(k)
        /\ told[k] = "absent" => \A c \in ChargeKey : row[c] = None /\ native[c].sent = 0

\* Refunds never return more than the wallet paid: the amounts credited for one
\* charge, those of POSTs still on the wire included, stay within the amount
\* the charge took, and nothing is sent for a charge that took nothing.
RefundsWithinCharge ==
    \A c \in ChargeKey :
        LET sent == {r \in Refunds(c) : native[r].sent > native[r].refused}
        IN  /\ sent # {} => native[c].applied = 1
            /\ MapThenSumSet(LAMBDA r : native[r].amount, sent) <= native[c].amount

\* A refund credits the wallet that paid, even after the tenant was bound to
\* another one ("Revocation changes new spending authority, not the wallet of
\* prior obligations").
RefundsToPayer ==
    \A r \in RefundKey :
        native[r].sent > 0 => native[r].wallet = native[row[r].original].wallet

\* An unknown outcome converges: once the wallet shows the adjustment, its row
\* is confirmed from some point on.
VisibleMoneyIsConfirmed ==
    \A k \in Key :
        (native[k].audited > 0) ~> [](row[k] # None /\ row[k].status = "confirmed")
=============================================================================

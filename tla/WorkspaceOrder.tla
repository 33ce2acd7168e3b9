---------------------------- MODULE WorkspaceOrder ----------------------------
(***************************************************************************)
(* What the customer of one Workspace is promised, with nothing of how it   *)
(* is done: no worker, no lease, no retry, no lost answer and no copy of    *)
(* anything. An order is agreed, paid for, provisioned, served and entitled *)
(* in this sequence; one that leaves is emptied, attested, erased and       *)
(* settled in this sequence; and each of the steps happens once.            *)
(***************************************************************************)

VARIABLES
    terms,      \* what was ordered: is it paid for, is a key part of it
    standing,   \* how far the Workspace is
    offer,      \* the price: "offered", "accepted" or "expired"
    charge,     \* the money taken
    refund,     \* the money given back
    funded,     \* the payment, or that none is due, is on record
    resources,  \* "none", "held" or "gone"
    workload,   \* "none", "started" or "gone"
    delivered,  \* the application was ready at some time
    key,        \* the credential of the application
    attested,   \* the removal is on record
    closed      \* nothing is left to be done

order == <<terms, standing, offer, charge, refund, funded, resources, workload, delivered, key,
           attested, closed>>

Decided == {"confirmed", "rejected"}

Leaving == standing \in {"deleting", "deleted"}
Emptied == resources = "gone" /\ workload = "gone"

Init ==
    /\ terms \in [paid : BOOLEAN, keyed : BOOLEAN]
    /\ standing = "none" /\ offer = "offered"
    /\ charge = "none" /\ refund = "none" /\ funded = FALSE
    /\ resources = "none" /\ workload = "none" /\ delivered = FALSE
    /\ key = "none" /\ attested = FALSE /\ closed = FALSE

-----------------------------------------------------------------------------
(* Standing of the Workspace.                                               *)

Stands(s) ==
    /\ standing' = s
    /\ UNCHANGED <<terms, offer, charge, refund, funded, resources, workload, delivered, key,
                   attested, closed>>

Place == standing = "none" /\ Stands("provisioning")

\* Only an order that never cost anything fails.
Fail ==
    /\ standing = "provisioning"
    /\ offer = "expired" /\ charge = "none" /\ resources = "none" /\ workload = "none"
    /\ Stands("failed")

Entitle ==
    /\ standing = "provisioning"
    /\ terms.paid /\ charge = "confirmed" /\ funded /\ delivered
    /\ Stands("active")

Leave == standing \in {"provisioning", "active", "failed"} /\ Stands("deleting")

Erase == standing = "deleting" /\ Emptied /\ attested /\ Stands("deleted")

-----------------------------------------------------------------------------
(* Money.                                                                   *)

Agree ==
    /\ standing # "none" /\ offer = "offered"
    /\ offer' \in {"accepted", "expired"}
    /\ UNCHANGED <<terms, standing, charge, refund, funded, resources, workload, delivered, key,
                   attested, closed>>

\* A charge whose order is leaving is still possible, and is given back.
Charge ==
    /\ ~closed /\ terms.paid /\ offer = "accepted" /\ charge = "none"
    /\ charge' \in Decided \cup {"open"}
    /\ UNCHANGED <<terms, standing, offer, refund, funded, resources, workload, delivered, key,
                   attested, closed>>

\* The whole charge, once, and only when everything it paid for is gone.
Return ==
    /\ ~closed /\ standing = "deleted" /\ charge = "confirmed" /\ funded /\ refund = "none"
    /\ refund' \in Decided \cup {"open"}
    /\ UNCHANGED <<terms, standing, offer, charge, funded, resources, workload, delivered, key,
                   attested, closed>>

Decide ==
    /\ \/ charge = "open" /\ charge' \in Decided /\ refund' = refund
       \/ refund = "open" /\ refund' \in Decided /\ charge' = charge
    /\ UNCHANGED <<terms, standing, offer, funded, resources, workload, delivered, key, attested,
                   closed>>

\* A paid order that was closed gets no record any more.
Fund ==
    /\ offer = "accepted" /\ ~funded
    /\ terms.paid => charge = "confirmed" /\ ~closed
    /\ funded' = TRUE
    /\ UNCHANGED <<terms, standing, offer, charge, refund, resources, workload, delivered, key,
                   attested, closed>>

-----------------------------------------------------------------------------
(* Service.                                                                 *)

Hold ==
    /\ funded /\ resources = "none"
    /\ resources' = "held"
    /\ UNCHANGED <<terms, standing, offer, charge, refund, funded, workload, delivered, key,
                   attested, closed>>

Serve ==
    /\ resources = "held" /\ workload # "gone"
    /\ workload' = "started"
    /\ delivered' \in {delivered, TRUE}
    /\ UNCHANGED <<terms, standing, offer, charge, refund, funded, resources, key, attested, closed>>

Stop ==
    /\ Leaving
    /\ workload' = "gone"
    /\ UNCHANGED <<terms, standing, offer, charge, refund, funded, resources, delivered, key,
                   attested, closed>>

\* Nothing is taken from under a workload, and nothing comes back.
Empty ==
    /\ Leaving /\ workload = "gone"
    /\ resources' = "gone"
    /\ UNCHANGED <<terms, standing, offer, charge, refund, funded, workload, delivered, key,
                   attested, closed>>

IssueKey ==
    /\ ~closed /\ terms.keyed /\ funded /\ key \in {"none", "pending"}
    /\ key' \in {"pending", "issued", "refused"}
    /\ UNCHANGED <<terms, standing, offer, charge, refund, funded, resources, workload, delivered,
                   attested, closed>>

DisableKey ==
    /\ Leaving /\ Emptied /\ key = "issued"
    /\ key' = "disabled"
    /\ UNCHANGED <<terms, standing, offer, charge, refund, funded, resources, workload, delivered,
                   attested, closed>>

-----------------------------------------------------------------------------
(* The end.                                                                 *)

Attest ==
    /\ Leaving /\ Emptied
    /\ attested' = TRUE
    /\ UNCHANGED <<terms, standing, offer, charge, refund, funded, resources, workload, delivered,
                   key, closed>>

\* Money is kept only for a service that was rendered.
MoneySettled ==
    \/ charge \in {"none", "rejected"} /\ refund = "none"
    \/ charge = "confirmed" /\ refund = "confirmed"
    \/ charge = "confirmed" /\ refund = "none" /\ delivered

Close ==
    /\ standing = "deleted" /\ key \in {"none", "refused", "disabled"} /\ MoneySettled
    /\ closed' = TRUE
    /\ UNCHANGED <<terms, standing, offer, charge, refund, funded, resources, workload, delivered,
                   key, attested>>

Next ==
    \/ Place \/ Fail \/ Entitle \/ Leave \/ Erase
    \/ Agree \/ Charge \/ Return \/ Decide \/ Fund
    \/ Hold \/ Serve \/ Stop \/ Empty \/ IssueKey \/ DisableKey
    \/ Attest \/ Close

Spec == Init /\ [][Next]_order
=============================================================================

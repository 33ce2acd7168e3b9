----------------------------- MODULE OwnerEvents -----------------------------
(***************************************************************************)
(* services/internal/ownerstore, outbox and inbox: the tables by which the  *)
(* owner services tell each other what happened, and the delivery loop that *)
(* Build, Capability, Serve and the Resource Catalog run over them. The     *)
(* producer's rows are read in batches without a lock or a lease, so two    *)
(* replicas of a service deliver the same row, a call outlives the deadline *)
(* of its caller, and an answer is lost after the consumer committed.       *)
(***************************************************************************)
EXTENDS Naturals, Sequences, SequencesExt

CONSTANTS
    Event,      \* what an owner announces
    Consumer,   \* the owners that can subscribe
    Delivery,   \* event_identity.go: the consumers of each event
    Refused,    \* deliveries the consumer never accepts
    Courier,    \* delivery loops over the same outbox, one for each replica
    Steady,     \* the ones that are not stopped for ever
    Batch,      \* the limit the loops pass to PendingDeliveries
    MaxLate     \* bound on the calls for one delivery that outlive their caller

ASSUME DeliveryAssumption ==
    /\ Delivery \subseteq Event \X Consumer /\ Refused \subseteq Delivery
    /\ Steady \subseteq Courier
    /\ Batch \in Nat \ {0} /\ MaxLate \in Nat

VARIABLES
    appended,   \* outbox_events
    due,        \* unacknowledged outbox_deliveries of a consumer with
                \* next_attempt_at <= now(), in the order of next_attempt_at
    deferred,   \* the others, in the same order
    acked,      \* outbox_deliveries with acknowledged_at
    inbox,      \* inbox_events of the consumers, with processed_at
    effects,    \* how often a consumer's transaction made the change
    batch,      \* what a courier read and has not tried
    call,       \* the courier's call: none, handling (past the first look at
                \* the inbox), committed or failed
    late        \* handlers whose caller is gone

rows == <<appended, due, deferred, acked>>
consumed == <<inbox, effects>>
loops == <<batch, call, late>>
vars == <<rows, consumed, loops>>

OwnerEventsTypeOK ==
    /\ appended \subseteq Event
    /\ due \in [Consumer -> Seq(Event)] /\ deferred \in [Consumer -> Seq(Event)]
    /\ acked \subseteq Delivery /\ inbox \subseteq Delivery
    /\ effects \in [Delivery -> Nat]
    /\ batch \in [Courier -> Seq(Delivery)]
    /\ call \in [Courier -> {"none", "handling", "committed", "failed"}]
    /\ late \in [Delivery -> 0..MaxLate]

Init ==
    /\ appended = {} /\ acked = {} /\ inbox = {}
    /\ due = [c \in Consumer |-> <<>>] /\ deferred = [c \in Consumer |-> <<>>]
    /\ effects = [d \in Delivery |-> 0]
    /\ batch = [k \in Courier |-> <<>>] /\ call = [k \in Courier |-> "none"]
    /\ late = [d \in Delivery |-> 0]

-----------------------------------------------------------------------------
(* The producer's tables.                                                   *)

\* One transaction writes the event and a row for each subscribed consumer.
AppendEvent(e) ==
    /\ e \notin appended
    /\ appended' = appended \cup {e}
    /\ due' = [c \in Consumer |-> IF <<e, c>> \in Delivery THEN Append(due[c], e) ELSE due[c]]
    /\ UNCHANGED <<deferred, acked, consumed, loops>>

\* next_attempt_at of the row that waits longest has passed.
FallDue(c) ==
    /\ deferred[c] # <<>>
    /\ due' = [due EXCEPT ![c] = Append(@, Head(deferred[c]))]
    /\ deferred' = [deferred EXCEPT ![c] = Tail(@)]
    /\ UNCHANGED <<appended, acked, consumed, loops>>

\* The row of one delivery leaves its queue; it is named by its id.
Without(s, e) ==
    IF \E i \in DOMAIN s : s[i] = e THEN RemoveAt(s, CHOOSE i \in DOMAIN s : s[i] = e) ELSE s

\* acknowledged_at is set once; a late failure no longer touches the row.
AcknowledgeDelivery(d) ==
    /\ acked' = acked \cup {d}
    /\ due' = [due EXCEPT ![d[2]] = Without(@, d[1])]
    /\ deferred' = [deferred EXCEPT ![d[2]] = Without(@, d[1])]

\* The next attempt comes after all those already scheduled: no other row was
\* deferred later by the same five seconds.
Faulty_RecordDeliveryFailure(d) == UNCHANGED <<due, deferred, acked>>

FaultyLate_RecordDeliveryFailure(d) ==
    /\ due' = [due EXCEPT ![d[2]] = Without(@, d[1])]
    /\ deferred' = [deferred EXCEPT ![d[2]] = Append(Without(@, d[1]), d[1])]
    /\ UNCHANGED acked

RecordDeliveryFailure(d) ==
    IF d \in acked THEN UNCHANGED <<due, deferred, acked>>
    ELSE /\ due' = [due EXCEPT ![d[2]] = Without(@, d[1])]
         /\ deferred' = [deferred EXCEPT ![d[2]] = Append(Without(@, d[1]), d[1])]
         /\ UNCHANGED acked

-----------------------------------------------------------------------------
(* The consumer. Deliver looks at the inbox without a lock, reads other     *)
(* owners, and looks again in the transaction that makes the change.        *)

Faulty_ReadCommittedInbox(d) == IF d \in inbox THEN "duplicate" ELSE "handling"

ReadCommittedInbox(d) == IF d \in inbox THEN "committed" ELSE "handling"

Faulty_DeliverInbox(d) ==
    /\ inbox' = inbox \cup {d}
    /\ effects' = [effects EXCEPT ![d] = @ + 1]

DeliverInbox(d) ==
    /\ inbox' = inbox \cup {d}
    /\ effects' = IF d \in inbox THEN effects ELSE [effects EXCEPT ![d] = @ + 1]

-----------------------------------------------------------------------------
(* The loop.                                                                *)

PendingDeliveries(k, c) ==
    LET read == SubSeq(due[c], 1, IF Len(due[c]) < Batch THEN Len(due[c]) ELSE Batch) IN
    /\ batch[k] = <<>> /\ read # <<>>
    /\ batch' = [batch EXCEPT ![k] = [i \in 1..Len(read) |-> <<read[i], c>>]]
    /\ UNCHANGED <<rows, consumed, call, late>>

Now(k, d) == batch[k] # <<>> /\ Head(batch[k]) = d

Call(k, d) ==
    /\ Now(k, d) /\ call[k] = "none"
    /\ call' = [call EXCEPT ![k] = ReadCommittedInbox(d)]
    /\ UNCHANGED <<rows, consumed, batch, late>>

Commit(k, d) ==
    /\ Now(k, d) /\ call[k] = "handling" /\ d \notin Refused
    /\ DeliverInbox(d)
    /\ call' = [call EXCEPT ![k] = "committed"]
    /\ UNCHANGED <<rows, batch, late>>

\* An error, or an acknowledgement that does not say it is committed.
Fail(k, d) ==
    /\ Now(k, d) /\ call[k] = "handling"
    /\ call' = [call EXCEPT ![k] = "failed"]
    /\ UNCHANGED <<rows, consumed, batch, late>>

\* Fifteen seconds are over, or the answer is lost on the way: the handler
\* goes on and the courier knows only that it has no acknowledgement.
TimeOut(k, d) ==
    /\ Now(k, d) /\ call[k] = "handling" /\ late[d] < MaxLate
    /\ call' = [call EXCEPT ![k] = "failed"]
    /\ late' = [late EXCEPT ![d] = @ + 1]
    /\ UNCHANGED <<rows, consumed, batch>>

LateCommit(d) ==
    /\ late[d] > 0 /\ d \notin Refused
    /\ DeliverInbox(d)
    /\ late' = [late EXCEPT ![d] = @ - 1]
    /\ UNCHANGED <<rows, batch, call>>

LateEnd(d) ==
    /\ late[d] > 0
    /\ late' = [late EXCEPT ![d] = @ - 1]
    /\ UNCHANGED <<rows, consumed, batch, call>>

GoOn(k) ==
    /\ batch' = [batch EXCEPT ![k] = Tail(@)]
    /\ call' = [call EXCEPT ![k] = "none"]

Acknowledge(k, d) ==
    /\ Now(k, d) /\ call[k] = "committed"
    /\ AcknowledgeDelivery(d)
    /\ GoOn(k)
    /\ UNCHANGED <<appended, consumed, late>>

RecordFailure(k, d) ==
    /\ Now(k, d) /\ call[k] = "failed"
    /\ RecordDeliveryFailure(d)
    /\ GoOn(k)
    /\ UNCHANGED <<appended, consumed, late>>

\* The pass ends early: a database error, or the process is gone.
Crash(k) ==
    /\ batch[k] # <<>> /\ call[k] # "handling"
    /\ batch' = [batch EXCEPT ![k] = <<>>]
    /\ call' = [call EXCEPT ![k] = "none"]
    /\ UNCHANGED <<rows, consumed, late>>

Next ==
    \/ \E e \in Event : AppendEvent(e)
    \/ \E c \in Consumer : FallDue(c)
    \/ \E k \in Courier :
         \/ Crash(k)
         \/ \E c \in Consumer : PendingDeliveries(k, c)
         \/ \E d \in Delivery :
              \/ Call(k, d) \/ Commit(k, d) \/ Fail(k, d) \/ TimeOut(k, d)
              \/ Acknowledge(k, d) \/ RecordFailure(k, d)
    \/ \E d \in Delivery : LateCommit(d) \/ LateEnd(d)

Spec == Init /\ [][Next]_vars

\* A steady loop runs each second over all of its consumers, and is not cut off
\* at the same place for ever; the others may stop anywhere. A consumer that
\* can accept a delivery does so if it is asked again and again.
Fairness ==
    /\ \A c \in Consumer : WF_vars(FallDue(c))
    /\ \A k \in Courier, d \in Delivery : SF_vars(Commit(k, d))
    /\ \A k \in Steady :
         /\ \A c \in Consumer : SF_vars(PendingDeliveries(k, c))
         /\ \A d \in Delivery : SF_vars(Call(k, d))
         /\ WF_vars(\E d \in Delivery : Fail(k, d))
         /\ SF_vars(\E d \in Delivery : Acknowledge(k, d))
         /\ SF_vars(\E d \in Delivery : RecordFailure(k, d))

FairSpec == Spec /\ Fairness

-----------------------------------------------------------------------------
(* Properties.                                                              *)

Promise == INSTANCE EventDelivery WITH
    owed <- {d \in Delivery : d[1] \in appended},
    settled <- acked

\* The tables and the loop keep the promise of EventDelivery: a consumer makes
\* the change of an event at most once, whichever replicas, repeats and late
\* handlers meet, and the producer never settles a delivery whose change was
\* not made.
AtMostOnce == Promise!Safe

\* And every delivery a consumer can accept is applied and acknowledged in the
\* end, although another one is refused for ever and comes before it.
ExactlyOnce == Promise!Spec

\* The queue of a consumer holds the deliveries that are not acknowledged, each
\* of them once: no acknowledgement or failure, however late, drops the row of
\* another delivery or brings back one that is settled.
RowsAreKept ==
    \A c \in Consumer :
        LET queue == due[c] \o deferred[c] IN
        /\ IsInjective(queue)
        /\ Range(queue) = {e \in appended : <<e, c>> \in Delivery \ acked}
=============================================================================

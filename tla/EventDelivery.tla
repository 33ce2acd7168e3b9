---------------------------- MODULE EventDelivery ----------------------------
(***************************************************************************)
(* What the owner services promise each other about events, with nothing of *)
(* how it is done: an event is owed to all of its consumers from the moment *)
(* it exists, each of them applies it once, and the producer regards it as  *)
(* delivered only after that.                                               *)
(***************************************************************************)
EXTENDS Naturals

CONSTANTS
    Delivery,   \* one event for one consumer
    Refused     \* the ones the consumer never accepts

VARIABLES
    owed,       \* the deliveries that exist
    effects,    \* how often the consumer's own change was made
    settled     \* the deliveries the producer will not attempt again

events == <<owed, effects, settled>>

Init ==
    /\ owed = {} /\ settled = {}
    /\ effects = [d \in Delivery |-> 0]

Owe(D) ==
    /\ D # {} /\ D \cap owed = {}
    /\ owed' = owed \cup D
    /\ UNCHANGED <<effects, settled>>

Apply(d) ==
    /\ d \in owed \ Refused /\ effects[d] = 0
    /\ effects' = [effects EXCEPT ![d] = 1]
    /\ UNCHANGED <<owed, settled>>

Settle(d) ==
    /\ effects[d] = 1 /\ d \notin settled
    /\ settled' = settled \cup {d}
    /\ UNCHANGED <<owed, effects>>

Next ==
    \/ \E D \in SUBSET Delivery : Owe(D)
    \/ \E d \in Delivery : Apply(d) \/ Settle(d)

\* At most once, and never settled unapplied.
Safe == Init /\ [][Next]_events

\* And exactly once in the end, for each delivery by itself.
Spec == Safe /\ \A d \in Delivery : WF_events(Apply(d)) /\ WF_events(Settle(d))
=============================================================================

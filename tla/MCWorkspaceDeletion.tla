------------------------ MODULE MCWorkspaceDeletion ------------------------
(* WorkspaceDeletion for TLC, with states identified that no property tells   *)
(* apart, in themselves or in what can follow them.                           *)
EXTENDS WorkspaceDeletion

\* With RecoveryLimit = 1 every wait is at the limit whatever was counted before,
\* so no step and no property depends on the counters of a closeout.
Uncounted(r) == <<r.facts, r.key, r.refund>>

\* An ended launch is never leased again and its fence never passed, so a pass of
\* it that is not at a call can only leave: nothing of what it knows is used.
Over == status \in Terminal
Spent(w) == Over /\ at[w].step # "load" /\ at[w].phase # "call"

View ==
    <<owners, row, IF Over THEN None ELSE holder,
      [w \in Worker |-> IF Spent(w) THEN <<>> ELSE <<at[w], mem[w], outcome[w]>>],
      deletion, Uncounted(closeout), command, dholder, dat, dout,
      [d \in Deleter |-> <<Uncounted(dmem[d].result), dmem[d].version>>]>>
=============================================================================

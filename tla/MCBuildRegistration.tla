------------------------- MODULE MCBuildRegistration -------------------------
(* BuildRegistration for TLC: interchangeable workers as model values, and  *)
(* a start with builds that were left behind earlier.                       *)
EXTENDS BuildRegistration, TLC

CONSTANT Left   \* the builds that wait for an operator from the start

Symmetry == Permutations(Worker)

\* Builds whose worker stopped between the stage "building" and the start of
\* the exporter, and whose outcome was then looked for in vain: they hold their
\* claims, nothing was ever exported, and every pass reads them again.
LeftInit ==
    /\ jobs = SetToSeq(Left)
    /\ status = [j \in Job |-> IF j \in Left THEN "needs_attention" ELSE "none"]
    /\ granted = [j \in Job |-> j \in Left] /\ saved = [j \in Job |-> j \in Left]
    /\ claim = [j \in Job |-> [t \in Target |-> IF j \in Left THEN "bound" ELSE "none"]]
    /\ artifact = [j \in Job |-> FALSE] /\ failures = [j \in Job |-> FALSE]
    /\ lock = [j \in Job |-> None]
    /\ todo = [w \in Worker |-> <<>>] /\ at = [w \in Worker |-> "idle"]
    /\ seen = [w \in Worker |-> NoRecord]
    /\ started = [j \in Job |-> 0] /\ running = [j \in Job |-> 0]
    /\ registry = [j \in Job |-> FALSE]
    /\ approved = Target /\ changes = 0 /\ lost = 0
    /\ artifactEvent = [j \in Job |-> "unsent"] /\ versionEvent = [j \in Job |-> "unsent"]
    /\ calls = [j \in Job |-> 0] /\ versions = [j \in Job |-> 0]
    /\ received = [j \in Job |-> FALSE]

LeftSpec == LeftInit /\ [][Next]_vars /\ Fairness
=============================================================================

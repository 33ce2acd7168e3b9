CONSTANTS
    Original = d0
    Switch = {s1, s2}
    Rollback = {s2}
    ExclusiveWriter = {d0, s1}
    Handler = {h1, h2}
    MayBreak = TRUE
    None = None
SPECIFICATION Spec
SYMMETRY HandlerSymmetry
INVARIANTS ServeTypeOK DisplacedWriterIsDown OneOpenSwitch ActivationIsNeverUndone ClosedIsEmpty

CONSTANTS
    Original = d0
    Switch = {s1}
    Rollback = {}
    ExclusiveWriter = {d0}
    Handler = {h1}
    MayBreak = FALSE
    None = None
SPECIFICATION FairSpec
PROPERTIES FailedSwitchIsUndone

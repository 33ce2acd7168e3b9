CONSTANTS
    Job = {j1}
    Left = {}
    Worker = {w1,w2}
    None = None
    Batch = 1
    MaxCalls = 2
    MaxChanges = 1
    MaxReleases = 1
    MaxLost = 1
SPECIFICATION Spec
SYMMETRY Symmetry
INVARIANTS BuildTypeOK BuiltUnderClaims EndsAgree OneVersion
PROPERTIES OpenIsExportedOnce SuccessIsFinal
CHECK_DEADLOCK FALSE

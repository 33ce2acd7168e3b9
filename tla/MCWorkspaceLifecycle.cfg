CONSTANTS
    Worker = {w1, w2}
    None = None
    RecoveryLimit = 1
    MaxFlips = 2
    MaxLapses = 1
    MaxBreaks = 0
SPECIFICATION Spec
SYMMETRY WorkerSymmetry
INVARIANTS LifecycleTypeOK StandingHasKey SuspendedHasNoKey
PROPERTIES DeletionEndsStanding
CHECK_DEADLOCK FALSE

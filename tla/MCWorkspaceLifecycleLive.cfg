CONSTANTS
    Worker = {w1}
    None = None
    RecoveryLimit = 2
    MaxFlips = 2
    MaxLapses = 0
    MaxBreaks = 1
SPECIFICATION FairSpec
PROPERTIES UnpaidIsSuspended PaidIsRecovered
CHECK_DEADLOCK FALSE

CONSTANTS
    Worker = {w1}
    None = None
SPECIFICATION LaunchFairSpec
PROPERTIES PaidIsDelivered
CHECK_DEADLOCK FALSE

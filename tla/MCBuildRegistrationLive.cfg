CONSTANTS
    Job = {j1,j2,j3}
    Left = {j3}
    Worker = {w1}
    None = None
    Batch = 2
    MaxCalls = 1
    MaxChanges = 0
    MaxReleases = 0
    MaxLost = 0
SPECIFICATION LeftSpec
PROPERTIES QueueMoves ConfirmedIsRegistered
CHECK_DEADLOCK FALSE

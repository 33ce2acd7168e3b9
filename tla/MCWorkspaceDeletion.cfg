CONSTANTS
    Worker = {w1}
    Deleter = {d1}
    None = None
    RecoveryLimit = 1
SPECIFICATION DeletionSpec
VIEW View
INVARIANTS DeletionTypeOK NothingLeftBehind RefundAfterAbsence SettlementIsTrue
PROPERTY KeepsContract
CHECK_DEADLOCK FALSE

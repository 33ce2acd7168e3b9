CONSTANTS
    Worker = {w1, w2}
    None = None
SPECIFICATION LaunchSpec
SYMMETRY Symmetry
INVARIANTS LaunchTypeOK RecordedBeforeEffect FailedOwesNothing EntitledIsServed
PROPERTIES FactsAreKept
CHECK_DEADLOCK FALSE

CONSTANTS
    Starts = 2
    Chunks = 3
    QueueMax = 2
    Numbers = {1, 2}
SPECIFICATION Spec
CHECK_DEADLOCK FALSE
INVARIANTS
    OpenPumpOwnsItsEnd
    QueueIsFreshest
PROPERTIES
    ClosedPumpEnds
    AudioGoesOn

CONSTANTS
    Frames = {{"slice"}, {"sps", "pps", "idr"}}
    QueueMax = 2
    Audio = FALSE
    Cancels = FALSE
SPECIFICATION HandoverSpec
CHECK_DEADLOCK FALSE
INVARIANTS
    TakesBackFew
PROPERTIES
    NewGetsPath

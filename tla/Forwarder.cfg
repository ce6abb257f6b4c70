CONSTANTS
    Frames = {{}, {"slice"}, {"idr"}, {"sps", "pps"}, {"sps", "idr"}, {"sps", "pps", "idr"}}
    QueueMax = 2
    Audio = TRUE
    Cancels = TRUE
SPECIFICATION KeyframeSpec
CHECK_DEADLOCK FALSE
INVARIANTS
    StartsOnKeyframe
    NoneLeft
PROPERTIES
    RestartsOnKeyframe
    CancelledEnds

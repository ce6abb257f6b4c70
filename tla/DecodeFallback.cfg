CONSTANTS
    Sizes = {0, 1, 2}
SPECIFICATION FallbackSpec
CHECK_DEADLOCK FALSE
INVARIANTS
    FedAsStarted
    NoFfmpegLost
PROPERTIES
    TaskFollowsSession

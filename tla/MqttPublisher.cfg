CONSTANTS
    Modes = {"auto", "off"}
    QueueMax = 2
    MaxConns = 3
    MaxStates = 4
    MaxInbox = 2
SPECIFICATION FairSpec
CHECK_DEADLOCK FALSE
INVARIANTS
    BrokerCatchesUp
    SelectShowsMode
PROPERTIES
    SettlesFresh

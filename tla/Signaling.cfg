CONSTANTS
    MaxSessions = 2
    MaxOffers = 2
SPECIFICATION FairSpec
CHECK_DEADLOCK FALSE
INVARIANTS
    NothingLeftRunning
    UnansweredIsWatched
PROPERTIES
    DogSparesAnswered
    UnansweredEnds
    TeardownEnds

CONSTANTS
    DefaultMode = "auto"
    MqttEnabled = TRUE
    Configs = {{"offPolling", "settleDelay"}, {"diskFaults"}}
    LadderTop = 5
SPECIFICATION FairSpec
INVARIANTS
    SentinelMatchesLoop
    OffAbortPending
    NoChangeLostAsleep
    ModeSurvives
    OffEntryAnnounced
PROPERTIES
    KeepsModePromise
    OffTakesEffect
    OnTakesEffect
    EntryPollRetried

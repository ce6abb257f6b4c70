CONSTANTS
    DefaultMode = "auto"
    MqttEnabled = TRUE
    Configs = {{"offPolling", "settleDelay"}}
    LadderTop = 5
SPECIFICATION Spec
INVARIANTS
    NoStaleSleep

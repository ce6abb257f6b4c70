CONSTANTS
    Accounts = {"ann", "bob"}
    MaxTokens = 3
    Caching = TRUE
    DiskFaults = TRUE
    Devices = {"feeder", "bath"}
    DeviceId = "feeder"
SPECIFICATION SessionSpec
INVARIANTS
    SessionIsMine
    ReturnedIsCached
    ReadingsInOrder
    TopicsTellOneDevice
PROPERTIES
    LoginOnlyWhenUseless

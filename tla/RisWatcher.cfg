SPECIFICATION Spec
CONSTANTS
    MaxTries = 5
    ChannelCap = 1
    WireCap = 2
    MaxMessages = 3
    MaxLong = 2
INVARIANTS
    TypeOK
    DeliveredInOrder
    GivesUpOnlyAfterStreak
PROPERTIES
    ShutdownStops
    UnreachableTerminates
CHECK_DEADLOCK FALSE

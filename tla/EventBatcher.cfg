SPECIFICATION Spec
CONSTANTS
    ChannelCap = 2
    MaxEvents = 5
INVARIANTS
    TypeOK
    AtMostOnceInOrder
    Accounted
    LossNeedsFault
PROPERTIES
    AcceptedEventsLand
CHECK_DEADLOCK FALSE

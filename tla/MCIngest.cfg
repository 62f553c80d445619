SPECIFICATION Spec
CONSTANTS
    k1 = k1
    Keys = {k1}
    NoRow = NoRow
    Messages <- MCMessages
    MaxMessages = 2
    RisCap = 1
    EventCap = 1
    SmallBatchSize = 1
    BatchCap = 1
    MaxOps = 4
INVARIANTS
    TableBackedByEvents
    AbortNeedsFault
PROPERTIES
    HandleReturns
    ShutdownCompletes
CHECK_DEADLOCK FALSE

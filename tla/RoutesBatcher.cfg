SPECIFICATION Spec
CONSTANTS
    Keys = {k1, k2}
    SmallBatchSize = 2
    ChannelCap = 1
    MaxOps = 5
    NoRow = NoRow
INVARIANTS
    TypeOK
    PipelineOrdered
    NoSilentLoss
    LossNeedsFault
    ConsistentBetweenBatches
PROPERTIES
    ImplementsRoutingTable
    SentBatchesLand
CHECK_DEADLOCK FALSE

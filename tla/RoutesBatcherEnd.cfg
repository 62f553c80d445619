SPECIFICATION Spec
CONSTANTS
    Keys = {k1, k2}
    SmallBatchSize = 2
    ChannelCap = 1
    MaxOps = 5
    NoRow = NoRow
INVARIANT EndWritesEverything
CHECK_DEADLOCK FALSE

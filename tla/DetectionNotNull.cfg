SPECIFICATION Spec
CONSTANTS
    Prefixes = {p, q}
    Origins = {a, b}
    BigBatchSize = 2
    BadPayload = BadPayload
    NoMoas = NoMoas
    MaxNotes = 3
    MaxChanges = 3
    MaxFaults = 1
INVARIANTS
    ExecutedIsStored
CHECK_DEADLOCK FALSE

SPECIFICATION Spec
CONSTANTS
    Keys = {k1, k2}
    DumpSlots = {1, 4}
    MaxSlot = 4
    MaxOps = 4
    MaxStops = 1
    NoRow = NoRow
    NoFile = NoFile
INVARIANTS
    CopyNeverConflicts
    HolesAreKnown
    DumpIsWhole
    EventsOnce
PROPERTIES
    RowsNeverAge
    SeedingEnds
CHECK_DEADLOCK FALSE

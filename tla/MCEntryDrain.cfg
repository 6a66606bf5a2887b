SPECIFICATION FairSpec
CONSTANTS
    TicketQuantity = 3
    SmallestSplit = 2
    MaxCancels = 4
    MaxFaults = 3
    MaxForeign = 1
INVARIANTS
    FillsAreKept
    HandedQuantityIsReal
PROPERTY
    EntryDrainEnds
CHECK_DEADLOCK FALSE

SPECIFICATION FairSpec
CONSTANTS
    TicketQuantity = 3
    Tp1Quantity = 1
    MaxGeneration = 3
    MaxStopPrice = 2
    NoOrder = NoOrder
    DeadlinesLapse = TRUE
    BoundedDelivery = TRUE
    ExternalCloses = "filled"
    ForeignOrders = TRUE
    MaxFaults = 1
INVARIANTS
    DurableBeforeVenue
    AbsenceIsFinal
    LaneFlagAgrees
    UnknownIsFenced
    StopCoversExposure
PROPERTIES
    NeverResent
    ImplementsTicketLife
    ProtectionNeverLoosens
    EntryIsSeenThrough
CHECK_DEADLOCK FALSE

SPECIFICATION FairSpec
CONSTANTS
    a1 = a1
    b1 = b1
    Signal = {a1, b1}
    ScopeOf <- MCScope
    DomainMaps <- MCDomainMaps
    FamilyOf <- MCFamilyOf
    Rank <- MCRank
    TicketLimit <- MCTicketLimit
    FamilyLimit = 2
    Wallets = {1, 2}
    None = None
    Gates = {"strategy", "vacuum"}
    MaxCrashes = 1
INVARIANTS
    ExposureIsExact
    SentEntryFits
    DomainIsExclusive
PROPERTIES
    TicketsKeepContract
    
CHECK_DEADLOCK FALSE

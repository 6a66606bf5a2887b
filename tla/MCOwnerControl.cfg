SPECIFICATION FairSpec
CONSTANTS
    t1 = t1 t2 = t2 e1 = e1 e2 = e2 p1 = p1 p2 = p2
    None = None
    Key = {1, 2}
    Slot = {1, 2}
    Ticket <- MCTicket
    Held <- MCHeld
    Event <- MCEvent
    Profile <- MCProfile
    Scenes <- AllScenes
    CallLimit <- MCCallLimit
    MaxDisturbances = 1
    MaxPeriod = 2
INVARIANTS NoSecondEffect CompletedMeansFlat
PROPERTY FlattenEnds
CHECK_DEADLOCK FALSE

SPECIFICATION Spec
CONSTANTS
    LastHour = 11
    Created = 0
    Pasts <- MCPasts
    Day = 5
    Week = 10
    NumOptions = 2
    Windows = {3, 4}
    Tiles = 3
    Near = 1
    o1 = o1
    o2 = o2
    Options = {o1, o2}
    MaxVotes = 2
    MaxEvents = 3
    None = None
INVARIANTS
    TypeOK
    
    BalanceIsHonest
    TimelineIsWhole
    
CHECK_DEADLOCK FALSE

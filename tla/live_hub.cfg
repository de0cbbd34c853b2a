SPECIFICATION FairSpec
CONSTANTS
    c1 = c1
    c2 = c2
    p1 = p1
    p2 = p2
    v1 = v1
    v2 = v2
    PollIds = {p1}
    Clients = {c1, c2}
    Voters = {v1}
    SendCap = 1
    HubCap = 1
    MaxTally = 2
INVARIANTS
    HubNeverPanics

PROPERTIES
    
    DroppedClientLeaves
    
CHECK_DEADLOCK FALSE

SPECIFICATION FairSpec
CONSTANTS
    s1 = s1
    s2 = s2
    c1 = c1
    c2 = c2
    Servers = {s1, s2}
    Callers = {c1, c2}
    NodeEnv <- TwoNodes
    NodeCount = 3
    SeqCount = 2
    MaxWallClock = 2
    MaxSetBacks = 1
INVARIANTS
    UniqueIds
PROPERTIES
    IdsGrow
    CallersAreServed

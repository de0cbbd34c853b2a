SPECIFICATION BudgetSpec
CONSTANTS
    v1 = v1
    v2 = v2
    p1 = p1
    p2 = p2
    MaxVotes = 2
    RefillRate = 2
    BucketTtl = 5
    MaxDelay = 1
    MaxClock = 8
    Voters = {v1, v2}
    Pollers = {p1}
INVARIANTS
    BudgetUnlessRaced
    BalanceIsSpendable
    BudgetInv
SYMMETRY VoterSymmetry
PROPERTY
    RefillNeverRewinds

SPECIFICATION Spec
CONSTANTS
    u1 = u1
    u2 = u2
    r1 = r1
    r2 = r2
    a1 = a1
    o1 = o1
    o2 = o2
    p1 = p1
    PollIds = {p1}
    Options = {o1, o2}
    Users = {u1}
    Requests = {r1, r2}
    Admins = {a1}
    MaxCount = 1
    MaxTaken = 2
SYMMETRY Symmetry
INVARIANT
    ClosedPollTakesNoVotes
CHECK_DEADLOCK FALSE

SPECIFICATION Spec
CONSTANTS
    u1 = u1
    u2 = u2
    b1 = b1
    b2 = b2
    Users = {u1, u2}
    Boots = {b1, b2}
    MaxEvents = 3
    None = None
INVARIANT
    TabKeepsItsAccount
CHECK_DEADLOCK FALSE

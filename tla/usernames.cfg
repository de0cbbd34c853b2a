SPECIFICATION FilterSpec
CONSTANTS
    n1 = n1
    n2 = n2
    n3 = n3
    u1 = u1
    u2 = u2
    s1 = s1
    c1 = c1
    g1 = g1
    g2 = g2
    b1 = b1
    b2 = b2
    Names = {n1, n2, n3}
    Bits = {b1, b2}
    Positions <- MCPositions
    Accounts = {u1, u2}
    Signups = {s1}
    Checks = {c1}
    Goroutines = {g1, g2}
    MaxBoots = 2
    None = None
SYMMETRY Symmetry
INVARIANTS
    FilterCovers
    ChecksAreRight
PROPERTIES
    CopyForgetsOnlyIfOvertaken
CHECK_DEADLOCK FALSE

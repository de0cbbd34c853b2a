SPECIFICATION Spec
CONSTANTS
    n1 = n1
    n2 = n2
    e1 = e1
    e2 = e2
    r1 = r1
    r2 = r2
    s1 = s1
    s2 = s2
    Names = {n1}
    Emails = {e1, e2}
    CodeEmails = {e1}
    GoogleEmails = {e2}
    ResetEmails = {e1}
    Requests = {r1, r2}
    Senders = {s1, s2}
    CodeTtl = 1
    TokenTtl = 1
    MaxTime = 1
    MaxCodes = 2
    None = None
SYMMETRY Symmetry
INVARIANTS
    TypeOK
    
    
    LastMailHoldsTheCode
PROPERTIES
    DeletedUsersRest
CHECK_DEADLOCK FALSE

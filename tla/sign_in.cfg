SPECIFICATION Spec
CONSTANTS
    n1 = n1
    n2 = n2
    s1 = s1
    e1 = e1
    e2 = e2
    Names = {n1, n2, s1}
    ShortNames = {s1}
    Emails = {e1, e2}
    MaxChecks = 2
    None = None
INVARIANTS
    NameShownWasChecked
    CodeBelongsToForm
    SignupIsNotStuck
CHECK_DEADLOCK FALSE

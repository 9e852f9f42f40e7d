SPECIFICATION Spec
CONSTANTS
    Requests = {r1, r2}
    Instances = {a, b}
    Ids = {n1, n2, n3}
    SignIns = {l1}
    MaxToken = 2
    MaxNow = 1
    AbsoluteTtl = 1
    None = None
    Keep = Keep
CHECK_DEADLOCK FALSE
SYMMETRY MCSymmetry
INVARIANTS
    OneIdPerSession
    TokenIsCurrent
    LogoutIsFinal
    DeadlineIsKept
    CodeTakesState

SPECIFICATION Spec
CONSTANTS
    Requests = {r1, r2}
    Instances = {a}
    Ids = {n1, n2}
    SignIns = {l1}
    MaxToken = 2
    MaxNow = 1
    AbsoluteTtl = 1
    None = None
    Keep = Keep
CHECK_DEADLOCK FALSE
INVARIANT
    LogoutSticks

SPECIFICATION Spec
CONSTANTS
    orders = orders
    customers = customers
    Commands = {a, b, c}
    Ids <- MCIds
    Schemas <- MCSchemas
    Empty = Empty
    Missing = Missing
    Absent = Absent
CHECK_DEADLOCK FALSE
SYMMETRY MCSymmetry
INVARIANTS
    SnapshotReachable
    AcceptedIsWhole
    CrashOnlyTears
    TornIsRepairable
PROPERTY
    RollbackIsOwn

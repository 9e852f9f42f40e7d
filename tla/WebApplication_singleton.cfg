SPECIFICATION Spec
CONSTANTS
    app = app
    q1 = q1
    q2 = q2
    db = db
    user = user
    audit = audit
    Services <- MCServices
    Singletons <- MCSingletons
    Deps <- MCDeps
    Application = app
    Requests <- MCRequests
    Wanted <- MCWanted
    Nobody = Nobody
    Principal = user
    Disposable = {db}
    NPlugins = 2
    MayFail = {}
    Stoppers = {signal, program}
CHECK_DEADLOCK FALSE
INVARIANT
    SingletonOnce

SPECIFICATION FairSpec
CONSTANTS
    app = app
    q1 = q1
    q2 = q2
    db = db
    user = user
    audit = audit
    Services <- MCServices
    Singletons <- MCSingletons
    Deps <- MCCyclicDeps
    Application = app
    Requests <- MCOneRequest
    Wanted <- MCOneWanted
    Nobody = Nobody
    Principal = user
    Disposable = {db}
    NPlugins = 2
    MayFail = {"beforeStart", "install", "listen", "afterStart"}
    Stoppers = {signal, program}
CHECK_DEADLOCK FALSE
PROPERTIES
    EveryGetSettles
    ShutdownSettles

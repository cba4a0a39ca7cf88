SPECIFICATION FairSpec
CONSTANTS
    a = a
    b = b
    c = c
    d = d
    e = e
    g = g
    main = main
    other = other
    NoName = NoName
    NoMsg = NoMsg
    NoFilter = NoFilter
    BadFilter <- NoFilters
    Matches <- FilterData
    Client = {a, b, c}
    Group <- NoGroups
    User = {main}
    Main = main
    Script <- LifecycleScript
    ExitScript <- NoExit
    Thrower = {}
    Threshold <- Threshold1
    Starts <- NoStarts
INVARIANTS
    ConstructedBeforeRun
    JoinNeverBlocks
    ReapSignalled
    NoRunOutsideWait
    LifecycleInv
PROPERTIES
    AllThreadsJoined
    WaitReturnsOnceStarted
CHECK_DEADLOCK FALSE

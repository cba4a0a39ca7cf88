SPECIFICATION StartedSpec
CONSTANTS
    a = a
    b = b
    c = c
    d = d
    e = e
    g = g
    main = main
    other = other
    NoName = NoName
    NoMsg = NoMsg
    NoFilter = NoFilter
    BadFilter <- NoFilters
    Matches <- FilterData
    Client = {a, b}
    Group = {g}
    User = {main}
    Main = main
    Script <- SubscribeScript
    ExitScript <- NoExit
    Thrower = {}
    Threshold <- Threshold100
    Starts <- BothStart
INVARIANTS
    SubscriptionHonoured
CHECK_DEADLOCK FALSE

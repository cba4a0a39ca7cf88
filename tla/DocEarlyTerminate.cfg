SPECIFICATION FairSpec
CONSTANTS
    a = a
    b = b
    c = c
    d = d
    e = e
    g = g
    main = main
    other = other
    NoName = NoName
    NoMsg = NoMsg
    NoFilter = NoFilter
    BadFilter <- NoFilters
    Matches <- FilterData
    Client = {a, b}
    Group <- NoGroups
    User = {main, other}
    Main = main
    Script <- EarlyTerminateScript
    ExitScript <- NoExit
    Thrower = {}
    Threshold <- Threshold1
    Starts <- NoStarts
PROPERTIES
    TerminateShutsDown
CHECK_DEADLOCK FALSE

SPECIFICATION StartedSpec
CONSTANTS
    a = a
    b = b
    c = c
    d = d
    e = e
    g = g
    main = main
    other = other
    NoName = NoName
    NoMsg = NoMsg
    NoFilter = NoFilter
    BadFilter <- NoFilters
    Matches <- FilterData
    Client = {a, b}
    Group <- NoGroups
    User = {main}
    Main = main
    Script <- TwoWayScript
    ExitScript <- NoExit
    Thrower = {}
    Threshold <- Threshold1
    Starts <- BothStart
PROPERTIES
    PausedWorkerResumes
CHECK_DEADLOCK FALSE

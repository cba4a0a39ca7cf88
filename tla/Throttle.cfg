SPECIFICATION StartedSpec
CONSTANTS
    a = a
    b = b
    c = c
    d = d
    e = e
    g = g
    main = main
    other = other
    NoName = NoName
    NoMsg = NoMsg
    NoFilter = NoFilter
    BadFilter <- NoFilters
    Matches <- FilterData
    Client = {a, b}
    Group <- NoGroups
    User = {main, other}
    Main = main
    Script <- ThrottleScript
    ExitScript <- NoExit
    Thrower = {b}
    Threshold <- Threshold1
    Starts <- BothStart
INVARIANTS
    NoUseAfterErase
    ThrottleAlternates
PROPERTIES
    PausedOnlyInternal
CHECK_DEADLOCK FALSE

SPECIFICATION StartedSpec
CONSTANTS
    a = a
    b = b
    c = c
    d = d
    e = e
    g = g
    main = main
    other = other
    NoName = NoName
    NoMsg = NoMsg
    NoFilter = NoFilter
    BadFilter <- BadRegex
    Matches <- FilterData
    Client = {a, b, c, d, e}
    Group = {g}
    User = {main}
    Main = main
    Script <- EndingsScript
    ExitScript <- EndingsExitScript
    Thrower = {}
    Threshold <- EndingsThreshold
    Starts <- Endings
INVARIANTS
    NoDeadSubscriber
PROPERTIES
    WaitReturns
    TerminateShutsDown

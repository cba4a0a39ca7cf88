SPECIFICATION SyncSpec
CONSTANTS
    p1 = p1
    p2 = p2
    Producer <- MCProducer
    Owner = owner
    NoOne = NoOne
    NoMsg = NoMsg
    MaxPush = 3
    Taker = {t1, t2}
    Timed = {d1, d2}
    InitialCount = {0, 1}
    MaxPost = 3
INVARIANTS
    TypeOK
    NoLostWakeup
    NoPostLost
PROPERTIES
    PopReturnsMessage
    PopReturns
    ImplementsAbstractQueue
    CountIsTaken
    TimedTakeReturns
    ImplementsAbstractSemaphore

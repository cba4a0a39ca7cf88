SPECIFICATION FairSpec
CONSTANTS
    p1 = p1
    p2 = p2
    Producer <- MCProducer
    Owner = owner
    NoOne = NoOne
    NoMsg = NoMsg
    MaxPush = 3
PROPERTIES
    InternalPopReturnsEmpty

CONSTANTS
    p1 = p1
    p2 = p2
    c1 = c1
    c2 = c2
    Producers = {p1, p2}
    Consumers = {c1, c2}
    NoThread = NoThread
    maxSize = 2
    MaxSends = 2
    MaxSpurious = 1
SPECIFICATION FairSpec
INVARIANTS
    TypeOK
    ExactlyOnceInOrder
    NoItemForgotten
    NoRoomForgotten
PROPERTIES
    RefinesFifo
    EverySendReturns
    EveryItemReceived

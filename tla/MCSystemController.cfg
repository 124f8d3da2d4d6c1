CONSTANTS
    QueueSize = 2
    PollLimit = 3
    MaxFeedings = 2
    MaxWrites = 1
SPECIFICATION FairSpec
INVARIANTS
    TypeOK
    FeedingsConserved
    TreatsConserved
    DeletedAfterTreat
PROPERTIES
    FeedingReachesUart
    WebThreadEnds

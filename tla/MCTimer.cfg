CONSTANTS
    t1 = t1
    t2 = t2
    TimerIds = {t1, t2}
    QueueSize = 1
    Second = 2
    Timeouts = {1, 2}
    MaxTime = 3
    MaxArms = 2
    MaxSpurious = 1
SPECIFICATION FairSpec
CHECK_DEADLOCK FALSE
INVARIANTS
    TypeOK
    EntriesBelongToTimers
    MessageHasOneOwner
    TimesExact
PROPERTIES
    NeverEarlyNeverTwice
    QuietAfterDisArm
    PostsWhatWasGiven
    ArmedTimerFires
    EveryCallReturns

CONSTANTS
    j1 = j1
    j2 = j2
    j3 = j3
    Joiners = {j1, j2, j3}
    MaxStarts = 2
    MaxSpurious = 2
SPECIFICATION FairSpec
CHECK_DEADLOCK FALSE
INVARIANTS
    TypeOK
    FreedAfterLastTouch
    JoinMeansRunEnded
PROPERTIES
    EveryJoinReturns

CONSTANTS
    Unparsable = Unparsable
    Devices = {420, 1234567}
    Numbers <- MCNumbers
    IntMax = 99999999
    MaxConns = 2
    MaxDecisions = 2
    MaxWire = 1
SPECIFICATION Spec
INVARIANTS
    TypeOK
    OpenMeansRegistered
    DecisionUsedOnce
    AnswerWasDecided
PROPERTIES
    PostReachesItsApps

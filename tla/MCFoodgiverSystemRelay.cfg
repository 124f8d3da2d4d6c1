CONSTANTS
    Unparsable = Unparsable
    Devices = {420}
    Numbers <- MCOwnNumber
    IntMax = 99999999
    Dev = 420
    MaxConns = 1
    MaxDecisions = 1
    MaxWire = 1
    PollLimit = 3
    MaxRuns = 1
    MaxFaults = 0
SPECIFICATION SysFairSpec
CHECK_DEADLOCK FALSE
PROPERTIES
    AnswerReachesFeeder

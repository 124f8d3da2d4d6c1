CONSTANTS
    Unparsable = Unparsable
    Devices = {420}
    Numbers <- MCNumbers
    IntMax = 99999999
    Dev = 420
    MaxConns = 2
    MaxDecisions = 2
    MaxWire = 1
    PollLimit = 2
    MaxRuns = 2
    MaxFaults = 1
SPECIFICATION SysSpec
CHECK_DEADLOCK FALSE
INVARIANTS
    OneCommandPerDecision
    CommandKeepsWord

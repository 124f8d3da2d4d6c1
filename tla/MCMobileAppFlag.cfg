CONSTANTS
    Ids = {d1}
    d1 = d1
    NULL = NULL
    MaxClients = 2
    MaxRequests = 2
    MaxKills = 1
    MaxSaves = 2
SPECIFICATION Spec
CHECK_DEADLOCK FALSE
INVARIANTS
    FlagTellsUnanswered

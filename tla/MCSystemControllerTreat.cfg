CONSTANTS
    QueueSize = 2
    PollLimit = 3
    MaxFeedings = 2
    MaxWrites = 2
SPECIFICATION Spec
INVARIANTS
    TreatOnlyIfAllowed

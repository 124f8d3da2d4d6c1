CONSTANTS
    Unparsable = Unparsable
    Devices = {420, 1234567}
    Numbers <- MCNumbers
    IntMax = 99999999
    MaxConns = 1
    MaxDecisions = 1
    MaxWire = 1
SPECIFICATION Spec
INVARIANTS
    RegisteredAsSent

CONSTANTS
    Generations = {"old", "new"}
    MaxTicks = 4
    MaxQueue = 3
    MaxFails = 2
    MAX_LINE = 6
    MAX_PAYLOAD = 5
SPECIFICATION FairSpec
INVARIANTS
    Faithful
    GivesUpAfterLoss
PROPERTIES
    HandshakeEnds
    Logged
CHECK_DEADLOCK FALSE

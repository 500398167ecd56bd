SPECIFICATION FairTurnSpec
CONSTANTS
    NCalls = 1
    Iterations = 1
    Limit = 1
    MaxInbound = 0
PROPERTIES CancelStops
CHECK_DEADLOCK FALSE

SPECIFICATION ReplSpec
CONSTANTS
    MaxTurns = 1
    MaxEvents = 2
    MaxReplFaults = 0
PROPERTIES CtrlCReturns
CHECK_DEADLOCK FALSE

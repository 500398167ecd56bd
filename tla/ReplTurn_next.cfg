SPECIFICATION ReplSpec
CONSTANTS
    MaxTurns = 2
    MaxEvents = 1
    MaxReplFaults = 0
INVARIANTS NextIsTaken
CHECK_DEADLOCK FALSE

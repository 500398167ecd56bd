SPECIFICATION ConversationSpec
CONSTANTS
    Searched = {"agent", "reply", "repl", "program", "mcp"}
    boot = boot
    c1 = c1
    c2 = c2
    Callers = {boot, c1, c2}
    Boot = boot
    NCalls = 2
    Iterations = 3
    Limit = 2
    MaxInbound = 1
    MaxBlocks = 3
    MaxPieces = 1
    MaxTurns = 3
    MaxEvents = 2
    MaxReplFaults = 1
    MaxFaults = 1
    MaxMishaps = 3
INVARIANTS WellTyped RepliesAreWhole PromptsAreWhole ExitIsOrderly CallsAreServed
PROPERTIES TurnsAreWhole EverythingReturns
CHECK_DEADLOCK FALSE

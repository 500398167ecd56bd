SPECIFICATION WorktreeSpec
CONSTANTS
    Procs = {"p1", "p2"}
    MaxCommits = 1
INVARIANTS EnteredIsWhole
CHECK_DEADLOCK FALSE

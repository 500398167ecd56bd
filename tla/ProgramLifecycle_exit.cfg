SPECIFICATION ProgramSpec
CONSTANTS
    MaxMishaps = 3
INVARIANTS ExitCleansUp
CHECK_DEADLOCK FALSE

SPECIFICATION StorageSpec
SYMMETRY Symmetry
CONSTANTS
    Searched = {"lease", "session", "memory", "archive", "skills"}
    p1 = p1
    p2 = p2
    p3 = p3
    q1 = q1
    q2 = q2
    Procs = {p1, p2, p3}
    NoProc = NoProc
    Expiry = 2
    Attempts = 2
    MaxGen = 3
    MaxCommits = 3
    Programs = {q1, q2}
    MaxLines = 5
    MaxLogged = 2
    MaxLogFaults = 2
    Apps = {q1, q2}
    Workspaces = {"w1", "w2"}
    WorkspaceOf <- Homes
    MaxUpdates = 3
    MaxMemFaults = 2
    Sessions = {q1, q2}
    Talkers = {q1}
    FailureLimit = 2
    MaxDirs = 2
    MaxMessages = 3
    MaxRecords = 4
    Skills = {"s", "t"}
    Packaged = {"s"}
    Shared = {"s", "t"}
    MaxShared = 3
    Inputs = {"i"}
    MaxEdits = 1
    MaxCopies = 3
    MaxSkillFaults = 2
INVARIANTS WellTyped LeaseIsFenced MemoryIsKept ArchiveIsKept SkillsAreKept
PROPERTIES ImplementsRegister SessionsAreKept
CHECK_DEADLOCK FALSE

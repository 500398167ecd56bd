SPECIFICATION BackgroundSpec
CONSTANTS
    Searched = {"tasks"}
    c1 = c1
    c2 = c2
    c3 = c3
    c4 = c4
    c5 = c5
    fore = fore
    fork = fork
    Callers = {c1, c2, c3, c4, c5}
    Owners = {"team_member:a", "team_member:b", "subagent:c", "subagent:d"}
    OwnerOf <- MCOwnerOf
    Limit = 2
    Tasks = {fore, fork}
    Forks = {fork}
    MaxActive = 2
    Retention = 1
    Dispatchers = {"main", "memory", "tool", "sub"}
    Runtimes = {"root", "task"}
    RuntimeOf <- MCHome
    PromptOwners = {"root", "task"}
    PromptOwnerOf <- MCHome
    EventOf <- MCEvent
    Forkers = {"memory"}
    HookRules <- MCRules
    Budget = 1
    Room = 2
    Rounds = 1
    Servers <- MCServers
    Names = {"x", "y"}
    Reserved = {"y"}
    MaxFaults = 2
INVARIANTS LateMeansFailed
CHECK_DEADLOCK FALSE

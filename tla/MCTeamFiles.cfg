SPECIFICATION FilesSpec
SYMMETRY Symmetry
CONSTANTS
    Searched = {"roster", "worktree", "delivery", "integration"}
    m1 = m1
    m2 = m2
    p1 = p1
    p2 = p2
    x1 = x1
    x2 = x2
    d1 = d1
    d2 = d2
    Members = {m1, m2}
    Paned = {m1}
    Leads = {p1, p2}
    Txs = {x1, x2}
    MaxPanes = 2
    Procs = {p1, p2}
    MaxCommits = 2
    Tasks = {d1, d2}
    Deps <- D2NeedsD1
    Workers = {m1}
    MaxHead = 2
    MaxCalls = 1
    LastStep = 2
    MaxUserCommits = 2
    MaxCuts = 2
    NoMember = NoMember
    NoTx = NoTx
    NoLead = NoLead
INVARIANTS WellTyped RosterIsWhole WorktreesAreWhole DeliveriesAreSound BatchesAreWhole
PROPERTIES WorkIsKept
CHECK_DEADLOCK FALSE

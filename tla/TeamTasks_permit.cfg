SPECIFICATION BoardSpec
CONSTANTS
    m1 = m1
    m2 = m2
    t1 = t1
    t2 = t2
    Members = {m1}
    Gated = {m1}
    Tasks = {t1, t2}
    Lead = Lead
    NoMember = NoMember
    NoTask = NoTask
    MaxRevision = 3
    MaxPlans = 1
INVARIANTS
    PermitProtects
CHECK_DEADLOCK FALSE

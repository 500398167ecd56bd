SPECIFICATION WakeSpec
CONSTANTS
    Searched = {"scheduler", "mailbox"}
    Msgs <- PeerAndTask
    m1 = m1
    m2 = m2
    Lead = Lead
    Participants = {Lead, m1, m2}
    MaxMailFaults = 2
    Members = {m1, m2}
    Gated = {m1}
    Limit = 1
    CoordinatorEnabled = TRUE
    MaxRuns = 2
    MaxPaneRuns = 2
    MaxTries = 2
    MaxPaneFaults = 2
    MaxAttach = 2
    MaxFaults = 1
INVARIANTS TypeOK DriversAccounted MailIsWhole
PROPERTIES StaleResultRejected StoppedUntilResumed
CHECK_DEADLOCK FALSE

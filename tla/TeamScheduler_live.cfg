SPECIFICATION FairWakeSpec
CONSTANTS
    Searched = {"scheduler", "mailbox", "pane"}
    Msgs <- PeerOnly
    m1 = m1
    m2 = m2
    Lead = Lead
    Participants = {Lead, m1, m2}
    MaxMailFaults = 2
    Members = {m1, m2}
    Gated = {}
    Limit = 1
    CoordinatorEnabled = TRUE
    MaxRuns = 1
    MaxPaneRuns = 2
    MaxTries = 2
    MaxPaneFaults = 2
    MaxAttach = 2
    MaxFaults = 1
INVARIANTS PanesAreServed
PROPERTIES PeersAreWoken RunsEnd
CHECK_DEADLOCK FALSE

SPECIFICATION WakeSpec
CONSTANTS
    Searched = {"scheduler"}
    Msgs <- PeerOnly
    m1 = m1
    m2 = m2
    Lead = Lead
    Participants = {Lead, m1, m2}
    MaxMailFaults = 0
    Members = {m1}
    Gated = {m1}
    Limit = 1
    CoordinatorEnabled = FALSE
    MaxRuns = 2
    MaxPaneRuns = 2
    MaxTries = 2
    MaxPaneFaults = 2
    MaxAttach = 1
    MaxFaults = 0
PROPERTIES TransitionsAreLegal
CHECK_DEADLOCK FALSE

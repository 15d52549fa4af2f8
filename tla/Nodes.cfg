CONSTANTS
    l1 = l1
    l2 = l2
    t1 = t1
    MaxConn = 2
    Label = {l1, l2}
    Tab = {t1}
    MaxPosts = 2
    MaxEvents = 3
SPECIFICATION FairSpec
INVARIANTS TypeOK NoDeadSession DownIsShown LabelsAnnounced OneRowPerAgent
PROPERTIES MaintenanceKept LabelsLostByStaleCopies Reachable
CHECK_DEADLOCK FALSE

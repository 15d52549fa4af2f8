CONSTANTS
    h1 = h1
    a1 = a1
    c1 = c1
    c2 = c2
    NoConn = NoConn
    HubExec = {h1}
    AgentExec = {}
    Conn = {c1, c2}
    Outcomes = {"SUCCESS"}
    MaxFaults = 2
    MaxExec = 1
    Lossy = {}
SPECIFICATION FairSpec
PROPERTIES ResultReachesHub
CHECK_DEADLOCK FALSE

CONSTANTS
    h1 = h1
    a1 = a1
    c1 = c1
    c2 = c2
    NoConn = NoConn
    HubExec = {h1}
    AgentExec = {a1}
    Conn = {c1, c2}
    Outcomes = {"SUCCESS"}
    MaxFaults = 2
    MaxExec = 1
    Lossy = {a1}
SPECIFICATION FairSpec
INVARIANTS TypeOK HubResultBacked AckedResultStored ReportInv
PROPERTIES JournalResultKept HubResultKept ResultEventuallySynced
CHECK_DEADLOCK FALSE

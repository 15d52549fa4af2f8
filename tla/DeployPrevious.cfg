SPECIFICATION Spec
CONSTANTS
    NoFile = NoFile
    Torn = Torn
    InitialHosts <- HostsForTLC
    Changes <- ChangesForTLC
    MaxRequests = 1
    MaxRunning = 1
    MaxFaults = 0
    MaxCrashes = 1
    MaxEdits = 0
    MaxOperations = 0
INVARIANTS PreviousRunsAgain
CHECK_DEADLOCK FALSE

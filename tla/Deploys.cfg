SPECIFICATION Spec
CONSTANTS
    NoFile = NoFile
    Torn = Torn
    InitialHosts <- HostsForTLC
    Changes <- ChangesForTLC
    MaxRequests = 2
    MaxRunning = 1
    MaxFaults = 1
    MaxCrashes = 2
    MaxEdits = 1
    MaxOperations = 1
INVARIANTS TypeOK SuccessIsInstalled JournalSuffices FailedIsRestored EveryRequestIsServed
CHECK_DEADLOCK FALSE

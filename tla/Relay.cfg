SPECIFICATION LiveSpec
CONSTANTS
    src = src
    dst = dst
    Source = src
    Target <- OneTarget
    Online <- SourceOnly
    Chunks = 2
    Attempts = 2
    MaxVersion = 1
    MaxFaults = 1
    MaxRequests = 1
    Mixed = FALSE
INVARIANTS TypeOK SuccessMeansDelivered DestinationIsWhole
PROPERTIES CancelUndoneByStaleCopy SettlesIfAttended
CHECK_DEADLOCK FALSE

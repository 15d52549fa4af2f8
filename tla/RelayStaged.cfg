SPECIFICATION FairSpec
CONSTANTS
    src = src
    dst = dst
    Source = src
    Target <- OneTarget
    Online <- Everybody
    Chunks = 1
    Attempts = 2
    MaxVersion = 0
    MaxFaults = 1
    MaxRequests = 0
    Mixed = FALSE
PROPERTIES StagedIsDelivered
CHECK_DEADLOCK FALSE

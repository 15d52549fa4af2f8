SPECIFICATION Spec
CONSTANTS
    src = src
    dst = dst
    Source = src
    Target <- OneTarget
    Online <- SourceOnly
    Chunks = 1
    Attempts = 2
    MaxVersion = 0
    MaxFaults = 0
    MaxRequests = 1
    Mixed = FALSE
PROPERTIES CancelIsFinal
CHECK_DEADLOCK FALSE

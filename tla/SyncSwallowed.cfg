CONSTANTS
    app = app
    schedule = schedule
    Obj = {app}
    Labelled = {app}
    Schedules = {}
    Single = {app}
    Packaged = {app}
    Tables = 1
    Table <- ReadOrder
    Window = 1
    MaxRev = 1
    Reports = {"HEARTBEAT", "REVISION_CHECK"}
    SendChannel = 1
    MaxQueue = 1
    MaxFaults = 1
    Lossy = TRUE
    ReuseIds = FALSE
    Dispatch = FALSE
SPECIFICATION FairSpec
PROPERTIES ConvergesFully
CHECK_DEADLOCK FALSE

CONSTANTS
    app = app
    schedule = schedule
    Obj = {schedule}
    Labelled = {}
    Schedules = {schedule}
    Single = {}
    Packaged = {}
    Tables = 1
    Table <- ReadOrder
    Window = 3
    MaxRev = 3
    Reports = {}
    SendChannel = 1
    MaxQueue = 1
    MaxFaults = 0
    Lossy = FALSE
    ReuseIds = TRUE
    Dispatch = FALSE
SPECIFICATION Spec
INVARIANTS AppliedComplete
CHECK_DEADLOCK FALSE

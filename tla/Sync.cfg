CONSTANTS
    app = app
    schedule = schedule
    Obj = {app, schedule}
    Labelled = {app, schedule}
    Schedules = {schedule}
    Single = {app}
    Packaged = {app}
    Tables = 2
    Table <- ReadOrder
    Window = 1
    MaxRev = 2
    Reports = {"HEARTBEAT", "REVISION_CHECK"}
    SendChannel = 2
    MaxQueue = 1
    MaxFaults = 1
    Lossy = TRUE
    ReuseIds = FALSE
    Dispatch = TRUE
SPECIFICATION MCSpec
INVARIANTS TypeOK AppliedComplete NodeNeverAhead SyncedNodeIsCurrent ArmedSchedulesStored RunOnlyWhenReconciled
PROPERTIES ImplementsReplica Converges
CHECK_DEADLOCK FALSE

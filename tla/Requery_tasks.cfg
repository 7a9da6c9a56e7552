SPECIFICATION Spec
CONSTANTS
    d1 = d1
    t1 = t1
    t2 = t2
    ui = ui
    Domains <- OneDomain
    Requests <- Servers
    Tasks <- TwoTasks
    MaxTimers = 1
    MaxUpdates = 1
    MaxFaults = 1
    MaxCrashes = 1
INVARIANTS RunningIsPersisted RunningIsCancellable RunRestores ScheduleIsAlive

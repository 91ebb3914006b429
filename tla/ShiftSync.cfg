SPECIFICATION SyncLive
CONSTANTS
    Caller = {c1}
    Loop = loop
    Atomic = {TRUE}
    AutoClose = {FALSE}
    MaxShifts = 2
    MaxSales = 1
    Stoppable = {}
    MaxBackdates = 0
    MaxCuts = 0
    MaxCrashes = 1
    BatchSize = 2
    MaxRetries = 2
    MaxRefusals = 2
INVARIANT BackendAgrees
PROPERTY ClosedShown
CHECK_DEADLOCK FALSE

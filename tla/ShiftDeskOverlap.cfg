SPECIFICATION Spec
CONSTANTS
    Caller = {c1, c2}
    Loop = loop
    Atomic = {TRUE}
    AutoClose = {FALSE}
    MaxShifts = 3
    MaxSales = 1
    Stoppable = {}
    MaxBackdates = 0
    MaxCuts = 0
    MaxCrashes = 0
INVARIANT OneActive
CHECK_DEADLOCK FALSE

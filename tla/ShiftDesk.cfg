SPECIFICATION Spec
CONSTANTS
    Caller = {c1}
    Loop = loop
    Atomic = {TRUE, FALSE}
    AutoClose = {TRUE, FALSE}
    MaxShifts = 2
    MaxSales = 2
    Stoppable = {1}
    MaxBackdates = 1
    MaxCuts = 1
    MaxCrashes = 1
INVARIANT TotalsMatch
INVARIANT MirrorTrue
CHECK_DEADLOCK FALSE
VIEW WithoutQueue

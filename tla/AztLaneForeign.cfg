SPECIFICATION Spec
CONSTANTS
    Hose = {1}
    None = None
    MaxVolume = 2
    Numbered = FALSE
    MaxOrders = 1
    MaxForeign = 1
    MaxShifts = 1
    MaxCrashes = 1
    MaxClears = 0
    MaxFaults = 1
INVARIANTS
    NoSaleLost
    BilledOnce
CHECK_DEADLOCK FALSE

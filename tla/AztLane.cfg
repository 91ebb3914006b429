SPECIFICATION Spec
CONSTANTS
    Hose = {1}
    None = None
    MaxVolume = 1
    Numbered = TRUE
    MaxOrders = 2
    MaxForeign = 0
    MaxShifts = 2
    MaxCrashes = 1
    MaxClears = 1
    MaxFaults = 1
INVARIANTS
    TypeOK
    NoSaleLost
    BilledOnce
    BilledToOrderShift
    OrderSurvivesCrash
CHECK_DEADLOCK FALSE

SPECIFICATION Spec
CONSTANTS
    Hose = {1, 2}
    None = None
    MaxVolume = 1
    Numbered = TRUE
    MaxOrders = 1
    MaxForeign = 1
    MaxShifts = 0
    MaxCrashes = 0
    MaxClears = 0
    MaxFaults = 0
PROPERTY
    StopHeld
CHECK_DEADLOCK FALSE

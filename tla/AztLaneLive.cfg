SPECIFICATION FairSpec
CONSTANTS
    Hose = {1}
    None = None
    MaxVolume = 1
    Numbered = TRUE
    MaxOrders = 1
    MaxForeign = 0
    MaxShifts = 1
    MaxCrashes = 1
    MaxClears = 0
    MaxFaults = 1
PROPERTIES
    LedgerSpec
    FinishedSaleSettled
    StopCarriedOut
    StopHeld
CHECK_DEADLOCK FALSE

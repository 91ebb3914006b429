SPECIFICATION FairSpec
CONSTANTS
    Nozzle = {1, 2}
    None = None
    MaxVolume = 2
    MaxFills = 2
    MaxQueue = 1
    Budgets <- MCBudgets
INVARIANTS
    SaleKept
    BilledOnce
    BilledRight
    ServedAsOrdered
PROPERTY
    Settles
CHECK_DEADLOCK FALSE

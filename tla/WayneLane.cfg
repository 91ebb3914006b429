SPECIFICATION Spec
CONSTANTS
    Nozzle = {1, 2}
    None = None
    MaxVolume = 2
    Preset = {None, 2}
    MaxFills = 2
    DecelWindow = TRUE
    Budgets <- MCBudgets
INVARIANTS
    BilledOnce
    HolsteredArmsNothing
PROPERTY
    SaleKept
CHECK_DEADLOCK FALSE

SPECIFICATION Spec
CONSTANTS
    Hose = {1, 2}
    None = None
    MaxVolume = 1
    Target = {None, 1}
    MaxFills = 2
    Budgets <- MCBudgets
INVARIANTS
    OwnedUntilBilled
    BilledFinal
    OneSalePerLift
    DoseOfOrder
CHECK_DEADLOCK FALSE

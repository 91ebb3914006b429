SPECIFICATION FairSpec
CONSTANTS
    Gun = {1, 2}
    None = None
    MaxVolume = 1
    MaxFills = 2
    MaxQueue = 1
    Budgets <- MCBudgets
INVARIANTS
    SaleKept
    BilledOnce
    BilledFinal
    CancelWins
    ServedOnce
PROPERTY
    CancelEnds
CHECK_DEADLOCK FALSE

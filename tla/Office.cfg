SPECIFICATION FairSpec
CONSTANTS
    Nozzle = {1, 2}
    Price = {1, 2}
    Tanks = {"t1", "t2"}
    Target <- MCTarget
    Branch = {1, 2}
    Admin = {a1, a2}
    Change = {1, 2}
    None = None
    QueueCap = 1
    Budgets <- MCBudgets
INVARIANTS
    StoresAgree
    ScheduleKept
    LevelsCurrent
    CatalogFirst
    ExportKept
PROPERTY
    ScheduleEnds
CHECK_DEADLOCK FALSE

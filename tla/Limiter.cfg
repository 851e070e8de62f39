SPECIFICATION LimiterSpec
CONSTANTS
    Callers = {c1, c2}
    Requests = {r1, r2}
    NoCaller = nobody
    MaxAttempts = 3
    Window = 2
    SweepAbove = 1
INVARIANTS
    KeepsToBudget
    BudgetPerWindow
PROPERTIES
    LetInAgain

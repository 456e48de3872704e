\* Two worktrees, two processes, claims with and without a time budget.
SPECIFICATION Spec
CHECK_DEADLOCK FALSE
CONSTANTS
    NoBudget = NoBudget
    PhaseCounts = {2}
    Threshold = 1
    BudgetSteps = 1
    CallBudgets <- MCCallBudgets
    SetStatuses = {"running"}
    MaxWorktrees = 2
    MaxTime = 2
    MaxLines = 5
    MaxProcesses = 2
INVARIANTS
    TypeOK
    SurvivalIsExplained
    StatusFollowsJournal
    BudgetIsEnforced
    StalledWasIdle

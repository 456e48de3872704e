\* A worktree that was idle before the process started.
SPECIFICATION Spec
CHECK_DEADLOCK FALSE
CONSTANTS
    NoBudget = NoBudget
    PhaseCounts = {2}
    Threshold = 1
    BudgetSteps = 0
    CallBudgets <- MCNoBudgets
    SetStatuses = {"running"}
    MaxWorktrees = 2
    MaxTime = 2
    MaxLines = 5
    MaxProcesses = 2
INVARIANT
    StallsAreFound

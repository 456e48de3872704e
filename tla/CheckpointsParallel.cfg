\* Parallel and interrupted calls, slash commands, failing writes: a running
\* session keeps what it was told.
SPECIFICATION Spec
CHECK_DEADLOCK FALSE
SYMMETRY CallSymmetry
CONSTANTS
    Calls = {c1, c2}
    EngineStages = {literature, reviewer}
    OwnStage = computational
    Interrupts = TRUE
    Limit <- ParallelLimit
    MaxFailures = 1
PROPERTIES
    DecisionsKept

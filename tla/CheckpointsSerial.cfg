\* Tool calls one at a time, sessions restarted: the shared id sequence holds.
SPECIFICATION Spec
CHECK_DEADLOCK FALSE
SYMMETRY StageSymmetry
CONSTANTS
    Calls = {c1}
    EngineStages = {literature, reviewer}
    OwnStage = computational
    Interrupts = FALSE
    Limit <- SerialLimit
    MaxFailures = 0
INVARIANTS
    TypeOK
    UniqueCheckpointIds
    ConfirmedIsJournaled
PROPERTIES
    ConfirmedIsFinal
    CardIsOwnStage

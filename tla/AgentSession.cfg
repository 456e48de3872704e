SPECIFICATION SessionFairSpec
CHECK_DEADLOCK FALSE
CONSTANTS
    Callers = {"c1"}
    MaxRetries = 1
    MaxNotes = 1
    MaxCompactions = 1
    MaxTexts = 2
    MaxResponses = 1
    MaxFailures = 2
    MaxCalls = 1
    MaxFaults = 0
    OtherRoles = {"bashExecution", "custom", "compactionSummary"}
    Errors = {"transient", "overflow"}
    SteeringMode = "one-at-a-time"
    FollowUpMode = "one-at-a-time"
    ExecutionModes = {"sequential"}
INVARIANTS
    SessionTypeOK
    IdleMeansIdle
    SessionHoldsTranscript
    ModelSeesSession
    CallsAreAnswered
    RecoveryIsBounded
PROPERTIES
    QueuedIsDelivered
    SessionSettles

\* One caller of prompt(): the agent refuses a continuation after a retry and an overflow.
SPECIFICATION SessionSpec
CHECK_DEADLOCK FALSE
CONSTANTS
    Callers = {"c1"}
    MaxRetries = 1
    MaxNotes = 1
    MaxCompactions = 1
    MaxTexts = 2
    MaxResponses = 1
    MaxFailures = 2
    MaxCalls = 1
    MaxFaults = 0
    OtherRoles = {"bashExecution", "custom", "compactionSummary"}
    Errors = {"transient", "overflow"}
    SteeringMode = "one-at-a-time"
    FollowUpMode = "one-at-a-time"
    ExecutionModes = {"sequential"}
INVARIANT ContinueIsLegal

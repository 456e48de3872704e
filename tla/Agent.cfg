\* One agent, its callers and one loop: batches of two calls in either mode.
SPECIFICATION FairSpec
CHECK_DEADLOCK FALSE
CONSTANTS
    MaxTexts = 3
    MaxResponses = 1
    MaxFailures = 2
    MaxCalls = 2
    MaxFaults = 1
    OtherRoles = {}
    Errors = {"error"}
    SteeringMode = "one-at-a-time"
    FollowUpMode = "one-at-a-time"
    ExecutionModes = {"parallel", "sequential", "truncated"}
INVARIANTS
    TypeOK
    ModelSeesTranscript
    QueuesKeepOrder
    OneSteerPerTurn
    CallsAreAnswered
PROPERTIES
    AbortStartsNoTool
    RunsEnd

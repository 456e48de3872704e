\* Two posts, two checks for timeouts, an answer to an unknown id, a kill.
SPECIFICATION FairSpec
CHECK_DEADLOCK FALSE
CONSTANTS
    soon = soon
    late = late
    Asked = {soon, late}
    Timeout <- MCTimeout
    Procs = {p1}
    StrayIds = {1}
    Limit <- MCLimit
    MaxTime = 2
INVARIANTS
    TypeOK
    DefaultedOnce
    DefaultsAreDue
    MirrorFollowsJournal
PROPERTIES
    AnswersStand
    FoundGetsDefaulted

SPECIFICATION FairSpec
CONSTANTS
    Outgoing = {m}
    MaxRetries = 3
    Base = 1
    MaxDelay = 3
    Timeout = 1
    Window = 12
    Outage = 2
    MaxBreaks = 3
    Unknown = Unknown
    Topics = {t}
    Statuses = {"ai_start", "ai_done", "received"}
    Limit = 2
    Period = 2
    PageSize = 2
    MaxSeen = 2
    Kept = 1
    MaxLosses = 2
    Never = Never
INVARIANTS
    AcceptedOnce
    ShownOnce
PROPERTIES
    CallEnds
    HeardIsShown
CHECK_DEADLOCK FALSE

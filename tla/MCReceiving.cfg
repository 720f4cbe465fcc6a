SPECIFICATION FairSpec
CONSTANTS
    Messages = {m, n}
    Ttl = 2
    MaxMemory = 1
    None = None
    Direct = {m}
    MaxCopies = 1
    MaxDeliver = 3
    MaxFaults = 2
INVARIANTS
    HandledOnce
    AckedIsHandled
PROPERTY
    EventuallyHandled
CHECK_DEADLOCK FALSE

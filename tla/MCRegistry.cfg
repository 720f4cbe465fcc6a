SPECIFICATION FairSpec
CONSTANTS
    Anons = {v, w}
    Named = {1}
    Reporters = {1}
    MaxId = 2
    Timeout = 1
    Grace = 2
    StalledTime = 0
    MaxCount = 1
    MaxFaults = 1
    None = None
INVARIANTS
    AnsweredIsFound
    NumberGivenOnce
    OfflineMeansSilent
    DownIsAnnounced
PROPERTY
    SilentGoesOffline
CHECK_DEADLOCK FALSE

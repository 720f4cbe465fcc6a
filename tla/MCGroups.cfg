SPECIFICATION Spec
CONSTANTS
    o = o
    x = x
    Commands <- MCCommands
    Agents = {o, x}
    Owner = o
    None = None
    Retries = 2
    MaxRequests = 3
    MaxTimeouts = 1
    MaxStarts = 1
    MaxFaults = 1
INVARIANTS
    AnsweredIsMember
    QuietIsSaved
    AnnouncementReaches
    MemberHears
CHECK_DEADLOCK FALSE

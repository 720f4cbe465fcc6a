SPECIFICATION FairSpec
CONSTANTS
    Msgs = {m1, m2}
    NoMsg = NoMsg
    Operational = {m2}
    Exits = {"reply", "empty", "suppressed", "timeout", "retryable", "exit2", "exit3", "exit4"}
    SendMayFail = TRUE
    Capacity = 1
    Threshold = 1
    Cooldown = 2
    Stall = 0
    MaxGroupCalls = 1
    MaxRestarts = 1
    L1Trigger = 3
    L2Trigger = 3
    CountCap = 0
INVARIANTS
    AtMostOneReply
    SlotFollowsLoop
    NoLostWakeup
PROPERTIES
    RestartKeepsUnsettled
    EveryMessageSettles
CHECK_DEADLOCK FALSE

SPECIFICATION FeedSpec
CONSTANTS
    me = me
    a = a
    Me = me
    Others = {a}
    Signs = {"mention"}
    FeedMessages <- MCMessages
    Policies <- MCPolicies
    DefaultPolicy <- MCDefaultPolicy
    Penetrate = TRUE
    DedupWindow = 2
    MaxHot = 1
    Batch = 2
    Recent = 1
    KnownMax = 2
    KnownKept = 1
    MaxAckPending = 2
    MaxMessages = 3
    MaxFaults = 2
    None = None
INVARIANTS
    HotBudget
    OnlyBehindOther
PROPERTY
    RepeatsExplained
CHECK_DEADLOCK FALSE

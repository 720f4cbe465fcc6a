SPECIFICATION FairSpec
CONSTANTS
    L1Trigger = 3
    L2Trigger = 3
    CountCap = 4
    Threshold = 2
    Cooldown = 2
    MaxGroupCalls = 1
INVARIANTS
    StalledIffHealthFailed
    FirstCooldownIsKept
PROPERTIES
    NoFlapping
    OpenEnds

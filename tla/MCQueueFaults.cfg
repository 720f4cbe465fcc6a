SPECIFICATION FairSpec
CONSTANTS
    Messages = {m1, m2}
    NoMsg = NoMsg
    Capacity = 1
    MinLines = 3
    Redelivery = TRUE
    MaxFaults = 1
    MaxBoots = 2
PROPERTIES
    ImplementsDurableQueue
    EventuallyDurable
CHECK_DEADLOCK FALSE

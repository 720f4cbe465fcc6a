SPECIFICATION SessionSpec
CONSTANTS
    Capacity = 2
    NoMsg = 0
    MaxArrivals = 4
    MaxRestored = 3
INVARIANTS
    ArrivalOrder
    BacklogBound
CHECK_DEADLOCK FALSE

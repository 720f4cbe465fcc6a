SPECIFICATION Spec
CONSTANTS
    Processes = {p1, p2}
    MaxFiles = 3
INVARIANT OneInstance
CHECK_DEADLOCK FALSE

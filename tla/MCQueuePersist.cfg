SPECIFICATION Spec
CONSTANTS
    Messages = {m1, m2, m3, m4}
    NoMsg = NoMsg
    Capacity = 2
    MinLines = 4
    Redelivery = FALSE
    MaxFaults = 1
    MaxBoots = 3
SYMMETRY Symmetry
INVARIANTS
    NothingForgotten
    NothingResurrected
    OrderSurvives
    DamageIsBounded
CHECK_DEADLOCK FALSE

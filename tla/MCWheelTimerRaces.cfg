CONSTANTS
    Elem = {e1, e2}
    Thread = {rx}
    WheelThread = wheel
    WheelSize = 2
    MaxInterval = 3
    CounterMod = 1
    Calls <- MCCallsAll
    Serialised = FALSE
SPECIFICATION Safety
SYMMETRY MCSymmetry
INVARIANTS
    NoDangling
    NoneLost
    FaultsCrossed
    BlocksCrossed
CHECK_DEADLOCK FALSE
PROPERTIES
    KeepsTimeApart

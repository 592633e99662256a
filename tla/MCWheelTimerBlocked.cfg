CONSTANTS
    Elem = {e1, e2}
    Thread = {rx}
    WheelThread = wheel
    WheelSize = 2
    MaxInterval = 3
    CounterMod = 1
    Calls <- MCCallsLocked
    Serialised = FALSE
SPECIFICATION Safety
INVARIANTS
    NothingBlocks
CHECK_DEADLOCK FALSE

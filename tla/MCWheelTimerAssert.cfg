CONSTANTS
    Elem = {e1, e2}
    Thread = {rx}
    WheelThread = wheel
    WheelSize = 2
    MaxInterval = 3
    CounterMod = 1
    Calls <- MCCallsAll
    Serialised = TRUE
SPECIFICATION Safety
INVARIANTS
    OpcodeKnown
CHECK_DEADLOCK FALSE

CONSTANTS
    Elem = {e1, e2}
    Thread = {rx}
    WheelThread = wheel
    WheelSize = 2
    MaxInterval = 2
    CounterMod = 1
    Calls <- MCCallsLocked
    Serialised = TRUE
SPECIFICATION Spec
INVARIANTS
    TypeOK
    NoFault
    NothingBlocks
PROPERTIES
    Reclaimed
    ImplementsTimerService

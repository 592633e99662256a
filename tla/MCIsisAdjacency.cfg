CONSTANTS
    Intf = {eth0, eth1}
    HoldTime = 6
    DeleteTime = 5
    CountMod = 3
SPECIFICATION Spec
INVARIANTS
    TypeOK
    TimersMatchState
    HeardRecently
    ExpiryJustified
    UpCountDrift
    ReconcilingWhileUp
PROPERTIES
    QuietIsFreed
    UsesTimerService
CHECK_DEADLOCK FALSE

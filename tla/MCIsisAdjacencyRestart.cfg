CONSTANTS
    Intf = {eth0, eth1}
    HoldTime = 6
    DeleteTime = 5
    CountMod = 3
SPECIFICATION Safety
INVARIANTS
    RestartSafe
CHECK_DEADLOCK FALSE

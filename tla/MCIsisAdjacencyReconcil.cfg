CONSTANTS
    Intf = {eth0, eth1}
    HoldTime = 6
    DeleteTime = 5
    CountMod = 3
SPECIFICATION Spec
PROPERTIES
    ReconciliationEnds
CHECK_DEADLOCK FALSE

SPECIFICATION Spec
CONSTANTS
    Netdevs = {wlan0, p2p0}
    MaxAttempts = 4
INVARIANTS
    UndoesOnlyItsOwn
    PortsReusable
CHECK_DEADLOCK FALSE

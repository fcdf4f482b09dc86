SPECIFICATION FairSpec
CONSTANTS
    Classes = {"rtt"}
    Ids = {i1}
    MaxCommands = 1
    MaxEvents = 1
    AllocCmd = 1
    AllocEventCb = 1
    Exclusive = TRUE
    FreshIds = TRUE
    Faults = {"hup"}
PROPERTY CleanupFinishes
CHECK_DEADLOCK FALSE

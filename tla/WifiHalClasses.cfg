SPECIFICATION Spec
CONSTANTS
    Classes = {"scan", "fullscan", "hotlist", "epno", "sigchange", "anqpo", "rssi"}
    Ids = {i1, i2}
    MaxCommands = 2
    MaxEvents = 1
    AllocCmd = 2
    AllocEventCb = 12
    Exclusive = TRUE
    FreshIds = TRUE
    Faults = {"write", "hup"}
SYMMETRY IdSymmetry
INVARIANT HandlersLive
INVARIANT ActiveIsSubscribed
PROPERTY KeepsPromises
CHECK_DEADLOCK FALSE

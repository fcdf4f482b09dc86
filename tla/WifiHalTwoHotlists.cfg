SPECIFICATION Spec
CONSTANTS
    Classes = {"hotlist"}
    Ids = {i1, i2}
    MaxCommands = 2
    MaxEvents = 0
    AllocCmd = 2
    AllocEventCb = 4
    Exclusive = FALSE
    FreshIds = TRUE
    Faults = {}
SYMMETRY IdSymmetry
INVARIANT CancelLeavesNoHandler

SPECIFICATION FairSpec
CONSTANTS
    Classes = {"hotlist", "rtt"}
    Ids = {i1, i2, i3}
    MaxCommands = 3
    MaxEvents = 2
    AllocCmd = 2
    AllocEventCb = 2
    Exclusive = TRUE
    FreshIds = TRUE
    Faults = {"overrun"}
INVARIANT TypeOK
INVARIANT RefsExact
INVARIANT NoUseAfterFree
INVARIANT LoopGoneBeforeFree
INVARIANT CleanupReleasesAll
PROPERTY CallsReturn
PROPERTY KeepsPromises

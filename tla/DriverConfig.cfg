SPECIFICATION Spec
CONSTANTS
    MaxBlacklist = 2
    MaxWhitelist = 1
    DriverMax = 3
    NAvailId = 2
    MatrixSizes = {0, 1, 2}
    IntMax = 3
    MaxResults = 2
    MaxNetworks = 2
    RttSlots = 5
    MaxIeLen = 1
    FixedLen = 1
    MaxSeen = 4
    MaxItems = 2
    MaxBurst = 2
    MaxAttributes = 3
INVARIANTS
    ListsFit
    RepliesInArray
    NoStaleEntries
    RttExact
CHECK_DEADLOCK FALSE

SPECIFICATION FairSpec
CONSTANTS
    Instances = {i1, i2}
    Threads = {t1}
    MaxGen = 2
    MaxStarts = 1
    MaxCalls = 1
    MaxFaults = 1
PROPERTIES
    CallbackRestored
CHECK_DEADLOCK FALSE

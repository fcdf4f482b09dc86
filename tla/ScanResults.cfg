SPECIFICATION Spec
CONSTANTS
    Maxes = {0, 1, 4}
    MaxRounds = 3
    MaxCalls = 2
    MaxScans = 6
    Chunk = 2
    Faults = {"create", "alloc", "send", "reply", "skip", "excess"}
INVARIANTS
    StaysInBuffer
    RepliesToThisRequest
    NoScanSkipped
    
PROPERTIES
    CallReturns
CHECK_DEADLOCK FALSE

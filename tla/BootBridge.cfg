SPECIFICATION Spec
CONSTANTS
    Tries = 60
    RootWritable = FALSE
INVARIANTS
    UserdataAtHandOver
    ReadyForInit
PROPERTIES
    Decides
CHECK_DEADLOCK FALSE

SPECIFICATION Spec
CONSTANTS
    Instances = {i1, i2}
    Threads = {t1, t2}
    MaxGen = 2
    MaxStarts = 0
    MaxCalls = 2
    MaxFaults = 1
INVARIANTS
    NeverStranded
    AnswersTheCaller
    SerialsDistinct
SYMMETRY ThreadSymmetry
CHECK_DEADLOCK FALSE

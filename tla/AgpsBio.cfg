SPECIFICATION Spec
CONSTANTS
    Bios = {b1, b2}
    States = {s1, s2}
    None = None
INVARIANTS StatesOwned ViewsInStep
PROPERTY KeepsForeignFlags

SPECIFICATION Spec
CONSTANTS
    Procs = {p1, p2}
    Sources = {s1, s2}
    NoSource = NoSource
    MaxCopies = 2
    Worlds <- AllWorlds
SYMMETRY Symmetry
CHECK_DEADLOCK FALSE
INVARIANTS TypeOK DeliversOwn RawReaped RetainedIsBacked NothingLeftOutside

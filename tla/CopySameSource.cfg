SPECIFICATION Spec
CONSTANTS
    Procs = {p1, p2}
    Sources = {s1}
    NoSource = NoSource
    MaxCopies = 2
    Worlds <- SameSource
CHECK_DEADLOCK FALSE
INVARIANT TargetNeverSeesRaw

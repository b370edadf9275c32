SPECIFICATION Spec
CONSTANTS
    Procs = {p1, p2}
    RunOps = {r1, r2}
    StopOps = {s1}
    DestroyOps = {d1}
    StatusOps = {q1}
    ExposeOps = {e1}
    NoOp = NoOp
    Foreign = Foreign
    PartList <- Plan
    VolumeParts <- Volumes
    MaxId = 2
    MaxCalls = 3
    Worlds <- AllWorlds
SYMMETRY Symmetry
CHECK_DEADLOCK FALSE
INVARIANTS TypeOK SucceededRuntime CompensatesOnlyOwn ReceiptsAgree UnknownSurfaced
INVARIANT FailedLeavesNothing

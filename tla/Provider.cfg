SPECIFICATION Spec
CONSTANTS
    p1 = p1
    p2 = p2
    o1 = o1
    o2 = o2
    d1 = d1
    d2 = d2
    Procs <- Processes
    Operations = {o1, o2}
    Names = {n1}
    DockerIds = {d1, d2}
    NoId = NoId
    Volumes = {v1}
    NoVolume = NoVolume
    Foreign = Foreign
    Stray = Stray
    Worlds <- AllWorlds
SYMMETRY Symmetry
INVARIANTS TypeOK LiveIsTracked BoundToOwn RemovesOnlyOwn SeenVolumeSurvives FailureNeverLeaksVolume FailureNeverLeaksContainer
CHECK_DEADLOCK FALSE

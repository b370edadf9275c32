SPECIFICATION FairSpec
CONSTANTS
    p1 = p1
    p2 = p2
    Procs <- Processes
    Operations = {o1}
    Names = {n1}
    DockerIds = {d1}
    NoId = NoId
    Keys = {k1, k2}
    NoKey = NoKey
    Nonces = {x1}
    MaxRecords = 4
INVARIANTS DiskValid EvidenceOnce
PROPERTY LockReleased

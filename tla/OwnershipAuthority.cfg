SPECIFICATION Spec
CONSTANTS
    p1 = p1
    p2 = p2
    Procs <- Processes
    Operations = {o1, o2}
    Names = {n1}
    DockerIds = {d1, d2}
    NoId = NoId
    Keys = {k1}
    NoKey = NoKey
    Nonces = {}
    MaxRecords = 4
SYMMETRY Symmetry
INVARIANT TypeOK
PROPERTIES LogPreserved ConvergeExclusive ImplementsCustody

SPECIFICATION Spec
CONSTANTS
    Procs = {p1, p2}
    MaxCalls <- Calls
    MaxEdits <- Edits
    Worlds <- ComposedWorlds
    RepoName <- Name
    Depends <- Mods
    Official <- OfficialRepo
    AllowedHosts <- Allowed
    Manifests <- AllManifests
    Commits = {1, 2}
    Local = 3
    Half = 4
    Absent = Absent
    Unlabelled = Unlabelled
    TempNames = {t1, t2, t3, t4}
CHECK_DEADLOCK FALSE
INVARIANT RunReachable

SPECIFICATION Spec
CONSTANTS
    Data = {d1, d2}
    Jobs = {j1, j2}
    PackSize = 2
    KeepLast = 1
    KeepDaily = 1
    RunsPerDay = 2
    MaxRuns = 3
    MaxFaults = 1
INVARIANTS
    TypeOK
    SnapshotsComplete
    IndexesHold
    NotTakenForDamaged
    MountedReads
    SuccessIsWhole
    PrunedClean
SYMMETRY AnyName
CHECK_DEADLOCK FALSE

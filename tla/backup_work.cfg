SPECIFICATION Spec
CONSTANTS
    Drives = {d1}
    Mounters = {m1}
    NoOperation = NoOperation
    Jobs = {j1, j2}
    Endings = {"done"}
INVARIANTS
    TypeOK
    OneTaskPerJob
    StopsOnlyAfterStart
    ForegroundWhileNeeded
PROPERTIES
    QueuedJobsEnd
    EndsWhenNothingIsLeft
CHECK_DEADLOCK FALSE

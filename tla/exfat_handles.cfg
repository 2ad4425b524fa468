SPECIFICATION Spec
CONSTANTS
    Names = {a, b}
    Nodes = {n1, n2}
    None = None
    Stop = Stop
    QueueCap = 1
    MaxRefs = 2
INVARIANTS
    TypeOK
    ReferencesOwed
    UnlinkedIsReferred
    NoNativeCrash
PROPERTIES
    ReleaserEnds
CHECK_DEADLOCK FALSE

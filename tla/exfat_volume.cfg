SPECIFICATION Spec
CONSTANTS
    Files = {f1, f2}
    ClusterCount = 3
    MaxSize = 3
    MaxWrite = 2
    MaxRun = 2
    MaxCalls = 3
    Lengths = {0}
    Fails = {"fat", "erase", "data", "entry", "bitmap"}
    Zero = Zero
    Junk = Junk
INVARIANTS
    TypeOK
    ContentKept
    SpaceAccounted
    FlushedSurvives
    
    
CHECK_DEADLOCK FALSE
SYMMETRY AnyFile

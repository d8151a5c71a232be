SPECIFICATION Spec
CONSTANTS
    Values = {0, 1}
    FlagOn = 1
    Windows = {1, 2}
    BucketOf <- Buckets2
    NoWindow = 0
    Limit = 2
    Keep = 1
    Skews <- Ahead
    MaxClock = 2
    MaxNotes = 3
    MaxLoads = 2
INVARIANTS TypeOK FlagCurrent ToastsAreRises OnHasTime ChartInOrder ChartComplete
PROPERTIES ChartTrimmed
CHECK_DEADLOCK FALSE

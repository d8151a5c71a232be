SPECIFICATION Spec
CONSTANTS
    Values = {0, 1}
    NoValue = NoValue
    PerSecond = 2
    MinInterval = 2
    Window = 2
    Bucket = 2
    MaxClock = 7
    MaxReadings = 4
    Shifts = {0, 1}
INVARIANTS TypeOK LatestIsLast StateIsRecent ChartEndsWithLatest

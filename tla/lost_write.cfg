SPECIFICATION Spec
CONSTANTS
    Workers = {1, 2}
    FileSize = 4
    ServerSizes = {4}
    Totals = {4}
    Estimates = {FALSE}
    ServerRange = {TRUE}
    SegmentCount = 2
    WorkerCap = 2
    MinSplits = {2}
    TailMinSplit = 2
    MaxSegments = 2
    MaxRetries = 2
    MaxExpansions = 1
    MaxChunk = 1
    Faults = {"write", "reject"}
    MaxFaults = 2
    MaxSessions = 1
INVARIANT RowsTrue
CHECK_DEADLOCK FALSE

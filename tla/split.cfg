SPECIFICATION Spec
CONSTANTS
    Workers = {1, 2}
    FileSize = 4
    ServerSizes = {4}
    Totals = {4}
    Estimates = {FALSE}
    ServerRange = {TRUE}
    SegmentCount = 2
    WorkerCap = 2
    MinSplits = {2}
    TailMinSplit = 1
    MaxSegments = 3
    MaxRetries = 2
    MaxExpansions = 1
    MaxChunk = 2
    Faults = {"drop", "crash"}
    MaxFaults = 1
    MaxSessions = 2
INVARIANTS PlanCovers RowsCover RowsTrue NoHole OneHolder
CHECK_DEADLOCK FALSE

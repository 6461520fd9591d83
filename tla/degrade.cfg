SPECIFICATION FairSpec
CONSTANTS
    Workers = {1, 2}
    FileSize = 3
    ServerSizes = {2, 3}
    Totals = {2}
    Estimates = {TRUE, FALSE}
    ServerRange = {TRUE, FALSE}
    SegmentCount = 3
    WorkerCap = 2
    MinSplits = {2}
    TailMinSplit = 1
    MaxSegments = 3
    MaxRetries = 1
    MaxExpansions = 1
    MaxChunk = 1
    Faults = {"reject", "range", "panic", "fatal", "cancel", "write", "db", "node", "disk"}
    MaxFaults = 1
    MaxSessions = 1
INVARIANTS PlanCovers RowsTrue PlainAlone
PROPERTIES SerialShrinks RunEnds
CHECK_DEADLOCK FALSE

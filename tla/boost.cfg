SPECIFICATION Spec
CONSTANTS
    t1 = t1
    t2 = t2
    q1 = q1
    Tasks = {t1, t2}
    Queues = {q1}
    Resolvable = {}
    Stored = {t1, t2}
    Limits = {1, 2}
    MaxAutoRetries = 0
    Commands = {"resume", "pause", "delete", "boost", "batchDelete", "queue"}
    MaxCommands = 3
    MaxReboots = 0
    NoTask = NoTask
    QueueOf <- OneQueue
    QueueMax <- Unlimited
SYMMETRY Symmetry
INVARIANT BoostTargetRuns
INVARIANT AutoPausedOwned
CHECK_DEADLOCK FALSE

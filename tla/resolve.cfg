SPECIFICATION FairSpec
CONSTANTS
    t1 = t1
    t2 = t2
    q1 = q1
    Tasks = {t1, t2}
    Queues = {q1}
    Resolvable = {t1}
    Stored = {t1, t2}
    Limits = {1}
    MaxAutoRetries = 1
    Commands = {"resume", "pause", "cancel", "restart", "batchDelete"}
    MaxCommands = 3
    MaxReboots = 0
    NoTask = NoTask
    QueueOf <- OneQueue
    QueueMax <- Unlimited
INVARIANT ActiveBacked
PROPERTIES PauseEnds QueueDrains
CHECK_DEADLOCK FALSE

SPECIFICATION Spec
CONSTANTS
    t1 = t1
    q1 = q1
    Tasks = {t1}
    Queues = {q1}
    Resolvable = {}
    Stored = {t1}
    Limits = {1}
    MaxAutoRetries = 1
    Commands = {"resume"}
    MaxCommands = 4
    MaxReboots = 0
    NoTask = NoTask
    QueueOf <- OneQueue
    QueueMax <- Unlimited
INVARIANT SingleWriter
CHECK_DEADLOCK FALSE

SPECIFICATION Spec
CONSTANTS
    t1 = t1
    t2 = t2
    t3 = t3
    q1 = q1
    q2 = q2
    Tasks = {t1, t2, t3}
    Queues = {q1, q2}
    Resolvable = {}
    Stored = {t1, t2}
    Limits = {1, 2}
    MaxAutoRetries = 1
    Commands = {"create", "pause", "resume", "delete", "limit"}
    MaxCommands = 3
    MaxReboots = 1
    NoTask = NoTask
    QueueOf <- TwoQueues
    QueueMax <- OneEach
SYMMETRY StoredSymmetry
INVARIANT PauseExclusive
INVARIANT ActiveBacked
INVARIANT PauseBacked
INVARIANT QueueServed
INVARIANT OccupancyCurrent
PROPERTY CapacityRespected
CHECK_DEADLOCK FALSE

SPECIFICATION FairSpec
CONSTANTS
    p1 = p1
    p2 = p2
    t1 = t1
    t2 = t2
    s1 = s1
    c1 = c1
    Tasks = {t1, t2}
    Statuses = {s1}
    Absent = Absent
    Publishers = {p1, p2}
    Kinds = {"deleted", "list"}
    Loadable <- AllThere
    Calls = {c1}
    Capacity = 1
    MaxPublished = 2
    Faults = {"die", "spawn", "reject", "break"}
    MaxFaults = 1
INVARIANTS OneDaemon ProjectionCurrent
PROPERTIES Reconnects CallContract
CHECK_DEADLOCK FALSE

SPECIFICATION FairSpec
CONSTANTS
    t1 = t1
    t2 = t2
    Tasks = {t1, t2}
    Sources = {"manual", "system"}
    Found = {{"manual"}, {"manual", "system"}}
    MaxExtras = 1
INVARIANTS EachLinkOnce
PROPERTIES NothingUntried NoBlindTakeoff Settles
CHECK_DEADLOCK FALSE

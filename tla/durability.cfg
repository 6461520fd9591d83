SPECIFICATION FairSpec
CONSTANTS
    w1 = w1
    w2 = w2
    Workers = {w1, w2}
    Size = 2
    Failing = {"gate"}
    MaxClock = 3
    MaxCrashes = 1
CHECK_DEADLOCK FALSE
INVARIANT DbDurable
INVARIANT GateSerial
INVARIANT FinishedWhole
PROPERTY GateAnswers

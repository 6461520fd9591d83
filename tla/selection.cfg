SPECIFICATION FairSpec
CONSTANTS
    r1 = r1
    other = other
    Requests = {r1}
    KindOf <- Kinds
    UIs = {"u1", "u2"}
    Others = {other}
    Answers = {"a", "b"}
    MaxLost = 1
INVARIANTS Audience NobodyLeftBehind FirstWins
PROPERTIES LateConflict WaitEnds PromptCleared SubscriptionEnds

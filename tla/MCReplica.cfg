SPECIFICATION FairSpec
CONSTANTS
    N = 3
    v = v
    w = w
    Value = {v, w}
    Noop = Noop
    MaxRound = 7
    MaxSlot = 3
    Late = {0}
    Histories <- AllHistories
INVARIANTS
    TypeOK
    DecisionsHaveMajority
    AppliedInOrder
    ChosenOnceAppliedOnce
    DecisionsKept
PROPERTIES
    EverythingApplied
CHECK_DEADLOCK FALSE

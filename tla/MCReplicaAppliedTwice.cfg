SPECIFICATION Spec
CONSTANTS
    N = 3
    v = v
    w = w
    Value = {v, w}
    Noop = Noop
    MaxRound = 7
    MaxSlot = 3
    Late = {0}
    Histories <- JustTwoRounds
INVARIANTS
    AppliedOnce
CHECK_DEADLOCK FALSE

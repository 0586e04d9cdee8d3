SPECIFICATION Spec
CONSTANTS
    N = 3
    v = v
    w = w
    x = x
    Value = {v, w}
    Noop = Noop
    MaxRound = 5
    MaxSlot = 2
    Trusted <- FirstAndSecond
    Request <- BothRequests
    MaxBrought = 1
    Proposing = {2}
    Reach <- Everybody
    Listener = {}
INVARIANTS
    SameValueDecided
CHECK_DEADLOCK FALSE

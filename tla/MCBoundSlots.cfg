SPECIFICATION Spec
CONSTANTS
    N = 3
    v = v
    w = w
    x = x
    Value = {v, w}
    Noop = Noop
    MaxRound = 5
    MaxSlot = 2
    Trusted <- First
    Request <- FirstRequests
    MaxBrought = 1
    Proposing = {1, 2}
    Reach <- Everybody
    Listener = {}
INVARIANTS
    BoundSlotsProposed
CHECK_DEADLOCK FALSE

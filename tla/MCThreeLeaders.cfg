SPECIFICATION OrderlySpec
CONSTANTS
    N = 3
    v = v
    w = w
    x = x
    Value = {v, w}
    Noop = Noop
    MaxRound = 6
    MaxSlot = 1
    Trusted <- Wavering
    Request <- LowRequests
    MaxBrought = 2
    Proposing = {0, 1, 2}
    Reach <- Ring
    Listener = {}
INVARIANTS
    Agreement
    AcceptsHaveMajority
CHECK_DEADLOCK FALSE

SPECIFICATION UnheardSpec
CONSTANTS
    N = 3
    v = v
    w = w
    x = x
    Value = {v, w, x}
    Noop = Noop
    MaxRound = 5
    MaxSlot = 3
    Trusted <- Themselves
    Request <- SharedRequests
    MaxBrought = 1
    Proposing = {1, 2}
    Reach <- LastTwo
    Listener = {}
SYMMETRY Symmetry
INVARIANTS
    TypeOK
    OneValuePerRound
    ProposalsAreSafe
CHECK_DEADLOCK FALSE

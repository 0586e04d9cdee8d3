SPECIFICATION ClusterSpec
CONSTANTS
    N = 3
    v = v
    w = w
    Value = {v, w}
    Noop = Noop
    MaxRound = 5
    MaxSlot = 2
    Trusted <- First
    Request <- SharedRequests
    MaxBrought = 1
    Proposing = {1, 2}
    Reach <- LastTwo
    Listener = {0, 2}
INVARIANTS
    ClusterTypeOK
    RegularDecisionsHaveMajority
    CountsDecidedSlots
    ProposesAfterApplied
    ReplicasAgree
    PromiseReportsVotes
    ProposesAfterDecided
PROPERTIES
    AcceptorSpec
    ImplementsMultiPaxos
CHECK_DEADLOCK FALSE

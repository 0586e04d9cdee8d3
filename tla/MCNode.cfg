SPECIFICATION FairSpec
CONSTANTS
    N = 2
    Self = 0
    Running = {1}
    Burst = 3
    Latency = 2
    HbInCap = 1
    HbOutCap = 1
    SubCap = 1
    PromiseCap = 1
    LdrCap = 1
    ChosenCap = 1
INVARIANTS
    TypeOK
    LeaderReachesServer
PROPERTIES
    StuckForGood
    ServerLoopReturns
    LeaderElected
CHECK_DEADLOCK FALSE

SPECIFICATION FairSpec
CONSTANTS
    N = 3
    MaxInt = 3
    MaxConns = 2
    MaxCrashes = 1
    LDR_CONN_NUM_RETRY = 1
    Kinds = {"console", "gui", "benchmark", "web"}
    MaxFaults <- MCFaults
    Script <- MCScript
INVARIANTS
    TypeOK
    AnswersOwnCommand
    TakenOnce
    BalancesAreCovered
PROPERTIES
    EveryCommandEnds
CHECK_DEADLOCK FALSE

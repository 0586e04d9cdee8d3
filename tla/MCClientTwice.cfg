SPECIFICATION FairSpec
CONSTANTS
    N = 3
    MaxInt = 3
    MaxConns = 2
    MaxCrashes = 0
    LDR_CONN_NUM_RETRY = 1
    Kinds = {"console"}
    MaxFaults <- MCConsoleFaults
    Script <- MCDeposits
INVARIANTS
    DecidedOnce
CHECK_DEADLOCK FALSE

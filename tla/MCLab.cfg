SPECIFICATION FairSpec
CONSTANTS
    n = n
    p1 = p1
    Self = n
    Peers = {p1}
    Conn = {1, 2}
    Ports = {1, 2}
    Cap = 1
    HbCap = 1
    Budget = 4
INVARIANTS
    EntriesAreRead
    PortsAreReturned
PROPERTIES
    NothingIsHeldUp
    Reconnects
CHECK_DEADLOCK FALSE

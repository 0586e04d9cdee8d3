SPECIFICATION FairSpec
CONSTANTS
    b1 = b1
    b2 = b2
    Client = {b1, b2}
    Slow = {b1}
    Leaving = {b2}
    BufSize = 1
    ReadLimit = 2
    SendCap = 1
    MaxUnits = 2
    MaxPings <- MCMaxPings
    MaxFrames <- MCMaxFrames
INVARIANTS
    TypeOK
    FramesInOrder
    DeliversBroadcasts
    BroadcastsAreMessages
PROPERTIES
    DisconnectedLeaves
CHECK_DEADLOCK FALSE

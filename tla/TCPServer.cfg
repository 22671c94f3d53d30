SPECIFICATION Spec
CONSTANTS
    Conns = {c1, c2}
    Ctl = {k1}
    NumListeners = 1
    ChanCap = 1
    SockCap = 1
    Embedded = TRUE
    MaxSeq = 2
    MaxStarts = 1
INVARIANTS
    StreamIsPrefix
    NothingVanishes
PROPERTIES
    QueuedIsDelivered
    BroadcastReturns
    DeadPeersLeave
    StopReturns
    StopClosesAll
CHECK_DEADLOCK FALSE

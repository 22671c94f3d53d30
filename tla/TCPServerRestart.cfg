SPECIFICATION SafetySpec
CONSTANTS
    Conns = {c1}
    Ctl = {k1}
    NumListeners = 1
    ChanCap = 1
    SockCap = 1
    Embedded = FALSE
    MaxSeq = 0
    MaxStarts = 2
INVARIANT NoPanic
CHECK_DEADLOCK FALSE

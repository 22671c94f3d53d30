SPECIFICATION Spec
CONSTANTS
    Conns = {c1}
    Ctl = {k1}
    NumListeners = 1
    ChanCap = 1
    SockCap = 1
    Embedded = FALSE
    MaxSeq = 0
    MaxStarts = 1
PROPERTY StopClosesAll
CHECK_DEADLOCK FALSE

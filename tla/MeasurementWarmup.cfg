CONSTANTS
    c1 = c1
    c2 = c2
    NoConn = NoConn
    Conns = {c1, c2}
    MaxSeq = 2
    MaxWarm = 1
    MaxDups = 0
SPECIFICATION SafetySpec
INVARIANTS WarmupIsDiscarded

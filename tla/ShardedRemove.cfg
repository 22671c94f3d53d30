CONSTANTS
    WordBits = 2
    WindowSize = 2
    MaxSeq = 2
    MaxObs = 3
    w1 = w1
    w2 = w2
    w3 = w3
    Writer = {w1, w2, w3}
    NoWriter = NoWriter
    numShards = 2
    shardIndex <- MCIndex
    shardChanCap = 1
    iouRingSize = 1
    PoolSize = 2
    Worker = {x1, x2}
    Users <- MCSharded
    MaxCalls = 1
    MaxRemoves = 1
    MaxFails = 0
    Conn = {c1}
    Instrument = {h1, h2}
    MaxRoutes = 2
    Sender = {s1, s2}
    tcpWriteChanCap = 1
    SocketCap = 1
    MaxFrames = 3
    MaxDials = 2
    Base = 4
    Magic = 201
    MaxPayload = 2
    SeqNums <- MCSeqNums
    Times <- MCTimes
    Payloads <- MCPayloads
    MaxBatch = 2
SPECIFICATION SharedSpec
INVARIANT RemoveIsSafe
SYMMETRY Symmetry

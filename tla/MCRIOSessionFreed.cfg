SPECIFICATION Spec
CONSTANTS
    Acceptor = acc
    w1 = w1
    s1 = s1
    Workers <- OneWorker
    Senders <- NoThreads
    RecvSlice = 2
    SendSlice = 3
    PoolFree = {5}
    MAX_PENDING_BYTES = 1
    MsgSizes = {2}
    Frames = {1, 2}
    MaxMsgs = 3
    MaxRecv = 3
    PostFailures = FALSE
INVARIANTS AliveDuringIO
CHECK_DEADLOCK FALSE

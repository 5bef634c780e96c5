SPECIFICATION FairSpec
CONSTANTS
    Acceptor = acc
    w1 = w1
    s1 = s1
    Workers <- OneWorker
    Senders <- OneSender
    RecvSlice = 2
    SendSlice = 3
    PoolFree = {0, 5}
    MAX_PENDING_BYTES = 1
    MsgSizes = {2}
    Frames = {1, 3}
    MaxMsgs = 4
    MaxRecv = 3
    PostFailures = TRUE
INVARIANTS StreamInOrder PendingAccounted OneRequest RecvLoopAlive
PROPERTY Delivered
CHECK_DEADLOCK FALSE

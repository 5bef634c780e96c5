SPECIFICATION FairSpec
CONSTANTS
    Acceptor = acc
    w1 = w1
    w2 = w2
    s1 = s1
    c1 = c1
    Workers <- TwoWorkers
    Senders <- NoThreads
    Closers <- OneCloser
    RecvCapacity = 1
    SendCapacity = 1
    MaxMsgs = 1
    MaxRecv = 1
    PostFailures = FALSE
PROPERTIES DisconnectReclaims
CHECK_DEADLOCK FALSE

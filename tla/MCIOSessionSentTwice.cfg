SPECIFICATION Spec
CONSTANTS
    Acceptor = acc
    w1 = w1
    w2 = w2
    s1 = s1
    c1 = c1
    Workers <- TwoWorkers
    Senders <- NoThreads
    Closers <- NoThreads
    RecvCapacity = 2
    SendCapacity = 2
    MaxMsgs = 2
    MaxRecv = 2
    PostFailures = FALSE
INVARIANTS SentOnce
CHECK_DEADLOCK FALSE

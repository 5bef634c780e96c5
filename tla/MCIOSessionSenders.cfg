SPECIFICATION Spec
CONSTANTS
    Acceptor = acc
    w1 = w1
    w2 = w2
    s1 = s1
    c1 = c1
    Workers <- OneWorker
    Senders <- OneSender
    Closers <- OneCloser
    RecvCapacity = 1
    SendCapacity = 1
    MaxMsgs = 2
    MaxRecv = 2
    PostFailures = TRUE
INVARIANTS TypeOK OutstandingExact SingleOutstanding
CHECK_DEADLOCK FALSE

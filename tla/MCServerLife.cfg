SPECIFICATION FairSpec
CONSTANTS
    w1 = w1
    w2 = w2
    Tools = {}
    CanPause = FALSE
    Faults = TRUE
    Modes = {"IOCP", "RIO"}
    Workers <- TwoWorkers
    RioWorker = rio
    BeginAcceptCount = 2
    MaxConns = 2
    MaxAdmin = 1
    MaxThrows = 1
INVARIANTS AcceptPool WorkersOwned PointerValid TickAlive
PROPERTY Answered
CHECK_DEADLOCK FALSE

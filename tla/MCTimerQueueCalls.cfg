SPECIFICATION Spec
CONSTANTS
    a = a
    p = p
    q = q
    Callers <- OneCaller
    Pool <- TwoPool
    MaxTimers = 2
    MaxOutstanding = 2
    JobCalls <- AllCalls
    WaitOptions <- AnyWait
SYMMETRY Symmetry
INVARIANTS EntryAlive HandleLive NoTimerLeak QuietAfterCancel QuietAfterShutdown
CHECK_DEADLOCK FALSE

SPECIFICATION FairSpec
CONSTANTS
    a = a
    p = p
    q = q
    Callers <- OneCaller
    Pool <- TwoPool
    MaxTimers = 2
    MaxOutstanding = 1
    JobCalls <- StopCalls
    WaitOptions <- AnyWait
PROPERTIES OneShotFires ShutdownEnds CancelReturns
CHECK_DEADLOCK FALSE

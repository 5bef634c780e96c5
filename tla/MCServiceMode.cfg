SPECIFICATION SvcSpec
CONSTANTS
    t1 = t1
    t2 = t2
    Tools <- TwoTools
    CanPause = TRUE
    Faults = TRUE
INVARIANTS StopTold Settled
PROPERTY CommandEnds
CHECK_DEADLOCK FALSE

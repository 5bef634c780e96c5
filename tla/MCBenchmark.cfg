SPECIFICATION Spec
CONSTANTS
    s1 = s1
    s2 = s2
    Sessions <- TwoSessions
    First = s1
    Faults = TRUE
    Modes = {"seq", "multi", "rio", "client"}
    warmupIterations = 1
    iterations = 2
INVARIANTS PendingHeld SampleOwn AllMeasured NoZombie
PROPERTY Ends
CHECK_DEADLOCK FALSE

SPECIFICATION Spec
CONSTANTS
    wa = wa
    wb = wb
    b0 = b0
    b1 = b1
    Byte <- TwoBytes
    Writers <- TwoWriters
    Zero <- b0
    m_Capacity = 3
INVARIANTS RingOK SpansDisjoint ViewStable CommitFits
PROPERTIES ImplementsByteQueue

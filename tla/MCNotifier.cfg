CONSTANTS
    b1 = b1
    b2 = b2
    w1 = w1
    i1 = i1
    Note = {b1, b2, w1, i1}
    EventOf <- MCEventOf
    QUEUE_HIGH_MAX = 1
    DEDUP_WINDOW = 1
    DEDUP_RETENTION = 2
    MaxTime = 2
    MaxFails = 1
    MaxBoots = 1
SPECIFICATION Spec
INVARIANTS
    NotifierInv
    Drained
PROPERTIES
    NoRepeat
    ImplementsDelivery
    Settled
CHECK_DEADLOCK FALSE

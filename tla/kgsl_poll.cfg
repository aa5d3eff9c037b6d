\* What test_timeout says of an expired deadline.
CONSTANTS
    w1 = w1
    w2 = w2
    NoThread = NoThread
    Waiters <- MCWaiters
    MaxTs = 2
    UnitsPerMs = 2
    MaxMs = 2
    Timeouts <- MCTimeouts
    Forever <- MCForever
    MaxCalls = 2
    MaxSignals = 1
SPECIFICATION Spec
SYMMETRY MCSymmetry
INVARIANTS ExpiredWaitIsImmediate
CHECK_DEADLOCK FALSE

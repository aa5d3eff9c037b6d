\* Waits, submission and GPU interleaved: safety.
CONSTANTS
    w1 = w1
    w2 = w2
    NoThread = NoThread
    Waiters <- MCWaiters
    MaxTs = 2
    UnitsPerMs = 2
    MaxMs = 2
    Timeouts <- MCTimeouts
    Forever <- MCForever
    MaxCalls = 3
    MaxSignals = 1
SPECIFICATION Spec
SYMMETRY MCSymmetry
INVARIANTS TypeOK MutexCoversIoctl NoSelfDeadlock DeadlineKept
PROPERTIES SuccessIsTrue TimeoutNotEarly TimeoutMeansPending
CHECK_DEADLOCK FALSE

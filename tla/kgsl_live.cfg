\* Waits, submission and GPU interleaved: liveness.
CONSTANTS
    w1 = w1
    w2 = w2
    NoThread = NoThread
    Waiters <- MCWaiters
    MaxTs = 2
    UnitsPerMs = 1
    MaxMs = 2
    Timeouts <- MCFinite
    Forever <- MCForever
    MaxCalls = 2
    MaxSignals = 1
SPECIFICATION Spec
PROPERTIES WaitReturns SignalledIsSeen SubmitGetsThrough
CHECK_DEADLOCK FALSE

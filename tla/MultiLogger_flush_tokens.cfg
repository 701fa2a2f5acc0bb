\* Two goroutines call Flush at the same time; nothing is logged.
CONSTANTS
    p1 = p1  c1 = c1  c2 = c2  w1 = w1
    None = None
    Producers <- MCProducers
    Flushers <- MCTwoFlushers
    Writers <- MCWriters
    QCap = 2
    MaxMsgs = 0
    MaxFlushes = 2
SPECIFICATION Spec
CHECK_DEADLOCK FALSE
INVARIANT FlushWaitsOwnRequests

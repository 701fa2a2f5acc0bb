\* One goroutine logs two errors, then another calls Flush.
CONSTANTS
    p1 = p1  c1 = c1  c2 = c2  w1 = w1
    None = None
    Producers <- MCProducers
    Flushers <- MCOneFlusher
    Writers <- MCWriters
    QCap = 2
    MaxMsgs = 2
    MaxFlushes = 2
SPECIFICATION Spec
CHECK_DEADLOCK FALSE
INVARIANT FlushDrainsQueue

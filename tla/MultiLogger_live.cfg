\* One producer, one goroutine calling Flush, writers registered and
\* unregistered at any time: every Flush returns with its own requests
\* answered, and every queued message is written.
CONSTANTS
    p1 = p1  c1 = c1  c2 = c2  w1 = w1
    None = None
    Producers <- MCProducers
    Flushers <- MCOneFlusher
    Writers <- MCWriters
    QCap = 2
    MaxMsgs = 2
    MaxFlushes = 2
SPECIFICATION Spec
\* Once nobody logs or flushes any more, both queue goroutines wait in
\* their select: the logger really is quiescent then.
CHECK_DEADLOCK FALSE
INVARIANT TypeOK
INVARIANT FlushWaitsOwnRequests
 
PROPERTY EveryMessageWritten

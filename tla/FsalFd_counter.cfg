SPECIFICATION Spec
CONSTANTS
    i1 = i1
    i2 = i2
    c1 = c1
    lru = lru
    NoThread = NoThread
    IoThreads <- MCIoThreads
    Closers <- MCClosers
    Reclaimers <- MCReclaimers
    Requests <- MCRequests
    MaxRequests = 3
    MaxReclaims = 2
INVARIANT CounterNotNegative
CHECK_DEADLOCK FALSE

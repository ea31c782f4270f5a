SPECIFICATION FairSpec
CONSTANTS
    i1 = i1
    i2 = i2
    c1 = c1
    lru = lru
    NoThread = NoThread
    IoThreads <- MCIoThreads
    Closers <- MCClosers
    Reclaimers <- MCReclaimers
    Requests <- MCRequests
    MaxRequests = 2
    MaxReclaims = 1
INVARIANTS WorkExcludesIo IoModeAllowed UsableAfterWait
PROPERTY WaitsEnd
CHECK_DEADLOCK FALSE

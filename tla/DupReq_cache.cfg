SPECIFICATION Spec
CONSTANTS
    a1 = a1
    a2 = a2
    a3 = a3
    b = b
    x1 = x1
    x2 = x2
    ka = ka
    kb = kb
    NoEntry = NoEntry
    Requests <- MCRequests
    Xprts <- MCXprts
    XprtOf <- MCXprtOf
    KeyOf <- MCKeyOf
    PartOf <- MCPartOf
    MaxDupes = 1
    MaxSize = 2
    Hiwat = 1
    RetwndBias = 1
    MaxRetries = 1
SYMMETRY MCSymmetry
INVARIANTS OneInCharge ExecutedOnce SilentAnswered  
           SuspendedHasResumer
PROPERTIES CacheKeepsPromise
CHECK_DEADLOCK FALSE

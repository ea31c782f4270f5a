SPECIFICATION FairSpec
CONSTANTS
    w1 = w1
    w2 = w2
    a1 = a1
    l1 = l1
    l2 = l2
    NoThread = NoThread
    Workers <- MCWorkers
    Admins <- MCAdmin
    Lifters <- MCLifters
    StickyGrace = TRUE
INVARIANTS HeldStateStable NoRefsWhileLifting
PROPERTIES StartSucceeds GraceEnds

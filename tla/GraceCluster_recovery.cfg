SPECIFICATION FairSpec
CONSTANTS
    n1 = n1
    n2 = n2
    c1 = c1
    Nodes <- MCNodes
    Clients <- MCClients
    NewClients = TRUE
    MaxFailures = 3
CHECK_DEADLOCK FALSE
INVARIANTS TypeOK FlagIsTrue OneFailureReclaims
PROPERTIES RecoveryDatabaseKept NormalOperationResumes

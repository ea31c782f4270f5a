SPECIFICATION Spec
CONSTANTS
    n1 = n1
    n2 = n2
    c1 = c1
    Nodes <- MCNodes
    Clients <- MCClients
    NewClients = FALSE
    MaxFailures = 2
CHECK_DEADLOCK FALSE
INVARIANT NobodyLeftBehind

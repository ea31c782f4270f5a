SPECIFICATION Spec
CONSTANTS
    n1 = n1
    n2 = n2
    p1 = p1
    p2 = p2
    Nodes <- MCNodes
    Procs <- MCProcs
    Commands <- MCCommands
    MaxEpoch = 2
SYMMETRY Symmetry
INVARIANT TypeOK
 

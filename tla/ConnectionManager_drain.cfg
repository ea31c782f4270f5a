SPECIFICATION FairSpec
CONSTANTS
    s1 = s1
    s2 = s2
    a1 = a1
    a2 = a2
    b1 = b1
    b2 = b2
    NoServer = NoServer
    Servers <- MCServers
    Conns <- MCConns
    Home <- MCHome
    Reconfigured <- MCReconfigured
INVARIANTS OneActivates DrainsTheDestroyed RegistrationsMatch 
PROPERTIES ServedOnce WaitsEnd
CHECK_DEADLOCK FALSE

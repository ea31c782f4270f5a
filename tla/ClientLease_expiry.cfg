SPECIFICATION FairSpec
CONSTANTS
  c1 = c1
  c2 = c2
  w1 = w1
  Clients <- MCClients
  Workers <- MCWorkers
  Reaper = Reaper
  Lifetime = 1
  MaxAlive = 2
  Threshold = 1
  None = None
INVARIANTS
  ParkedOnce
  RefsExact
  UnhashFinds
  
PROPERTIES
  SilentExpires
CHECK_DEADLOCK FALSE

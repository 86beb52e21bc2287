CONSTANTS
  c1 = c1
  c2 = c2
  c3 = c3
  k1 = k1
  k2 = k2
  Clients <- MCClients
  Cleaners <- MCCleaners
  MaxLeaks = 2
  Irregular <- MCSlow
SPECIFICATION FairRestructureSpec
INVARIANTS
  LockTypeOK
  CleaningExcludes
PROPERTIES
  WaitsEnd

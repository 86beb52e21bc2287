CONSTANTS
  p1 = p1
  p2 = p2
  d1 = d1
  d2 = d2
  a = a
  b = b
  Processes <- MCProcesses
  Databases <- MCDatabases
  NrAttributes = 1
  FlobValues <- MCValues
  CacheLimit = 1
  MaxRecords = 2
  NoDatabase = NoDatabase
  NoTuple = NoTuple
  NoFlob = NoFlob
  Irregular <- MCRegular
SYMMETRY MCSymmetry
SPECIFICATION TupleFlobsSpec
INVARIANTS
  CachedIsStored
  TuplesHaveFlobs
  OneOwnerPerFlob
  NoGarbage

CONSTANTS
  w1 = w1
  w2 = w2
  Workers <- MCTwo
  Master = Master
  None = None
  MaxSuperstep = 2
  MaxInits = 1
  MaxSent = 2
  Irregular <- MCRegular
SPECIFICATION FairSpec
CHECK_DEADLOCK FALSE
INVARIANTS
  EndTogether
  Barrier
PROPERTIES
  SilentEnd
  ImplementsSupersteps
  QueriesEnd

CONSTANTS
  t1 = t1
  t2 = t2
  Producers <- MCTwo
  Consumer = Consumer
  Null = Null
  MaxPrefetch = 2
  MaxQueries = 3
  MaxRows = 2
  Irregular <- MCRegular
SPECIFICATION FairSpec
INVARIANTS
  SleepersWait
  EndMeansAll
  DestroyedQuiet
PROPERTIES
  RequestsEnd
CHECK_DEADLOCK FALSE

CONSTANTS
  MCRelations <- MCRelationsOf
  MCDepth = 2
  Attributes <- Outers
  Plans <- MCPlans
  None = None
SPECIFICATION FairSpec
CHECK_DEADLOCK FALSE
INVARIANTS
  StreamQueryTypeOK
  RequestsOpened
  AnswerOrPrefix
  NothingLeft
PROPERTIES
  QueryEnds

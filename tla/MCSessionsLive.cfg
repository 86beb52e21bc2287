CONSTANTS
  s1 = s1
  s2 = s2
  s3 = s3
  anna = anna
  bert = bert
  carl = carl
  unknown = unknown
  NoUser = NoUser
  NoDatabase = NoDatabase
  Databases = {berlin}
  Users <- MCUsers
  Sessions <- MCSessions3
  UserOf <- MCDistinct3
  MaxFailures = 0
  MaxCrashes = 0
SPECIFICATION FairSpec
INVARIANT LockHasHolder
PROPERTY LockReleased

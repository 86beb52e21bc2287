CONSTANTS
  v1 = v1
  v2 = v2
  ObjectNames = {o1, o2}
  TypeNames = {}
  NoType = NoType
  Values = {v1, v2}
  Undefined = Undefined
  RecordIds = {1, 2}
  NoRecord = NoRecord
  Nothing = Nothing
  NoRenaming = NoRenaming
  Irregular <- MCRenameUpdated
SPECIFICATION Spec
PROPERTIES
  CommitEffective

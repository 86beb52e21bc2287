CONSTANTS
  v1 = v1
  v2 = v2
  ObjectNames = {o1, o2}
  TypeNames = {t1}
  NoType = NoType
  Values = {v1}
  Undefined = Undefined
  RecordIds = {1, 2}
  NoRecord = NoRecord
  Nothing = Nothing
  NoRenaming = NoRenaming
  Irregular <- MCRegular
SPECIFICATION Spec
INVARIANTS
  OneOwnerPerRecord
  DefinedHasValue
  OutsideBlockDurable
PROPERTIES
  BlockIsAtomic
  ImplementsStore

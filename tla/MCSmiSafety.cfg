CONSTANTS
  s1 = s1
  s2 = s2
  Sessions <- MCSessions
  Databases = {berlin}
  Names = {objects}
  NoFile = NoFile
  NoDatabase = NoDatabase
  MaxFileId = 5
  Irregular <- MCRegular
SYMMETRY MCSymmetry
SPECIFICATION Spec
INVARIANTS
  UsedFilesExist
  FileCatalogBacked
  OpenedIsCatalogued
  DistinctFiles
  NoStrayFiles

CONSTANTS
  f1 = f1
  f2 = f2
  a = a
  Handles <- MCHandles
  Values <- MCValues
  Garbage = Garbage
  NoBlock = NoBlock
  SlotSize = 2
  CacheSize = 3
  MaxFlobSize = 3
  Sizes <- MCSizes
  Ranges <- MCRanges
SYMMETRY MCSymmetry
SPECIFICATION Spec
INVARIANTS
  CacheConsistent
PROPERTIES
  ImplementsFlobStore

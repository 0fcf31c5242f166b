SPECIFICATION MCSpec
CONSTANTS
  Key = {k1, k2, k3}
  Val = {d1, d2}
  NoData = NoData
  Null = Null
  Absent = Absent
  MaxMapLevel = 2
  MaxLevel = 3
  MaxSize = 4
  Chunk = {c1, c2, c3, c4, c5}
  ChunkSize = 3
  MaxFreeChunks = 1
  MaxDepth = 3
  MaxData = 5
  Arity = 2
INVARIANTS
  TypesOK
  MapHoldsItsEntries
  SavedElementsKept
  BlocksStayApart
PROPERTIES
  ImplementsMap
  ImplementsQueue
SYMMETRY Symmetry

SPECIFICATION MCSpec
CONSTANTS
  Obj = {o1, o2}
  Third = o3
  Val = {d, v1}
  Other = v1
  Default = d
  Absent = Absent
  Null = Null
  MaxLevel = 3
  MaxHeapLevel = 2
  MaxCells = 3
INVARIANTS
  TypeOK
  RestoreChain
  LiveIsNewest
  NoDanglingPointer
  ListsWellFormed
PROPERTIES
  ImplementsSnapshots
  PopTerminates
  ImplementsScopes

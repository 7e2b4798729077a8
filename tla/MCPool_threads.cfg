SPECIFICATION Spec
CONSTANTS
  a = a
  f = f
  g = g
  NoThread = NoThread
  Main = a
  Allocators <- OnlyA
  Freers <- AandF
  Resizers <- None
  Reporters <- None
  Closers <- None
  Requests = {0, 1, 3, 5}
  CallocArgs <- None
  MinPoolSize = 3
  Alignment = 4
  TotalPoolSize = 16
  SizeMod = 28
  PoolBase = 64
  MaxBlocks = 3
  MaxCrt = 1
INVARIANTS
  FreeListSafe
  FreeListExact
  NoCorruption
  IndInv
PROPERTIES
  FreeLinkStable
  ImplementsHeap

SPECIFICATION Spec
CONSTANTS
  a = a
  f = f
  g = g
  NoThread = NoThread
  Main = a
  Allocators <- OnlyA
  Freers <- OnlyA
  Resizers <- OnlyA
  Reporters <- OnlyA
  Closers <- OnlyA
  Requests = {0, 1, 3, 5}
  CallocArgs <- Products
  MinPoolSize = 3
  Alignment = 4
  TotalPoolSize = 16
  SizeMod = 28
  PoolBase = 64
  MaxBlocks = 4
  MaxCrt = 1
INVARIANTS
  TypeOK
  HeadOrder
  CleanupDeletesOnce
  UsageNeverTooHigh
PROPERTIES
  CrtLeakOnlyBeforePool
  ImplementsHeap

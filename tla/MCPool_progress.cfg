SPECIFICATION FairSpec
CONSTANTS
  a = a
  f = f
  g = g
  NoThread = NoThread
  Main = a
  Allocators <- OnlyA
  Freers <- FandG
  Resizers <- None
  Reporters <- None
  Closers <- None
  Requests = {0, 3}
  CallocArgs <- None
  MinPoolSize = 3
  Alignment = 4
  TotalPoolSize = 16
  SizeMod = 32
  PoolBase = 64
  MaxBlocks = 3
  MaxCrt = 0
PROPERTIES
  MallocReturns
  WalkReturns

SPECIFICATION Spec
CONSTANTS
  a = a
  f = f
  g = g
  NoThread = NoThread
  Main = a
  Allocators <- AandF
  Freers <- None
  Resizers <- None
  Reporters <- AandF
  Closers <- None
  Requests = {1, 3, 5}
  CallocArgs <- None
  MinPoolSize = 3
  Alignment = 4
  TotalPoolSize = 16
  SizeMod = 32
  PoolBase = 64
  MaxBlocks = 4
  MaxCrt = 2
INVARIANTS
  NoOverlap
  AllocatedReachable
  WrapTakesRefusals

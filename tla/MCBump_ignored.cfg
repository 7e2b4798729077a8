SPECIFICATION Spec
CONSTANTS
  a = a
  b = b
  NoThread = NoThread
  Threads <- TwoThreads
  Loader = a
  Loaded <- Both
  Imports <- Msvcrt
  CrtAddrs = {4, 40}
  Requests = {2}
  PoolSize = 5
  PoolBase = 16
  MayRefuse = TRUE
  SizeMod = 32
INVARIANT IgnoresOnlyPool

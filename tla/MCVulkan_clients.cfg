SPECIFICATION Spec
CONSTANTS
  Refs = {r1, r2, r3}
  Parent = d3d
  Devices = {d1}
  Null = Null
  MaxObjects = 1
INVARIANTS
  TypeOK
  LifetimeSafe
  ParentLostOnlyEarly
  OwnersLast
  NothingLeft
  FrameLag
  WaitAnswered
SYMMETRY Symmetry
CHECK_DEADLOCK FALSE

SPECIFICATION Spec
CONSTANTS
  Procs = {p1, p2, p3}
  Layouts <- TwoLayouts
INVARIANTS
  TypeOK
  OnePatcherPerStart
  PatchExact
PROPERTIES
  LaaSticks
  OnlyReadyPatches
SYMMETRY Symmetry
CHECK_DEADLOCK FALSE

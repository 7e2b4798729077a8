SPECIFICATION Spec
CONSTANTS
  Procs = {p1, p2}
  Layouts <- OneLayout
INVARIANTS
  SuccessMeansLobbyPatched
CHECK_DEADLOCK FALSE

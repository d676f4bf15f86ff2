\* three calls at once, Docker answers, no router
CONSTANTS
  Calls = {c1, c2, c3}
  NoCall = NoCall
  MaxConfig = 1
  MaxNest = 2
  Routed = FALSE
  DaemonFails = FALSE
SPECIFICATION Spec
SYMMETRY Symmetry
INVARIANTS
  NoNameCollision
  StoppedRestoreIsSafe
PROPERTIES
  ImplementsLocks

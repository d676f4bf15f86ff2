CONSTANTS
  Calls = {c1, c2}
  MaxVersion = 3
  MaxBackups = 2
  Scenes <- MCScenes
SPECIFICATION Spec
INVARIANTS
  PinsAgree
  WorldFitsPack
  EntryHasItsUpgrade
SYMMETRY Symmetry
CHECK_DEADLOCK FALSE

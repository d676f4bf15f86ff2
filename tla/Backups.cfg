\* two callers and three archives, in one of the scenes
CONSTANTS
  Calls = {c1, c2}
  NoCall = NoCall
  Ids = {1, 2, 3}
  Keep <- MCKeep
  Sizes = {1}
  Scenes <- MCScenes
  MaxNow = 2
  MaxWrites = 2
SYMMETRY CallSymmetry
SPECIFICATION Spec
INVARIANTS
  DropsAreDeserved
  NewestSurvives
  PausedCopiesAreWhole
  SavesComeBack
  LockIsHandedOn
  
CHECK_DEADLOCK FALSE

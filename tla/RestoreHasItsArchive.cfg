\* one caller: a backup is restored, and one restore's safety backup restored
CONSTANTS
  Calls = {c1}
  NoCall = NoCall
  Ids = {1, 2, 3}
  Keep <- MCKeep
  Sizes = {1}
  Scenes <- Restores
  MaxNow = 2
  MaxWrites = 2
SPECIFICATION Spec
INVARIANT RestoreHasItsArchive
CHECK_DEADLOCK FALSE

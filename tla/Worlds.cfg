\* Two requests at a time on a server with two worlds and a third name.
CONSTANTS Calls = {c1, c2}
          NoCall = NoCall
          Names = {A, B, N}
          NoName = NoName
          First = A
          Second = B
          MaxWorld = 4
          Scenes <- MCScenes
SYMMETRY Symmetry
SPECIFICATION Spec
INVARIANTS LevelHasItsWorld WorldsStayWhole
PROPERTIES LiveWorldsAreLeftAlone BackupCovers ImplementsLocks
CHECK_DEADLOCK FALSE

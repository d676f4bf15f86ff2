\* two calls that run fairly, Docker may fail, mc-router may start the container
CONSTANTS
  Calls = {c1, c2}
  NoCall = NoCall
  MaxConfig = 1
  MaxNest = 1
  Routed = TRUE
  DaemonFails = TRUE
SPECIFICATION FairSpec
INVARIANTS
  NoContainerIsFlagged
  OnlyRacedEditsAreMissed
PROPERTIES
  LaunchAppliesFlaggedConfig
  CallsReturn

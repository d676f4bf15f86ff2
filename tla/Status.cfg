\* two handlers overlap; every way to exit that the watcher tells apart
CONSTANTS
  Probed = {TRUE, FALSE}
  Codes = {"zero", "killed", "error"}
  MaxHandlers = 2
SPECIFICATION FairSpec
INVARIANTS
  TypeOK
  RestingStatusIsTrue
PROPERTIES
  DownIsShown

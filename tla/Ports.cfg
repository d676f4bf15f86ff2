\* two creations and two settings changes; one port belongs to the panel
CONSTANTS
  Servers = {s1, s2}
  Edits = {e1, e2}
  game = game
  rcon = rcon
  web = web
  panel = panel
  Ports <- MCPorts
  Foreign = {panel}
  Asks <- MCAsks
  Extras <- MCExtras
  MapRange = {web}
SPECIFICATION FairSpec
INVARIANTS
  OwnPortsDisjoint
  OnlyRacedPortsShared
  NoGhostServer
PROPERTIES
  CreatesFinish
CHECK_DEADLOCK FALSE

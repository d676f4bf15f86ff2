---------------------------- MODULE MCServerPorts ----------------------------
(* Creations that meet on two own ports, mappings that meet the maps.      *)
EXTENDS ServerPorts

CONSTANTS game, rcon, web, panel

MCPorts == {game, rcon, web, panel}
MCAsks == {{game}, {rcon}}
MCExtras == {{}, {web, game}}
=============================================================================

--------------------------- MODULE MCServerStatus ---------------------------
(* ServerStatus needs no values but its bounds. *)
EXTENDS ServerStatus
=============================================================================

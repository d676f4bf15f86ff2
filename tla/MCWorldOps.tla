----------------------------- MODULE MCWorldOps -----------------------------
(* Scenes of WorldOps: requests that meet, on a server with split          *)
(* dimensions or without, whose row has LEVEL or not.                      *)
EXTENDS WorldOps, TLC

Quietly == [ops |-> {}, split |-> FALSE, level |-> NoName, edits |-> FALSE, routed |-> FALSE, faults |-> FALSE,
            asks |-> 3]

\* what changes names and the level
Naming ==
  {[Quietly EXCEPT !.ops = {"start", "rename", "activate", "delete", "reset"}, !.level = First]}

\* two of these at a time, and a user who edits LEVEL and level-name
Choosing ==
  {[Quietly EXCEPT !.ops = ops, !.edits = TRUE, !.asks = 2] :
     ops \in {{"start", "delete"}, {"rename", "activate"}, {"reset", "activate"}}}

\* what replaces worlds
Replacing == {[Quietly EXCEPT !.ops = {"start", "reset", "install", "copy"}, !.split = TRUE]}

\* what edits region files: with faults, without, and two requests with mc-router
Editing ==
  LET editing == [Quietly EXCEPT !.ops = {"start", "shrink", "chunks", "install"}]
  IN {[editing EXCEPT !.faults = TRUE],
      editing,
      [editing EXCEPT !.faults = TRUE, !.routed = TRUE, !.asks = 2]}

\* names that are taken, and copies
Copying == {[Quietly EXCEPT !.ops = {"start", "duplicate", "delete", "copy", "rename"}, !.split = TRUE,
                            !.faults = TRUE]}

\* mc-router wakes the server under one of the others, with its container's
\* LEVEL, which need no longer be the row's
Woken == {[Quietly EXCEPT !.ops = {"reset", "rename", "delete"}, !.level = First, !.edits = TRUE,
                          !.routed = TRUE, !.asks = 1]}

MCScenes == Naming \cup Choosing \cup Replacing \cup Editing \cup Copying \cup Woken
Symmetry == Permutations(Calls)
=============================================================================

-------------------------- MODULE MCServerContent --------------------------
EXTENDS ServerContent, TLC

CONSTANTS v1, v2, w, p, fileV, fileW, fileP, pathV1, pathV2, pathW

\* two versions published under one name, a mod of its own, and its bytes as a
\* plugin of another server
MCNameOf == [c \in {v1, v2, w, p} |-> CASE c = w -> fileW [] c = p -> fileP [] OTHER -> fileV]
MCFileOf == [c \in {v1, v2, w, p} |-> CASE c = v1 -> pathV1 [] c = v2 -> pathV2 [] OTHER -> pathW]
\* requests on the mods; the library beside them, shared by two servers; a pack's
\* installer, the user's file manager and a reapply
MCScenes ==
  {[kinds |-> {"add", "update", "remove", "toggle"}, uses |-> {v1, v2, w}, packed |-> {},
    hands |-> FALSE, faults |-> FALSE, asks |-> 3],
   [kinds |-> {"add", "remove", "cleanup", "reapply"}, uses |-> {w, p}, packed |-> {fileW},
    hands |-> FALSE, faults |-> TRUE, asks |-> 3],
   [kinds |-> {"add", "toggle", "reapply"}, uses |-> {v1, v2}, packed |-> {fileV},
    hands |-> TRUE, faults |-> FALSE, asks |-> 3]}
Symmetry == Permutations(Calls)
=============================================================================

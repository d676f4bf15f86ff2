--------------------------- MODULE MCServerBackups ---------------------------
(* Scenes with one backup kept per bucket, so that the second of a         *)
(* kind drops the first.                                                   *)
EXTENDS ServerBackups, TLC

MCKeep == [r \in Reasons |-> 1]

Quiet == [age |-> 0, size |-> 0, taken |-> {"manual"}, kinds |-> {"backup"}, faults |-> {},
          ids |-> Ids, ticks |-> 0, writes |-> 1, starts |-> FALSE]

\* two backups meet the save lock, a server that comes and goes, every fault
Saves == {[Quiet EXCEPT !.faults = {"rcon", "disk", "crash"}, !.ids = {1, 2}, !.writes = 2,
                        !.starts = TRUE]}

\* a stopped server's backups, deletions and ceilings
Retention == {[Quiet EXCEPT !.age = a, !.size = a, !.taken = {"manual", "scheduled"},
                            !.kinds = {"backup", "delete"}, !.ticks = a + 1] : a \in {0, 1}}

\* restores among backups
Restores == {[Quiet EXCEPT !.kinds = {"backup", "restore"}, !.ticks = 1,
                           !.writes = 2, !.starts = TRUE]}

\* ... all within one second, for a server that others start meanwhile
Overlaps == {[s EXCEPT !.ticks = 0] : s \in Restores}

\* restores of a stopped server among the safety backups of world operations
Safeties == {[Quiet EXCEPT !.kinds = {"backup", "restore"}, !.taken = {"pre-restore"},
                           !.ticks = 1]}

MCScenes == Saves \cup Retention \cup Overlaps \cup Safeties
CallSymmetry == Permutations(Calls)
=============================================================================

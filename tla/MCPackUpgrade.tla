--------------------------- MODULE MCPackUpgrade ---------------------------
EXTENDS PackUpgrade, TLC

Quietly == [kinds |-> Kinds, free |-> FALSE, users |-> FALSE, edits |-> FALSE,
            faults |-> FALSE, asks |-> 3]

\* requests among themselves; two of them, or three without upgrades, beside
\* users; failures; downgrades by hand; edits of the environment
MCScenes ==
  {Quietly,
   [Quietly EXCEPT !.users = TRUE, !.asks = 2],
   [Quietly EXCEPT !.users = TRUE, !.kinds = {"apply", "rollback"}],
   [Quietly EXCEPT !.faults = TRUE, !.kinds = {"upgrade", "rollback"}],
   [Quietly EXCEPT !.free = TRUE, !.asks = 2],
   [Quietly EXCEPT !.edits = TRUE, !.asks = 2]}
Symmetry == Permutations(Calls)
=============================================================================

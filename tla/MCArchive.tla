----------------------------- MODULE MCArchive -----------------------------
(* Small instances of Archive for TLC. *)
EXTENDS Archive, TLC

\* After an error or a purge, calls archive half as much.
LessWorkMoreTrouble ==
    \A v, w \in Writers : v # w =>
        Len(todo[v]) + Len(todo[w]) <= (IF faults + purges = 0 THEN 4 ELSE 2)

Symmetry == Permutations(Writers) \union Permutations(Turns) \union Permutations(Ids)
=============================================================================

---------------------------- MODULE MCKuzuCache ----------------------------
(* A small instance of KuzuCache for TLC. *)
EXTENDS KuzuCache

Symmetry == Permutations(Threads) \union Permutations(Projects)
=============================================================================

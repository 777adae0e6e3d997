-------------------------- MODULE MCCounterCompact --------------------------
(* Small instances of CounterCompact for TLC. *)
EXTENDS CounterCompact, TLC

Symmetry == Permutations(Sessions) \union Permutations(Turns)
=============================================================================

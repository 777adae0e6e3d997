------------------------------- MODULE Orders -------------------------------
(***************************************************************************)
(* Sequences that enumerate a finite set in an order, the parts of a       *)
(* sequence, and sums: what sorted(...), sum(...) and the list             *)
(* comprehensions of the code do.                                          *)
(***************************************************************************)
EXTENDS Integers, Sequences, FiniteSetsExt

\* The members of S, as the relation R puts them: each at the place that the
\* number of those before it gives.
Sorted(S, R) ==
    [k \in 1..Cardinality(S) |->
        CHOOSE i \in S : Cardinality({j \in S : <<j, i>> \in R}) = k - 1]

Ascending(S) == Sorted(S, {p \in S \X S : p[1] < p[2]})

\* What s has at the given positions, in its order.
PartAt(s, positions) ==
    LET at == Ascending(positions) IN [k \in DOMAIN at |-> s[at[k]]]

\* The members of s that are in S, in its order.
Among(s, S) == PartAt(s, {i \in DOMAIN s : s[i] \in S})

\* The sum of what w gives the members of S.
Total(w, S) == MapThenSumSet(LAMBDA i : w[i], S)
=============================================================================

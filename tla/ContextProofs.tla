--------------------------- MODULE ContextProofs ---------------------------
(***************************************************************************)
(* What a request is given and what it loses: the theorems about the       *)
(* prompt (Prompt), the choice of the turns that go (Selector) and the     *)
(* memory block (Retrieval).  They rest on the same facts about sorted     *)
(* lists, parts of a list and sums, which come first.                      *)
(***************************************************************************)
EXTENDS Prompt, Selector, Retrieval, FiniteSetTheorems, SequenceTheorems,
        WellFoundedInduction, NaturalsInduction, TLAPS

---------------------------------------------------------------------------
(* Sorted lists and parts of a list *)

\* R puts the members of S in one order.
IsOrder(S, R) ==
    /\ \A i \in S : <<i, i>> \notin R
    /\ \A i, j \in S : i = j \/ <<i, j>> \in R \/ <<j, i>> \in R
    /\ \A i, j, k \in S : <<i, j>> \in R /\ <<j, k>> \in R => <<i, k>> \in R

Before(S, R, i) == {j \in S : <<j, i>> \in R}

\* Each member has a number of its own of members before it, and so each number
\* below that of the members is taken.
LEMMA RankIsTaken ==
    ASSUME NEW S, IsFiniteSet(S), NEW R, IsOrder(S, R)
    PROVE  /\ \A i \in S : Cardinality(Before(S, R, i)) \in 0..(Cardinality(S) - 1)
           /\ \A i, j \in S : <<i, j>> \in R =>
                  Cardinality(Before(S, R, i)) < Cardinality(Before(S, R, j))
           /\ \A n \in 0..(Cardinality(S) - 1) : \E i \in S : Cardinality(Before(S, R, i)) = n
<1> DEFINE n == Cardinality(S)
           r(i) == Cardinality(Before(S, R, i))
           rank == [i \in S |-> r(i)]
<1>1. n \in Nat
  BY FS_CardinalityType
<1>2. ASSUME NEW i \in S
      PROVE  /\ IsFiniteSet(Before(S, R, i)) /\ r(i) \in 0..(n - 1)
             /\ IsFiniteSet(Before(S, R, i) \union {i})
             /\ Cardinality(Before(S, R, i) \union {i}) = r(i) + 1
  <2>1. Before(S, R, i) \in SUBSET S /\ i \notin Before(S, R, i)
    BY DEF Before, IsOrder
  <2>2. IsFiniteSet(Before(S, R, i))
    BY <2>1, FS_Subset
  <2>3. Cardinality(Before(S, R, i)) \in Nat
    BY <2>2, FS_CardinalityType
  <2>4. IsFiniteSet(Before(S, R, i) \union {i}) /\
        Cardinality(Before(S, R, i) \union {i}) = Cardinality(Before(S, R, i)) + 1
    BY <2>1, <2>2, FS_AddElement
  <2>5. Before(S, R, i) \union {i} \in SUBSET S
    BY <2>1
  <2>6. Cardinality(Before(S, R, i) \union {i}) <= n
    BY <2>5, FS_Subset
  <2> QED BY <1>1, <2>2, <2>3, <2>4, <2>6
<1>3. \A i \in S : r(i) \in 0..(n - 1) /\ r(i) \in Int
  <2> SUFFICES ASSUME NEW i \in S PROVE r(i) \in 0..(n - 1) /\ r(i) \in Int
    OBVIOUS
  <2>1. r(i) \in 0..(n - 1)
    BY <1>2
  <2> HIDE DEF r
  <2> QED BY <1>1, <2>1
<1>4. ASSUME NEW i \in S, NEW j \in S, <<i, j>> \in R
      PROVE  r(i) < r(j)
  <2>1. Before(S, R, i) \union {i} \in SUBSET Before(S, R, j)
    BY <1>4 DEF Before, IsOrder
  <2>2. Cardinality(Before(S, R, i) \union {i}) <= Cardinality(Before(S, R, j))
    BY <1>2, <2>1, FS_Subset
  <2>3. Cardinality(Before(S, R, i) \union {i}) = r(i) + 1 /\ r(i) \in Int /\ r(j) \in Int
    BY <1>2, <1>3
  <2> HIDE DEF r
  <2> QED BY <2>2, <2>3 DEF r
<1>5. rank \in Injection(S, 0..(n - 1))
  <2>1. rank \in [S -> 0..(n - 1)]
    BY <1>2
  <2>2. ASSUME NEW i \in S, NEW j \in S, rank[i] = rank[j] PROVE i = j
    <3>1. r(i) = r(j)
      BY <2>2
    <3>2. r(i) \in Int
      BY <1>3
    <3>3. <<i, j>> \notin R /\ <<j, i>> \notin R
      <4> HIDE DEF r
      <4> QED BY <1>4, <3>1, <3>2
    <3> QED BY <3>3 DEF IsOrder
  <2> QED BY <2>1, <2>2, Zenon DEF Injection, IsInjective
<1>6. IsFiniteSet(0..(n - 1)) /\ Cardinality(0..(n - 1)) = n
  BY <1>1, FS_Interval
<1>7. rank \in Surjection(S, 0..(n - 1))
  BY <1>5, <1>6, FS_Injection
<1> QED BY <1>2, <1>4, <1>7 DEF Surjection

LEMMA SortedIs ==
    ASSUME NEW S, IsFiniteSet(S), NEW R, IsOrder(S, R)
    PROVE  /\ Cardinality(S) \in Nat
           /\ Sorted(S, R) \in [1..Cardinality(S) -> S]
           /\ \A i \in S : \E k \in 1..Cardinality(S) : Sorted(S, R)[k] = i
           /\ \A k, l \in 1..Cardinality(S) : k < l => <<Sorted(S, R)[k], Sorted(S, R)[l]>> \in R
<1> DEFINE n == Cardinality(S)
           s == Sorted(S, R)
           rank(i) == Cardinality(Before(S, R, i))
<1>1. n \in Nat
  BY FS_CardinalityType
<1>2. /\ \A i \in S : rank(i) \in 0..(n - 1)
      /\ \A i, j \in S : <<i, j>> \in R => rank(i) < rank(j)
      /\ \A m \in 0..(n - 1) : \E i \in S : rank(i) = m
  BY RankIsTaken
<1>3. s = [k \in 1..n |-> CHOOSE i \in S : rank(i) = k - 1]
  BY DEF Sorted, Before
<1> HIDE DEF rank, s
<1>4. ASSUME NEW k \in 1..n PROVE s[k] \in S /\ rank(s[k]) = k - 1
  <2>1. k - 1 \in 0..(n - 1)
    BY <1>1
  <2>2. \E i \in S : rank(i) = k - 1
    BY <1>2, <2>1
  <2>3. s[k] = CHOOSE i \in S : rank(i) = k - 1
    BY <1>3
  <2> QED BY <2>2, <2>3
<1>5. ASSUME NEW i \in S, NEW j \in S, rank(i) = rank(j) PROVE i = j
  <2>1. rank(i) \in Int
    BY <1>1, <1>2
  <2>2. <<i, j>> \notin R /\ <<j, i>> \notin R
    BY <1>2, <1>5, <2>1
  <2> QED BY <2>2 DEF IsOrder
<1>6. ASSUME NEW i \in S PROVE \E k \in 1..n : s[k] = i
  <2>1. rank(i) \in Int /\ rank(i) + 1 \in 1..n
    BY <1>1, <1>2
  <2>2. s[rank(i) + 1] \in S /\ rank(s[rank(i) + 1]) = rank(i)
    BY <1>4, <2>1
  <2> QED BY <1>5, <2>1, <2>2
<1>7. ASSUME NEW k \in 1..n, NEW l \in 1..n, k < l PROVE <<s[k], s[l]>> \in R
  <2>1. /\ s[k] \in S /\ rank(s[k]) = k - 1
        /\ s[l] \in S /\ rank(s[l]) = l - 1
    BY <1>4
  <2>2. s[k] # s[l]
    BY <1>1, <1>7, <2>1
  <2>3. <<s[l], s[k]>> \notin R
    BY <1>1, <1>2, <1>7, <2>1
  <2> QED BY <2>1, <2>2, <2>3 DEF IsOrder
<1>8. s \in [1..n -> S]
  BY <1>3, <1>4
<1> QED BY <1>1, <1>6, <1>7, <1>8 DEF s

\* at lists the numbers of P from the lowest to the highest.
Lists(at, n, P) ==
    /\ P \subseteq Int /\ n \in Nat /\ at \in [1..n -> P]
    /\ \A i \in P : \E k \in 1..n : at[k] = i
    /\ \A k, l \in 1..n : k < l => at[k] < at[l]

LEMMA AscendingLists ==
    ASSUME NEW P, P \subseteq Int, IsFiniteSet(P)
    PROVE  Lists(Ascending(P), Cardinality(P), P)
<1> DEFINE R == {p \in P \X P : p[1] < p[2]}
<1>1. \A i, j \in P : <<i, j>> \in R <=> i < j
  OBVIOUS
<1> HIDE DEF R
<1>2. IsOrder(P, R)
  BY <1>1 DEF IsOrder
<1>3. Ascending(P) = Sorted(P, R)
  BY DEF Ascending, R
<1>4. /\ Cardinality(P) \in Nat
      /\ Sorted(P, R) \in [1..Cardinality(P) -> P]
      /\ \A i \in P : \E k \in 1..Cardinality(P) : Sorted(P, R)[k] = i
      /\ \A k, l \in 1..Cardinality(P) : k < l => <<Sorted(P, R)[k], Sorted(P, R)[l]>> \in R
  BY <1>2, SortedIs
<1> QED BY <1>1, <1>3, <1>4 DEF Lists

LEMMA ListFacts ==
    ASSUME NEW P, NEW n, NEW at, Lists(at, n, P)
    PROVE  /\ n \in Nat /\ at \in [1..n -> P]
           /\ \A k \in 1..n : at[k] \in P /\ at[k] \in Int /\ k \in Int
           /\ \A k, l \in 1..n : at[k] = at[l] => k = l
           /\ \A k, l \in 1..n : at[k] < at[l] <=> k < l
           /\ \A i \in P : \E k \in 1..n : at[k] = i
<1>1. n \in Nat /\ at \in [1..n -> P]
  BY DEF Lists
<1>2. ASSUME NEW k \in 1..n PROVE at[k] \in P /\ at[k] \in Int /\ k \in Int
  <2>1. at[k] \in P
    BY <1>1
  <2>2. at[k] \in Int
    BY <2>1 DEF Lists
  <2> QED BY <2>1, <2>2
<1>3. ASSUME NEW k \in 1..n, NEW l \in 1..n
      PROVE  (at[k] = at[l] => k = l) /\ (at[k] < at[l] <=> k < l)
  <2>1. (k < l => at[k] < at[l]) /\ (l < k => at[l] < at[k])
    BY DEF Lists
  <2> QED BY <1>2, <2>1
<1>4. \A i \in P : \E k \in 1..n : at[k] = i
  BY DEF Lists
<1> QED BY <1>1, <1>2, <1>3, <1>4

\* There is one such list: a number has those before it in P before it in the list.
LEMMA OneList ==
    ASSUME NEW P, NEW n, NEW at, Lists(at, n, P)
    PROVE  IsFiniteSet(P) /\ Cardinality(P) = n /\ at = Ascending(P)
<1>0. n \in Nat /\ at \in [1..n -> P]
  BY ListFacts
<1>1. \A k, l \in 1..n : at[k] = at[l] => k = l
  BY ListFacts
<1>2. \A k, l \in 1..n : at[k] < at[l] <=> k < l
  BY ListFacts
<1>3. ASSUME NEW m \in 0..n
      PROVE  /\ IsFiniteSet({at[l] : l \in 1..m})
             /\ Cardinality({at[l] : l \in 1..m}) = m
  <2> DEFINE T == {at[l] : l \in 1..m}
             g == [l \in 1..m |-> at[l]]
  <2>1. 1..m \subseteq 1..n
    BY <1>0
  <2>2. g \in Bijection(1..m, T)
    <3>1. g \in [1..m -> T] /\ \A t \in T : \E l \in 1..m : g[l] = t
      OBVIOUS
    <3>2. \A k, l \in 1..m : g[k] = g[l] => k = l
      BY <1>1, <2>1
    <3>3. g \in [1..m -> T] /\ \A k, l \in DOMAIN g : g[k] = g[l] => k = l
      BY <3>1, <3>2
    <3> HIDE DEF g, T
    <3> QED BY <3>1, <3>3, SMT DEF Bijection, Injection, Surjection, IsInjective
  <2>3. IsFiniteSet(1..m) /\ Cardinality(1..m) = m
    BY FS_Interval
  <2>4. ExistsBijection(1..m, T)
    BY <2>2 DEF ExistsBijection
  <2> HIDE DEF T
  <2>5. IsFiniteSet(T) /\ Cardinality(T) = m
    BY <2>3, <2>4, FS_Bijection
  <2> QED BY <2>5 DEF T
<1>4. IsFiniteSet(P) /\ Cardinality(P) = n
  <2>1. P = {at[l] : l \in 1..n}
    BY <1>0 DEF Lists
  <2>3. n \in 0..n
    BY <1>0
  <2> QED BY <1>3, <2>1, <2>3
<1>5. Lists(Ascending(P), Cardinality(P), P)
  <2>1. P \subseteq Int
    BY DEF Lists
  <2> QED BY <1>4, <2>1, AscendingLists
<1> DEFINE R == {p \in P \X P : p[1] < p[2]}
           below(i) == {j \in P : <<j, i>> \in R}
           rank(i) == Cardinality(below(i))
<1>6. Ascending(P) = [k \in 1..n |-> CHOOSE i \in P : rank(i) = k - 1]
  BY <1>4 DEF Ascending, Sorted
<1>7. ASSUME NEW k \in 1..n PROVE rank(at[k]) = k - 1
  <2>1. k - 1 \in 0..n
    BY <1>0
  <2>2. at[k] \in P
    BY <1>0
  <2>3. \A j : j \in below(at[k]) <=> j \in P /\ j < at[k]
    BY <2>2
  <2>4. below(at[k]) = {at[l] : l \in 1..(k - 1)}
    <3>1. ASSUME NEW j \in P, j < at[k] PROVE \E l \in 1..(k - 1) : at[l] = j
      <4>1. PICK l \in 1..n : at[l] = j
        BY DEF Lists
      <4>2. l < k
        BY <1>2, <3>1, <4>1
      <4> QED BY <1>0, <4>1, <4>2
    <3>2. ASSUME NEW l \in 1..(k - 1) PROVE at[l] \in P /\ at[l] < at[k]
      BY <1>0, <1>2
    <3> HIDE DEF below
    <3> QED BY <2>3, <3>1, <3>2
  <2> HIDE DEF below
  <2>5. Cardinality({at[l] : l \in 1..(k - 1)}) = k - 1
    BY <1>3, <2>1
  <2> QED BY <2>4, <2>5
<1>8. ASSUME NEW k \in 1..n PROVE Ascending(P)[k] = at[k]
  <2>0. rank(at[k]) = k - 1
    BY <1>7
  <2>1. at[k] \in P
    BY <1>0
  <2>2. ASSUME NEW i \in P, rank(i) = k - 1 PROVE i = at[k]
    <3>1. PICK l \in 1..n : at[l] = i
      BY DEF Lists
    <3>2. rank(i) = l - 1
      BY <1>7, <3>1
    <3> HIDE DEF rank
    <3> QED BY <1>0, <2>2, <3>1, <3>2
  <2> HIDE DEF rank
  <2>3. Ascending(P)[k] = CHOOSE i \in P : rank(i) = k - 1
    BY <1>6
  <2> QED BY <2>0, <2>1, <2>2, <2>3
<1>9. Ascending(P) \in [1..n -> P]
  BY <1>4, <1>5 DEF Lists
<1> QED BY <1>0, <1>4, <1>8, <1>9

\* A part is known by any list of its positions.
LEMMA PartIs ==
    ASSUME NEW s, NEW P, NEW n, NEW at, Lists(at, n, P)
    PROVE  PartAt(s, P) = [k \in 1..n |-> s[at[k]]]
<1>1. at = Ascending(P) /\ DOMAIN at = 1..n
  BY OneList, ListFacts
<1> QED BY <1>1 DEF PartAt

PartBy(t, at, s, P) ==
    /\ Lists(at, Len(t), P) /\ DOMAIN t = 1..Len(t)
    /\ \A k \in 1..Len(t) : at[k] \in P /\ t[k] = s[at[k]]

LEMMA PartType ==
    ASSUME NEW T, NEW s \in Seq(T), NEW P, P \subseteq DOMAIN s
    PROVE  PartAt(s, P) \in Seq(T) /\ PartBy(PartAt(s, P), Ascending(P), s, P)
<1> DEFINE n == Cardinality(P)
           at == Ascending(P)
           t == PartAt(s, P)
<1>1. Len(s) \in Nat /\ DOMAIN s = 1..Len(s)
  OBVIOUS
<1>2. IsFiniteSet(P) /\ P \subseteq Int
  <2>1. IsFiniteSet(1..Len(s))
    BY <1>1, FS_Interval
  <2>2. P \in SUBSET (1..Len(s)) /\ 1..Len(s) \subseteq Int
    BY <1>1
  <2> QED BY <2>1, <2>2, FS_Subset
<1>3. Lists(at, n, P)
  BY <1>2, AscendingLists
<1> HIDE DEF at, n, t
<1>4. t = [k \in 1..n |-> s[at[k]]]
  BY <1>3, PartIs DEF t
<1>5. n \in Nat /\ \A k \in 1..n : at[k] \in P
  BY <1>3, ListFacts
<1>6. \A k \in 1..n : s[at[k]] \in T
  <2> SUFFICES ASSUME NEW k \in 1..n PROVE s[at[k]] \in T
    OBVIOUS
  <2>1. at[k] \in 1..Len(s)
    BY <1>1, <1>5
  <2> QED BY <2>1, ElementOfSeq
<1>7. t \in [1..n -> T] /\ \A k \in 1..n : t[k] = s[at[k]]
  BY <1>4, <1>6
<1>8. t \in Seq(T) /\ Len(t) = n /\ DOMAIN t = 1..n
  BY <1>5, <1>7, SeqDef, LenProperties
<1> QED BY <1>3, <1>5, <1>7, <1>8 DEF PartBy, t, at

---------------------------------------------------------------------------
(* Sums, and lists that name each member of a set once *)

LEMMA LeastNumber ==
    ASSUME NEW Bad, Bad \subseteq Nat, Bad # {}
    PROVE  \E n \in Bad : \A k \in Bad : ~(k < n)
<1>1. \E n \in Bad : \A k \in Bad : ~(<<k, n>> \in OpToRel(<, Nat))
  BY NatLessThanWellFounded, WFMin
<1> QED BY <1>1 DEF OpToRel

LEMMA LeastSet ==
    ASSUME NEW S, IsFiniteSet(S), NEW Bad, Bad \subseteq SUBSET S, Bad # {}
    PROVE  \E T \in Bad : \A U \in Bad : U \subseteq T => U = T
<1>1. IsWellFoundedOn(StrictSubsetOrdering(S), SUBSET S)
  BY FS_FiniteSubsetsOfFinite, FS_StrictSubsetOrderingWellFounded
<1>2. \E T \in Bad : \A U \in Bad : ~(<<U, T>> \in StrictSubsetOrdering(S))
  BY <1>1, WFMin
<1> QED BY <1>2 DEF StrictSubsetOrdering

\* The member of a set that the sum takes first.
First(S) == CHOOSE x \in S : TRUE

LEMMA FirstIsMember == \A S : S # {} => First(S) \in S
BY DEF First

SumFrom(w, sums, S) ==
    IF S = {} THEN 0 ELSE w[First(S)] + sums[S \ {First(S)}]

AreSums(w, sums, S) ==
    sums = [T \in SUBSET S |-> sums[T]] /\ \A T \in SUBSET S : sums[T] = SumFrom(w, sums, T)

\* The recursion of MapThenFoldSet defines a function: the sums of the sets of
\* n members make those of the sets of n + 1.
LEMMA SumsExist ==
    ASSUME NEW w, NEW S, IsFiniteSet(S)
    PROVE  \E sums : AreSums(w, sums, S)
<1> DEFINE Upto(sums, n) ==
             /\ sums = [T \in SUBSET S |-> sums[T]]
             /\ \A T \in SUBSET S : Cardinality(T) <= n => sums[T] = SumFrom(w, sums, T)
           Bad == {n \in Nat : ~\E sums : Upto(sums, n)}
<1>1. \E sums : Upto(sums, 0)
  <2> DEFINE zero == [T \in SUBSET S |-> 0]
  <2>1. \A T \in SUBSET S : Cardinality(T) <= 0 => T = {}
    BY FS_Subset, FS_EmptySet, FS_CardinalityType
  <2>2. Upto(zero, 0)
    BY <2>1 DEF SumFrom
  <2> HIDE DEF zero
  <2> QED BY <2>2
<1>2. ASSUME NEW n \in Nat, NEW sums, Upto(sums, n)
      PROVE  \E more : Upto(more, n + 1)
  <2> DEFINE more == [T \in SUBSET S |-> SumFrom(w, sums, T)]
  <2>1. ASSUME NEW T \in SUBSET S, Cardinality(T) <= n + 1
        PROVE  more[T] = SumFrom(w, more, T)
    <3>1. CASE T = {}
      BY <3>1 DEF SumFrom
    <3>2. CASE T # {}
      <4> DEFINE rest == T \ {First(T)}
      <4>1. rest \in SUBSET S /\ Cardinality(rest) <= n
        BY <2>1, <3>2, FirstIsMember, FS_Subset, FS_RemoveElement, FS_CardinalityType
      <4>2. more[rest] = sums[rest]
        BY <1>2, <4>1
      <4> QED BY <3>2, <4>1, <4>2 DEF SumFrom
    <3> QED BY <3>1, <3>2
  <2>2. more = [T \in SUBSET S |-> more[T]]
    OBVIOUS
  <2> HIDE DEF more
  <2> QED BY <2>1, <2>2
<1> HIDE DEF Upto
<1>3. Bad = {}
  <2> SUFFICES ASSUME Bad # {} PROVE FALSE
    OBVIOUS
  <2>1. PICK n \in Bad : \A k \in Bad : ~(k < n)
    BY LeastNumber
  <2>2. n # 0
    BY <1>1
  <2>3. n - 1 \in Nat /\ n - 1 \notin Bad
    BY <2>1, <2>2
  <2> QED BY <1>2, <2>3
<1>4. Cardinality(S) \in Nat
  BY FS_CardinalityType
<1>5. PICK sums : Upto(sums, Cardinality(S))
  BY <1>3, <1>4
<1>6. AreSums(w, sums, S)
  BY <1>5, FS_Subset DEF Upto, AreSums
<1> QED BY <1>6

LEMMA TotalIsSum ==
    ASSUME NEW w, NEW S, IsFiniteSet(S)
    PROVE  \E sums : AreSums(w, sums, S) /\ Total(w, S) = sums[S]
<1> DEFINE Equation(sums) ==
             sums = [T \in SUBSET S |->
                        IF T = {} THEN 0
                        ELSE LET x == CHOOSE x \in T : TRUE
                             IN  w[x] + sums[T \ {x}]]
           iter == CHOOSE sums : Equation(sums)
<1>1. PICK sums : AreSums(w, sums, S)
  BY SumsExist
<1>2. Equation(sums)
  BY <1>1 DEF AreSums, SumFrom, First
<1>3. Total(w, S) = iter[S]
  BY DEF Total, MapThenSumSet, MapThenFoldSet
<1>4. Equation(iter)
  <2> HIDE DEF Equation
  <2> QED BY <1>2
<1>5. \A f : Equation(f) => AreSums(w, f, S)
  <2> SUFFICES ASSUME NEW f, Equation(f) PROVE AreSums(w, f, S)
    OBVIOUS
  <2>1. \A T \in SUBSET S : f[T] = SumFrom(w, f, T)
    BY Zenon DEF SumFrom, First
  <2>2. f = [T \in SUBSET S |-> SumFrom(w, f, T)]
    BY Zenon DEF SumFrom, First
  <2>3. f = [T \in SUBSET S |-> f[T]]
    BY <2>2, Zenon
  <2> HIDE DEF Equation
  <2> QED BY <2>1, <2>3 DEF AreSums
<1> HIDE DEF iter, Equation
<1> QED BY <1>3, <1>4, <1>5

LEMMA SumsAgree ==
    ASSUME NEW w, NEW S, NEW T \in SUBSET S, IsFiniteSet(T),
           NEW f, AreSums(w, f, S), NEW g, AreSums(w, g, T)
    PROVE  f[T] = g[T]
<1> DEFINE Bad == {U \in SUBSET T : f[U] # g[U]}
<1> SUFFICES ASSUME Bad # {} PROVE FALSE
  OBVIOUS
<1>1. PICK U \in Bad : \A V \in Bad : V \subseteq U => V = U
  <2>1. Bad \subseteq SUBSET T
    OBVIOUS
  <2> HIDE DEF Bad
  <2> QED BY <2>1, LeastSet
<1>2. f[U] = SumFrom(w, f, U) /\ g[U] = SumFrom(w, g, U)
  BY DEF AreSums
<1>3. U # {}
  BY <1>2 DEF SumFrom
<1>4. f[U \ {First(U)}] = g[U \ {First(U)}]
  BY <1>1, <1>3, FirstIsMember
<1> QED BY <1>2, <1>4 DEF SumFrom

LEMMA SumUnfolds ==
    ASSUME NEW w, NEW S, IsFiniteSet(S)
    PROVE  Total(w, S) =
               IF S = {} THEN 0
               ELSE w[First(S)] + Total(w, S \ {First(S)})
<1> DEFINE rest == S \ {First(S)}
<1>1. PICK f : AreSums(w, f, S) /\ Total(w, S) = f[S]
  BY TotalIsSum
<1>2. IsFiniteSet(rest) /\ rest \in SUBSET S
  BY FS_Subset
<1>3. PICK g : AreSums(w, g, rest) /\ Total(w, rest) = g[rest]
  BY <1>2, TotalIsSum
<1>4. f[rest] = g[rest]
  BY <1>1, <1>2, <1>3, SumsAgree
<1>5. f[S] = SumFrom(w, f, S)
  BY <1>1 DEF AreSums
<1> QED BY <1>1, <1>3, <1>4, <1>5 DEF SumFrom

\* The order of a sum does not matter.
LEMMA SumWithout ==
    ASSUME NEW w, NEW S, IsFiniteSet(S), \A i \in S : w[i] \in Nat
    PROVE  /\ Total(w, S) \in Nat
           /\ \A x \in S : Total(w, S) =
                           w[x] + Total(w, S \ {x})
<1> DEFINE Right(T) ==
             /\ Total(w, T) \in Nat
             /\ \A x \in T : Total(w, T) =
                             w[x] + Total(w, T \ {x})
           Bad == {T \in SUBSET S : ~Right(T)}
<1>1. SUFFICES ASSUME Bad # {} PROVE FALSE
  BY Zenon
<1>2. PICK T \in Bad : \A U \in Bad : U \subseteq T => U = T
  <2>1. Bad \subseteq SUBSET S
    OBVIOUS
  <2> HIDE DEF Bad
  <2> QED BY <1>1, <2>1, LeastSet
<1>3. \A U \in SUBSET T : U # T => Right(U)
  BY <1>2
<1>4. IsFiniteSet(T) /\ \A x : IsFiniteSet(T \ {x})
  BY FS_Subset
<1> DEFINE c == First(T)
<1>5. T # {}
  <2> SUFFICES ASSUME T = {} PROVE Right(T)
    BY <1>2
  <2>1. Total(w, T) = 0
    BY <1>4, SumUnfolds
  <2> QED BY <2>1
<1>6. c \in T /\ Total(w, T) = w[c] + Total(w, T \ {c})
  BY <1>4, <1>5, SumUnfolds, FirstIsMember
<1> HIDE DEF c
<1>7. Right(T \ {c})
  BY <1>3, <1>6
<1>8. Total(w, T) \in Nat
  BY <1>6, <1>7
<1>9. ASSUME NEW x \in T, x # c
      PROVE  Total(w, T) = w[x] + Total(w, T \ {x})
  <2>1. Total(w, T \ {c}) = w[x] + Total(w, (T \ {c}) \ {x})
    BY <1>7, <1>9
  <2>2. Right(T \ {x}) /\ Right((T \ {c}) \ {x})
    BY <1>3, <1>6, <1>9
  <2>3. Total(w, T \ {x}) = w[c] + Total(w, (T \ {x}) \ {c})
    BY <1>6, <1>9, <2>2
  <2>4. (T \ {x}) \ {c} = (T \ {c}) \ {x}
    OBVIOUS
  <2>5. w[c] \in Nat /\ w[x] \in Nat
    BY <1>2, <1>6
  <2>6. Total(w, (T \ {c}) \ {x}) \in Nat
    BY <2>2
  <2>7. \A i, j, k \in Nat : i + (j + k) = j + (i + k)
    OBVIOUS
  <2>8. /\ Total(w, T) =
             w[c] + (w[x] + Total(w, (T \ {c}) \ {x}))
        /\ Total(w, T \ {x}) =
             w[c] + Total(w, (T \ {c}) \ {x})
    BY <1>6, <2>1, <2>3, <2>4, Zenon
  <2>9. w[c] + (w[x] + Total(w, (T \ {c}) \ {x})) =
        w[x] + (w[c] + Total(w, (T \ {c}) \ {x}))
    BY <2>5, <2>6, <2>7
  <2> QED BY <2>8, <2>9, Zenon
<1> QED BY <1>2, <1>6, <1>8, <1>9

\* The sum of nothing, of what two functions agree about, and of what an
\* injection names.
LEMMA SumOfNone == \A w : Total(w, {}) = 0
BY SumUnfolds, FS_EmptySet

LEMMA SumsOfEqual ==
    ASSUME NEW v, NEW w, NEW S, IsFiniteSet(S), \A i \in S : v[i] \in Nat /\ w[i] = v[i]
    PROVE  Total(v, S) = Total(w, S)
<1> DEFINE Bad == {T \in SUBSET S : Total(v, T) # Total(w, T)}
<1>1. SUFFICES ASSUME Bad # {} PROVE FALSE
  OBVIOUS
<1>2. PICK T \in Bad : \A U \in Bad : U \subseteq T => U = T
  <2>1. Bad \subseteq SUBSET S
    OBVIOUS
  <2> HIDE DEF Bad
  <2> QED BY <1>1, <2>1, LeastSet
<1> DEFINE c == First(T)
<1>3. T # {} /\ IsFiniteSet(T)
  BY SumOfNone, FS_Subset
<1>4. c \in T /\ v[c] = w[c]
  BY <1>3, FirstIsMember
<1>5. Total(v, T \ {c}) = Total(w, T \ {c})
  BY <1>2, <1>4
<1>6. Total(v, T) = v[c] + Total(v, T \ {c}) /\ Total(w, T) = w[c] + Total(w, T \ {c})
  BY <1>3, SumUnfolds
<1> QED BY <1>4, <1>5, <1>6

Sums(n, at, v, w) ==
    /\ \A j \in 1..n : v[j] \in Nat /\ w[at[j]] = v[j]
    /\ \A j, k \in 1..n : at[j] = at[k] => j = k

SumsAlike(n, at, v, w) ==
    \A k \in 0..n : Total(v, 1..k) \in Nat
                    /\ Total(v, 1..k) = Total(w, {at[j] : j \in 1..k})

LEMMA SumOfNamed ==
    ASSUME NEW n \in Nat, NEW at, NEW v, NEW w, Sums(n, at, v, w)
    PROVE  SumsAlike(n, at, v, w)
<1> SUFFICES \A k \in 0..n : Total(v, 1..k) \in Nat
                             /\ Total(v, 1..k) = Total(w, {at[j] : j \in 1..k})
  BY DEF SumsAlike
<1> DEFINE Named(k) == {at[j] : j \in 1..k}
           Right(k) == Total(v, 1..k) \in Nat /\ Total(v, 1..k) = Total(w, Named(k))
           Bad == {k \in 0..n : ~Right(k)}
<1>0. /\ \A j \in 1..n : v[j] \in Nat /\ w[at[j]] = v[j]
      /\ \A j, k \in 1..n : at[j] = at[k] => j = k
  BY DEF Sums
<1>1. SUFFICES ASSUME Bad # {} PROVE FALSE
  BY Zenon
<1>2. PICK k \in Bad : \A j \in Bad : ~(j < k)
  <2>1. Bad \subseteq Nat
    OBVIOUS
  <2> HIDE DEF Bad
  <2> QED BY <1>1, <2>1, LeastNumber
<1>3. k # 0
  <2> SUFFICES ASSUME k = 0 PROVE Right(0)
    BY <1>2
  <2>1. 1..0 = {} /\ Named(0) = {}
    OBVIOUS
  <2> QED BY <2>1, SumOfNone
<1> DEFINE m == k - 1
<1>4. k \in 1..n /\ m \in 0..n /\ m < k
  BY <1>3
<1>5. Right(m)
  <2>1. m \notin Bad
    BY <1>2, <1>4
  <2> QED BY <1>4, <2>1
<1>6. /\ (1..k) \ {k} = 1..m /\ k \in 1..k
      /\ Named(k) \ {at[k]} = Named(m) /\ at[k] \in Named(k)
  BY <1>0, <1>4
<1>7. IsFiniteSet(1..k) /\ IsFiniteSet(Named(k))
  <2>a. k \in Int /\ \A a, b \in Int : IsFiniteSet(a..b)
    BY <1>4, FS_Interval
  <2>1. IsFiniteSet(1..k)
    BY <2>a
  <2> DEFINE g == [j \in 1..k |-> at[j]]
  <2>2. g \in Surjection(1..k, Named(k))
    BY DEF Surjection
  <2> QED BY <2>1, <2>2, FS_Surjection
<1>8. \A i \in 1..k : v[i] \in Nat
  BY <1>0, <1>4
<1>9. \A i \in Named(k) : w[i] \in Nat
  BY <1>0, <1>4
<1>10. Total(v, 1..k) \in Nat /\ Total(v, 1..k) = v[k] + Total(v, 1..m)
  <2> DEFINE S == 1..k
  <2>1. IsFiniteSet(S) /\ (\A i \in S : v[i] \in Nat) /\ k \in S /\ S \ {k} = 1..m
    BY <1>6, <1>7, <1>8
  <2> HIDE DEF S
  <2>2. Total(v, S) \in Nat /\ Total(v, S) = v[k] + Total(v, S \ {k})
    BY <2>1, SumWithout
  <2> QED BY <2>1, <2>2 DEF S
<1>11. Total(w, Named(k)) = w[at[k]] + Total(w, Named(m))
  <2> DEFINE S == Named(k)
  <2>1. IsFiniteSet(S) /\ (\A i \in S : w[i] \in Nat) /\ at[k] \in S /\ S \ {at[k]} = Named(m)
    BY <1>6, <1>7, <1>9
  <2> HIDE DEF S
  <2>2. \A x \in S : Total(w, S) = w[x] + Total(w, S \ {x})
    <3>1. IsFiniteSet(S) /\ \A i \in S : w[i] \in Nat
      BY <2>1
    <3> QED BY <3>1, SumWithout
  <2>3. Total(w, S) = w[at[k]] + Total(w, S \ {at[k]})
    BY <2>1, <2>2
  <2> QED BY <2>1, <2>3 DEF S
<1>12. Right(k)
  BY <1>0, <1>4, <1>5, <1>10, <1>11
<1> QED BY <1>2, <1>12

---------------------------------------------------------------------------
\* order has each member of S once.
Enumerates(order, S) ==
    /\ order \in Seq(S)
    /\ \A i \in S : \E k \in 1..Len(order) : order[k] = i
    /\ \A k, l \in 1..Len(order) : order[k] = order[l] => k = l

LEMMA SortedEnumerates ==
    ASSUME NEW S, IsFiniteSet(S), NEW R, IsOrder(S, R)
    PROVE  /\ Enumerates(Sorted(S, R), S)
           /\ \A k, l \in 1..Len(Sorted(S, R)) :
                  k < l => <<Sorted(S, R)[k], Sorted(S, R)[l]>> \in R
<1> DEFINE n == Cardinality(S)
           s == Sorted(S, R)
<1>1. n \in Nat /\ s \in [1..n -> S]
  BY SortedIs
<1>2. \A i \in S : \E k \in 1..n : s[k] = i
  BY SortedIs
<1>3. \A k, l \in 1..n : k < l => <<s[k], s[l]>> \in R
  BY SortedIs
<1> HIDE DEF s, n
<1>4. s \in Seq(S) /\ Len(s) = n
  BY <1>1
<1>5. ASSUME NEW k \in 1..n, NEW l \in 1..n, s[k] = s[l] PROVE k = l
  <2>1. ~(k < l) /\ ~(l < k)
    BY <1>1, <1>3, <1>5 DEF IsOrder
  <2> QED BY <1>1, <2>1
<1>6. Enumerates(s, S)
  BY <1>2, <1>4, <1>5 DEF Enumerates
<1> QED BY <1>3, <1>4, <1>6 DEF s

LEMMA AscendingEnumerates ==
    ASSUME NEW P, P \subseteq Int, IsFiniteSet(P)
    PROVE  Enumerates(Ascending(P), P)
<1> DEFINE n == Cardinality(P)
           s == Ascending(P)
<1>0. Lists(s, n, P)
  BY AscendingLists
<1> HIDE DEF s, n
<1>1. n \in Nat /\ s \in [1..n -> P]
  BY <1>0, ListFacts
<1>2. \A i \in P : \E k \in 1..n : s[k] = i
  BY <1>0, ListFacts
<1>3. \A k, l \in 1..n : s[k] = s[l] => k = l
  BY <1>0, ListFacts
<1>4. s \in Seq(P) /\ Len(s) = n
  BY <1>1
<1>5. Enumerates(s, P)
  BY <1>2, <1>3, <1>4 DEF Enumerates
<1> QED BY <1>5 DEF s

LEMMA JoinEnumerates ==
    ASSUME NEW S, NEW p, Enumerates(p, S), NEW T, NEW q, Enumerates(q, T), S \cap T = {}
    PROVE  /\ Enumerates(p \o q, S \union T)
           /\ Len(p) \in Nat /\ Len(q) \in Nat /\ Len(p \o q) = Len(p) + Len(q)
           /\ \A k \in 1..Len(p) : (p \o q)[k] = p[k] /\ p[k] \in S
           /\ \A k \in 1..Len(q) : (p \o q)[Len(p) + k] = q[k] /\ q[k] \in T
<1> DEFINE U == S \union T
           s == p \o q
           m == Len(p)
           n == Len(q)
<1>1. p \in Seq(S) /\ q \in Seq(T) /\ p \in Seq(U) /\ q \in Seq(U)
  BY DEF Enumerates
<1>2. m \in Nat /\ n \in Nat /\ s \in Seq(U) /\ Len(s) = m + n
  BY <1>1
<1>3. \A k \in 1..m : s[k] = p[k] /\ p[k] \in S
  BY <1>1
<1>4. \A k \in 1..n : s[m + k] = q[k] /\ q[k] \in T
  BY <1>1
<1>5. \A k \in 1..(m + n) : k \in 1..m \/ (k - m \in 1..n /\ k = m + (k - m))
  BY <1>2
<1>6. \A i \in S : \E k \in 1..m : p[k] = i
  BY DEF Enumerates
<1>7. \A i \in T : \E k \in 1..n : q[k] = i
  BY DEF Enumerates
<1>8. \A k, l \in 1..m : p[k] = p[l] => k = l
  BY DEF Enumerates
<1>9. \A k, l \in 1..n : q[k] = q[l] => k = l
  BY DEF Enumerates
<1> HIDE DEF s, m, n
<1>10. ASSUME NEW i \in U PROVE \E k \in 1..(m + n) : s[k] = i
  <2>1. CASE i \in S
    <3>1. PICK k \in 1..m : p[k] = i
      BY <1>6, <2>1
    <3>2. k \in 1..(m + n) /\ s[k] = i
      BY <1>2, <1>3, <3>1
    <3> QED BY <3>2
  <2>2. CASE i \in T
    <3>1. PICK k \in 1..n : q[k] = i
      BY <1>7, <2>2
    <3>2. m + k \in 1..(m + n) /\ s[m + k] = i
      BY <1>2, <1>4, <3>1
    <3> QED BY <3>2
  <2> QED BY <2>1, <2>2
<1>11. ASSUME NEW k \in 1..(m + n), NEW l \in 1..(m + n), s[k] = s[l] PROVE k = l
  <2>1. CASE k \in 1..m /\ l \in 1..m
    BY <1>3, <1>8, <1>11, <2>1
  <2>2. CASE k \in 1..m /\ l - m \in 1..n
    <3>1. s[k] \in S
      BY <1>3, <2>2
    <3>2. s[m + (l - m)] \in T /\ m + (l - m) = l
      BY <1>2, <1>4, <2>2
    <3> QED BY <1>11, <3>1, <3>2
  <2>3. CASE k - m \in 1..n /\ l \in 1..m
    <3>1. s[l] \in S
      BY <1>3, <2>3
    <3>2. s[m + (k - m)] \in T /\ m + (k - m) = k
      BY <1>2, <1>4, <2>3
    <3> QED BY <1>11, <3>1, <3>2
  <2>4. CASE k - m \in 1..n /\ l - m \in 1..n
    <3>1. /\ s[m + (k - m)] = q[k - m] /\ m + (k - m) = k
          /\ s[m + (l - m)] = q[l - m] /\ m + (l - m) = l
      BY <1>2, <1>4, <2>4
    <3>2. k - m = l - m
      BY <1>9, <1>11, <2>4, <3>1
    <3> QED BY <1>2, <3>2
  <2> QED BY <1>5, <2>1, <2>2, <2>3, <2>4
<1>12. Enumerates(s, U)
  BY <1>2, <1>10, <1>11 DEF Enumerates
<1> QED BY <1>2, <1>3, <1>4, <1>12 DEF s, m, n

---------------------------------------------------------------------------
(* Prompt: the conversation *)

\* What the client and the provider say, each text of its own: the n-th.
Text(n) == <<n - 1>>
Parts == Nat \union {Block} \union UNION {ToSet(s) : s \in Systems}

\* The client's prompt and its conversation: a result behind each use, but for a
\* use the client has not answered yet, and a result only there.
HistoryOK ==
    /\ provider \in {"anthropic", "openai"}
    /\ system.form \in Forms /\ system.parts \in Seq(Parts \ (Nat \union {Block}))
    /\ system = [form |-> system.form, parts |-> system.parts]
    /\ system.form = "none" => system.parts = <<>>
    /\ pc \in {"client", "evict", "inject", "forward", "parse"}
    /\ history \in Seq(PayloadMessage)
    /\ \A i \in DOMAIN history : history[i].content = Text(i) /\ history[i].role # "system"
    /\ \A i \in DOMAIN history :
         /\ history[i].kind = "use" => i = Len(history) \/ history[i + 1].kind = "result"
         /\ history[i].kind = "result" => i > 1 /\ history[i - 1].kind = "use"
    /\ pc \in {"evict", "inject", "forward"} =>
         Len(history) > 0 /\ history[Len(history)].kind # "use"

\* Only the first message may be a system prompt; every other one is of the
\* conversation, a single text.
MessagesOK(messages) ==
    /\ messages \in Seq(PayloadMessage)
    /\ \A i \in DOMAIN messages :
         \/ messages[i].role # "system" /\ \E n \in Nat : messages[i].content = <<n>>
         \/ messages[i].role = "system" /\ i = 1 /\ provider = "openai"

\* What came, without what was taken out; with the block.
Left(S) == [asked EXCEPT !.messages = Without(@, S)]
Injected(p) == IF provider = "anthropic" THEN [p EXCEPT !.system = InSystem(@)]
               ELSE [p EXCEPT !.messages = InFirst(@)]

PayloadOK ==
    /\ payload.system.form \in Forms
    /\ MessagesOK(payload.messages)
    /\ pc # "client" => payload.messages # <<>>
    /\ pc \in {"evict", "inject", "forward"} =>
         asked = PayloadOf(system, history) /\ dropped \subseteq archived
    /\ pc = "evict" => payload = asked /\ dropped = {}
    /\ pc \in {"inject", "forward"} =>
         \E S \in SUBSET SafelyEvictable(asked.messages) :
            /\ dropped = ContentsAt(asked.messages, S)
            /\ payload = Left(S) \/ (pc = "forward" /\ payload = Injected(Left(S)))

ArchiveOK == archived \subseteq {<<n>> : n \in Nat}

PromptInv == HistoryOK /\ PayloadOK /\ ArchiveOK

LEMMA PromptInitially == Init => PromptInv
<1> SUFFICES ASSUME Init PROVE PromptInv
  OBVIOUS
<1>1. HistoryOK
  <2>1. history = <<>> /\ history \in Seq(PayloadMessage) /\ DOMAIN history = {}
    BY DEF Init
  <2>2. system = NoSystem \/ system \in [form : Forms \ {"none"}, parts : Systems]
    BY DEF Init
  <2>3. /\ system.form \in Forms /\ system = [form |-> system.form, parts |-> system.parts]
        /\ system.parts = <<>> \/ system.parts \in Systems
        /\ system.form = "none" => system.parts = <<>>
    BY <2>2 DEF NoSystem, Forms
  <2>4. \A s \in Systems : s \in Seq(Parts \ (Nat \union {Block}))
    <3> SUFFICES ASSUME NEW s \in Systems PROVE s \in Seq(Parts \ (Nat \union {Block}))
      OBVIOUS
    <3>1. s \in Seq(ToSet(s)) /\ ToSet(s) \subseteq Parts \ (Nat \union {Block})
      BY PromptAssumption DEF Parts
    <3> QED BY <3>1, SeqMonotonic
  <2>5. <<>> \in Seq(Parts \ (Nat \union {Block}))
    OBVIOUS
  <2>6. pc = "client" /\ provider \in {"anthropic", "openai"}
    BY DEF Init
  <2> QED BY <2>1, <2>3, <2>4, <2>5, <2>6 DEF HistoryOK
<1>2. payload = [system |-> IF provider = "openai" THEN NoSystem ELSE NoSystem, messages |-> <<>> \o <<>>]
  BY DEF Init, PayloadOf, PromptOf, NoSystem
<1>3. <<>> \o <<>> = <<>> /\ <<>> \in Seq(PayloadMessage) /\ DOMAIN <<>> = {}
  BY ConcatEmptySeq, EmptySeq
<1>4. MessagesOK(<<>>)
  BY <1>3 DEF MessagesOK
<1>5. payload = [system |-> NoSystem, messages |-> <<>>] /\ pc = "client" /\ archived = {}
  BY <1>2, <1>3 DEF Init
<1> QED BY <1>1, <1>4, <1>5 DEF PromptInv, PayloadOK, ArchiveOK, NoSystem, Forms

\* What comes is the conversation, behind the system prompt where the provider
\* takes it as a message.
AskedIs(p) ==
    LET M == p.messages
    IN  /\ MessagesOK(M) /\ M # <<>>
        /\ \A i \in DOMAIN M :
             /\ M[i].role # "system" => \E n \in Nat : M[i].content = <<n>>
             /\ M[i].role = "system" => M[i].content \in Seq(Parts \ (Nat \union {Block}))
        /\ \A i, j \in DOMAIN M : M[j].role # "system" /\ M[i].content = M[j].content => i = j
        /\ provider = "anthropic" => M = history
        /\ p = [system |-> p.system, messages |-> M]
        /\ p.system = [form |-> p.system.form, parts |-> p.system.parts]
        /\ p.system.form \in Forms /\ p.system.parts \in Seq(Parts \ (Nat \union {Block}))
        /\ p.system.form = "none" => p.system.parts = <<>>

LEMMA WhatComes == HistoryOK /\ Len(history) > 0 => AskedIs(PayloadOf(system, history))
<1> SUFFICES ASSUME HistoryOK, Len(history) > 0 PROVE AskedIs(PayloadOf(system, history))
  OBVIOUS
<1> DEFINE p == PayloadOf(system, history)
           M == p.messages
           first == [role |-> "system", kind |-> "text", content |-> system.parts]
<1>1. /\ provider \in {"anthropic", "openai"}
      /\ system.form \in Forms /\ system.parts \in Seq(Parts \ (Nat \union {Block}))
      /\ system = [form |-> system.form, parts |-> system.parts]
      /\ system.form = "none" => system.parts = <<>>
  BY DEF HistoryOK
<1>2. history \in Seq(PayloadMessage) /\ Len(history) \in Nat /\ DOMAIN history = 1..Len(history)
  BY DEF HistoryOK
<1>3. /\ p = [system |-> p.system, messages |-> M]
      /\ p.system = (IF provider = "openai" THEN NoSystem ELSE system)
      /\ M = PromptOf(system) \o history
  BY DEF PayloadOf
<1>4. /\ p.system = [form |-> p.system.form, parts |-> p.system.parts]
      /\ p.system.form \in Forms /\ p.system.parts \in Seq(Parts \ (Nat \union {Block}))
      /\ p.system.form = "none" => p.system.parts = <<>>
  <2>1. /\ NoSystem = [form |-> NoSystem.form, parts |-> NoSystem.parts] /\ NoSystem.parts = <<>>
        /\ NoSystem.form \in Forms /\ NoSystem.parts \in Seq(Parts \ (Nat \union {Block}))
    BY DEF NoSystem, Forms
  <2>2. p.system = NoSystem \/ p.system = system
    BY <1>3
  <2> HIDE DEF p
  <2> QED BY <1>1, <2>1, <2>2
<1>5. first \in PayloadMessage
  <2>1. system.parts \in Seq(Parts)
    BY <1>1, SeqMonotonic
  <2> QED BY <2>1 DEF PayloadMessage, Parts
<1>6. ASSUME NEW i \in DOMAIN history
      PROVE  /\ history[i] \in PayloadMessage /\ history[i].role # "system" /\ history[i].content = <<i - 1>>
             /\ i - 1 \in Nat
  BY <1>2, ElementOfSeq DEF HistoryOK, Text
<1>7. CASE PromptOf(system) = <<>>
  <2>1. M = history
    BY <1>2, <1>3, <1>7, ConcatEmptySeq
  <2> HIDE DEF M, p
  <2>2. M # <<>>
    BY <1>2, <2>1, EmptySeq
  <2>3. \A i, j \in DOMAIN M : M[i].content = M[j].content => i = j
    BY <1>2, <1>6, <2>1
  <2>4. MessagesOK(M)
    BY <1>2, <1>6, <2>1 DEF MessagesOK
  <2>5. \A i \in DOMAIN M : M[i].role # "system" /\ \E n \in Nat : M[i].content = <<n>>
    BY <1>6, <2>1
  <2> QED BY <1>3, <1>4, <2>1, <2>2, <2>3, <2>4, <2>5 DEF AskedIs, M, p
<1>8. CASE PromptOf(system) # <<>>
  <2>1. provider = "openai" /\ PromptOf(system) = <<first>>
    BY <1>8 DEF PromptOf
  <2>2. M = <<first>> \o history
    BY <1>3, <2>1
  <2> HIDE DEF M, p
  <2>3. M \in Seq(PayloadMessage) /\ Len(M) = Len(history) + 1 /\ M[1] = first
        /\ \A i \in 2..Len(M) : M[i] = history[i - 1]
    BY <1>2, <1>5, <2>2
  <2>4. ASSUME NEW i \in DOMAIN M
        PROVE  \/ i = 1 /\ M[i] = first
               \/ i # 1 /\ i - 1 \in DOMAIN history /\ M[i] = history[i - 1] /\ M[i].content = <<i - 1 - 1>>
                  /\ i - 1 - 1 \in Nat /\ M[i].role # "system"
    <3>1. i \in 1..Len(M)
      BY <2>3
    <3>2. i # 1 => i \in 2..Len(M) /\ i - 1 \in DOMAIN history
      BY <1>2, <2>3, <3>1
    <3> QED BY <1>6, <2>3, <3>2
  <2>5. M # <<>>
    BY <1>2, <2>3, EmptySeq
  <2>6. ASSUME NEW i \in DOMAIN M, NEW j \in DOMAIN M, M[j].role # "system", M[i].content = M[j].content
        PROVE  i = j
    <3>1. j # 1 /\ j - 1 - 1 \in Nat /\ M[j].content = <<j - 1 - 1>>
      BY <2>4, <2>6
    <3>2. i # 1
      <4> SUFFICES ASSUME i = 1 PROVE FALSE
        OBVIOUS
      <4>1. system.parts = <<j - 1 - 1>>
        BY <2>4, <2>6, <3>1
      <4>2. 1 \in 1..Len(system.parts) /\ system.parts[1] = j - 1 - 1
        BY <4>1
      <4>3. system.parts[1] \in Parts \ (Nat \union {Block})
        BY <1>1, <4>2, ElementOfSeq
      <4> QED BY <3>1, <4>2, <4>3
    <3>3. M[i].content = <<i - 1 - 1>> /\ i - 1 - 1 \in Nat
      BY <2>4, <3>2
    <3>4. i - 1 - 1 = j - 1 - 1
      BY <2>6, <3>1, <3>3
    <3>5. i \in Int /\ j \in Int
      BY <2>3
    <3> QED BY <3>4, <3>5
  <2>7. MessagesOK(M)
    BY <2>1, <2>3, <2>4 DEF MessagesOK
  <2>8. ASSUME NEW i \in DOMAIN M
        PROVE  /\ M[i].role # "system" => \E n \in Nat : M[i].content = <<n>>
               /\ M[i].role = "system" => M[i].content \in Seq(Parts \ (Nat \union {Block}))
    BY <1>1, <2>4
  <2> QED BY <1>3, <1>4, <2>1, <2>5, <2>6, <2>7, <2>8 DEF AskedIs, M, p
<1> QED BY <1>7, <1>8

LEMMA FirstStays ==
    ASSUME NEW n, NEW at, NEW P, Lists(at, n, P), P \subseteq Nat \ {0}
    PROVE  /\ \A k \in 1..n : at[k] = 1 => k = 1
           /\ 1 \in P => n > 0 /\ at[1] = 1
<1>1. /\ n \in Nat /\ \A k \in 1..n : at[k] \in P
      /\ \A k, l \in 1..n : at[k] < at[l] <=> k < l
  BY ListFacts
<1>2. ASSUME NEW k \in 1..n, at[k] = 1 PROVE k = 1 /\ at[1] = 1
  <2>1. 1 \in 1..n /\ k \in Int
    BY <1>1
  <2>2. at[1] \in Nat \ {0}
    BY <1>1, <2>1
  <2>3. ~(at[1] < at[k])
    BY <1>2, <2>2
  <2>4. ~(1 < k)
    BY <1>1, <2>1, <2>3
  <2> QED BY <1>1, <1>2, <2>1, <2>4
<1>3. 1 \in P => \E k \in 1..n : at[k] = 1
  BY DEF Lists
<1> QED BY <1>1, <1>2, <1>3

\* What is left of the messages when some of them, never the first, are taken out.
LEMMA WithoutOK ==
    ASSUME NEW messages, MessagesOK(messages), messages # <<>>,
           NEW S, S \subseteq SafelyEvictable(messages)
    PROVE  MessagesOK(Without(messages, S)) /\ Without(messages, S) # <<>>
<1> DEFINE P == DOMAIN messages \ S
           left == PartAt(messages, P)
<1>1. messages \in Seq(PayloadMessage) /\ Len(messages) \in Nat /\ DOMAIN messages = 1..Len(messages)
      /\ Len(messages) # 0
  BY EmptySeq DEF MessagesOK
<1>2. P \subseteq DOMAIN messages /\ P \subseteq Nat \ {0}
  BY <1>1
<1>3. 1 \in P
  BY <1>1, PromptAssumption DEF SafelyEvictable, Middle
<1> HIDE DEF P
<1> DEFINE at == Ascending(P)
           n == Len(left)
<1>4. left \in Seq(PayloadMessage) /\ PartBy(left, at, messages, P)
  BY <1>1, <1>2, PartType
<1> HIDE DEF left, at
<1>5. /\ (\A k \in 1..n : at[k] = 1 => k = 1) /\ n > 0
      /\ DOMAIN left = 1..n /\ \A k \in 1..n : at[k] \in P /\ left[k] = messages[at[k]]
  BY <1>2, <1>3, <1>4, FirstStays DEF PartBy
<1>6. left # <<>>
  BY <1>5, EmptySeq
<1>7. ASSUME NEW k \in DOMAIN left
      PROVE  \/ left[k].role # "system" /\ \E m \in Nat : left[k].content = <<m>>
             \/ left[k].role = "system" /\ k = 1 /\ provider = "openai"
  <2>1. at[k] \in DOMAIN messages /\ left[k] = messages[at[k]]
    BY <1>2, <1>5
  <2> QED BY <1>5, <2>1 DEF MessagesOK
<1> QED BY <1>4, <1>6, <1>7 DEF MessagesOK, Without, left, P

\* The block is put into the system field, or into a system message at the head.
LEMMA InFirstOK ==
    ASSUME NEW messages, MessagesOK(messages), provider = "openai"
    PROVE  MessagesOK(InFirst(messages)) /\ InFirst(messages) # <<>>
<1> DEFINE block == [role |-> "system", kind |-> "text", content |-> <<Block>>]
<1>1. messages \in Seq(PayloadMessage) /\ Len(messages) \in Nat /\ DOMAIN messages = 1..Len(messages)
  BY DEF MessagesOK
<1>2. block \in PayloadMessage
  BY DEF PayloadMessage
<1>3. CASE messages # <<>> /\ Head(messages).role = "system"
  <2> DEFINE new == [messages EXCEPT ![1].content = <<Block>> \o @]
  <2>1. 1 \in DOMAIN messages /\ messages[1] \in PayloadMessage
    BY <1>1, <1>3, EmptySeq, ElementOfSeq
  <2>2. messages[1].content \in Seq(Parts) /\ <<Block>> \in Seq(Parts)
    BY <2>1 DEF PayloadMessage, Parts
  <2>3. <<Block>> \o messages[1].content \in Seq(Parts)
    BY <2>2, ConcatProperties
  <2>4. [messages[1] EXCEPT !.content = <<Block>> \o messages[1].content] \in PayloadMessage
        /\ [messages[1] EXCEPT !.content = <<Block>> \o messages[1].content].role = "system"
    <3>1. messages[1].role = "system"
      BY <1>1, <1>3, HeadTailProperties
    <3> QED BY <2>1, <2>3, <3>1 DEF PayloadMessage, Parts
  <2>5. new = [messages EXCEPT ![1] = [messages[1] EXCEPT !.content = <<Block>> \o messages[1].content]]
    OBVIOUS
  <2>6. new \in Seq(PayloadMessage) /\ DOMAIN new = DOMAIN messages
        /\ new[1].role = "system" /\ \A i \in DOMAIN messages : i # 1 => new[i] = messages[i]
    BY <1>1, <2>1, <2>4, <2>5, ExceptSeq
  <2>7. InFirst(messages) = new
    BY <1>3 DEF InFirst
  <2> HIDE DEF new
  <2>8. new # <<>>
    BY <2>1, <2>6, EmptySeq
  <2> QED BY <2>6, <2>7, <2>8 DEF MessagesOK
<1>4. CASE ~(messages # <<>> /\ Head(messages).role = "system")
  <2> DEFINE new == <<block>> \o messages
  <2>1. new \in Seq(PayloadMessage) /\ Len(new) = Len(messages) + 1 /\ new[1] = block
        /\ \A i \in 2..Len(new) : new[i] = messages[i - 1]
    BY <1>1, <1>2
  <2>2. InFirst(messages) = new
    BY <1>4 DEF InFirst
  <2>3. \A i \in DOMAIN messages : messages[i].role # "system"
    <3> SUFFICES ASSUME NEW i \in DOMAIN messages, messages[i].role = "system" PROVE FALSE
      OBVIOUS
    <3>1. i = 1 /\ messages # <<>>
      BY <1>1, EmptySeq DEF MessagesOK
    <3>2. Head(messages).role = "system"
      BY <1>1, <3>1, HeadTailProperties
    <3> QED BY <1>4, <3>1, <3>2
  <2> HIDE DEF new
  <2>4. ASSUME NEW i \in DOMAIN new
        PROVE  \/ new[i].role # "system" /\ \E n \in Nat : new[i].content = <<n>>
               \/ new[i].role = "system" /\ i = 1 /\ provider = "openai"
    <3>1. i \in 1..Len(new) /\ (i # 1 => i \in 2..Len(new) /\ i - 1 \in DOMAIN messages)
      BY <1>1, <2>1
    <3>2. i # 1 => new[i].role # "system" /\ \E n \in Nat : new[i].content = <<n>>
      BY <2>1, <2>3, <3>1 DEF MessagesOK
    <3>3. i = 1 => new[i].role = "system"
      BY <2>1
    <3> QED BY <3>2, <3>3
  <2>5. new # <<>>
    BY <1>1, <2>1, EmptySeq
  <2> QED BY <2>1, <2>2, <2>4, <2>5 DEF MessagesOK
<1> QED BY <1>3, <1>4

---------------------------------------------------------------------------
(* Prompt: the steps *)

LEMMA AskKeeps ==
    ASSUME PromptInv, Ask PROVE PromptInv'
<1> DEFINE used == history # <<>> /\ Last(history).kind = "use"
           turn == [role |-> IF used /\ provider = "openai" THEN "tool" ELSE "user",
                    kind |-> IF used THEN "result" ELSE "text",
                    content |-> <<Len(history)>>]
<1>1. /\ history' = Append(history, turn) /\ asked' = PayloadOf(system, history')
      /\ payload' = asked' /\ dropped' = {} /\ pc' = "evict"
      /\ provider' = provider /\ system' = system /\ archived' = archived
  BY DEF Ask
<1>2. history \in Seq(PayloadMessage) /\ Len(history) \in Nat /\ DOMAIN history = 1..Len(history)
  BY DEF PromptInv, HistoryOK
<1>3. turn \in PayloadMessage /\ turn.role # "system" /\ turn.content = Text(Len(history) + 1)
      /\ turn.kind # "use"
      /\ (turn.kind = "result" <=> used)
  <2>1. <<Len(history)>> \in Seq(Parts) /\ Text(Len(history) + 1) = <<Len(history)>>
    BY <1>2 DEF Parts, Text
  <2>2. turn.content = <<Len(history)>> /\ turn.kind = (IF used THEN "result" ELSE "text")
        /\ turn.role \in {"tool", "user"}
    OBVIOUS
  <2> QED BY <2>1, <2>2 DEF PayloadMessage, Parts
<1>4. used <=> (Len(history) > 0 /\ history[Len(history)].kind = "use")
  BY <1>2, EmptySeq DEF Last
<1> HIDE DEF used, turn
<1>5. /\ history' \in Seq(PayloadMessage) /\ Len(history') = Len(history) + 1
      /\ DOMAIN history' = 1..(Len(history) + 1)
      /\ history'[Len(history) + 1] = turn
      /\ \A i \in 1..Len(history) : history'[i] = history[i]
  BY <1>1, <1>2, <1>3, AppendProperties
<1>6. \A i \in DOMAIN history' : history'[i].content = Text(i) /\ history'[i].role # "system"
  <2> SUFFICES ASSUME NEW i \in DOMAIN history' PROVE history'[i].content = Text(i) /\ history'[i].role # "system"
    OBVIOUS
  <2>1. i \in DOMAIN history \/ i = Len(history) + 1
    BY <1>2, <1>5
  <2> QED BY <1>2, <1>3, <1>5, <2>1 DEF PromptInv, HistoryOK
<1>7. ASSUME NEW i \in DOMAIN history'
      PROVE  /\ history'[i].kind = "use" => i = Len(history') \/ history'[i + 1].kind = "result"
             /\ history'[i].kind = "result" => i > 1 /\ history'[i - 1].kind = "use"
  <2>1. CASE i = Len(history) + 1
    BY <1>2, <1>3, <1>4, <1>5, <2>1
  <2>2. CASE i \in 1..Len(history)
    <3>1. history'[i] = history[i]
      BY <1>5, <2>2
    <3>2. history[i].kind = "use" => history'[i + 1].kind = "result"
      <4>1. CASE i = Len(history)
        BY <1>2, <1>3, <1>4, <1>5, <2>2, <4>1
      <4>2. CASE i # Len(history)
        <5>1. i + 1 \in 1..Len(history)
          BY <1>2, <2>2, <4>2
        <5> QED BY <1>2, <1>5, <2>2, <4>2, <5>1 DEF PromptInv, HistoryOK
      <4> QED BY <4>1, <4>2
    <3>3. history[i].kind = "result" => i > 1 /\ history'[i - 1].kind = "use"
      <4> SUFFICES ASSUME history[i].kind = "result" PROVE i > 1 /\ history'[i - 1].kind = "use"
        OBVIOUS
      <4>1. i > 1 /\ history[i - 1].kind = "use"
        BY <1>2, <2>2 DEF PromptInv, HistoryOK
      <4>2. i - 1 \in 1..Len(history)
        BY <1>2, <2>2, <4>1
      <4> QED BY <1>5, <4>1, <4>2
    <3> QED BY <3>1, <3>2, <3>3
  <2> QED BY <1>2, <1>5, <2>1, <2>2
<1>8. HistoryOK'
  <2>1. Len(history') > 0 /\ history'[Len(history')].kind # "use"
    BY <1>2, <1>3, <1>5
  <2>2. /\ provider' \in {"anthropic", "openai"}
        /\ system'.form \in Forms /\ system'.parts \in (Seq(Parts \ (Nat \union {Block})))'
        /\ system' = [form |-> system'.form, parts |-> system'.parts]
        /\ system'.form = "none" => system'.parts = <<>>
    BY <1>1 DEF PromptInv, HistoryOK, Parts
  <2>3. pc' \in {"client", "evict", "inject", "forward", "parse"}
    BY <1>1
  <2>4. history' \in (Seq(PayloadMessage))'
    BY <1>5 DEF PayloadMessage
  <2>5. \A i \in DOMAIN history' : history'[i].content = Text(i)' /\ history'[i].role # "system"
    BY <1>6 DEF Text
  <2> QED BY <1>7, <2>1, <2>2, <2>3, <2>4, <2>5 DEF HistoryOK
<1>9. PayloadOK'
  <2>1. asked' = PayloadOf(system, history)'
    BY <1>1 DEF PayloadOf, PromptOf
  <2>2. /\ MessagesOK(asked.messages)' /\ asked'.messages # <<>> /\ asked'.system.form \in Forms'
    <3>1. Len(history') > 0
      BY <1>2, <1>5
    <3>2. AskedIs(PayloadOf(system, history))'
      <4>1. (HistoryOK /\ Len(history) > 0 => AskedIs(PayloadOf(system, history)))'
        BY WhatComes, PTL
      <4> QED BY <1>8, <3>1, <4>1
    <3> QED BY <2>1, <3>2 DEF AskedIs
  <2> QED BY <1>1, <2>1, <2>2 DEF PayloadOK
<1> QED BY <1>1, <1>8, <1>9 DEF PromptInv, ArchiveOK

LEMMA ContentsAreTexts ==
    ASSUME NEW messages, MessagesOK(messages), NEW S, S \subseteq DOMAIN messages,
           provider = "openai" => \A i \in S : messages[i].role # "system"
    PROVE  ContentsAt(messages, S) \subseteq {<<n>> : n \in Nat}
<1> SUFFICES ASSUME NEW i \in S PROVE \E n \in Nat : messages[i].content = <<n>>
  BY DEF ContentsAt
<1> QED BY DEF MessagesOK

LEMMA EvictableAreTexts ==
    ASSUME NEW messages, MessagesOK(messages), NEW S, S \subseteq SafelyEvictable(messages)
    PROVE  /\ S \subseteq DOMAIN messages /\ 1 \notin S
           /\ \A i \in S : messages[i].role # "system"
           /\ ContentsAt(messages, S) \subseteq {<<n>> : n \in Nat}
<1>1. Len(messages) \in Nat /\ DOMAIN messages = 1..Len(messages)
  BY DEF MessagesOK
<1>2. \A i \in S : i \in (Anchor + 1)..(Len(messages) - Recent)
  BY DEF SafelyEvictable, Middle
<1>3. S \subseteq DOMAIN messages /\ 1 \notin S
  BY <1>1, <1>2, PromptAssumption
<1>4. \A i \in S : messages[i].role # "system"
  BY <1>3 DEF MessagesOK
<1> QED BY <1>3, <1>4, ContentsAreTexts

\* Only the conversation and what the request is doing go into the invariant of
\* the history.
LEMMA SameHistory ==
    ASSUME HistoryOK, UNCHANGED <<provider, system, history>>,
           pc' \in {"client", "evict", "inject", "forward", "parse"},
           pc' \in {"evict", "inject", "forward"} => pc \in {"evict", "inject", "forward"}
    PROVE  HistoryOK'
BY DEF HistoryOK, Text, PayloadMessage, Parts

LEMMA EvictKeeps ==
    ASSUME PromptInv, Evict PROVE PromptInv'
<1>1. PICK S \in SUBSET SafelyEvictable(payload.messages) :
        /\ payload' = [payload EXCEPT !.messages = Without(@, S)]
        /\ dropped' = ContentsAt(payload.messages, S)
        /\ archived' = archived \union dropped'
  BY DEF Evict
<1>2. /\ pc = "evict" /\ pc' = "inject" /\ payload = asked
      /\ asked = PayloadOf(system, history) /\ dropped = {}
      /\ UNCHANGED <<provider, system, history, asked>>
  BY DEF Evict, PromptInv, PayloadOK
<1>3. AskedIs(asked)
  BY <1>2, WhatComes DEF PromptInv, HistoryOK
<1>4. MessagesOK(asked.messages) /\ asked.messages # <<>>
      /\ asked = [system |-> asked.system, messages |-> asked.messages]
  BY <1>3 DEF AskedIs
<1>5. MessagesOK(Without(asked.messages, S)) /\ Without(asked.messages, S) # <<>>
  BY <1>1, <1>2, <1>4, WithoutOK
<1>6. payload' = Left(S) /\ payload'.messages = Without(asked.messages, S)
      /\ payload'.system = asked.system
  BY <1>1, <1>2, <1>4 DEF Left
<1>7. ArchiveOK'
  BY <1>1, <1>2, <1>4, EvictableAreTexts DEF PromptInv, ArchiveOK
<1>8. HistoryOK'
  BY <1>2, SameHistory DEF PromptInv
<1>9. PayloadOK'
  <2>1. asked' = PayloadOf(system, history)' /\ dropped' \subseteq archived'
    BY <1>1, <1>2 DEF PayloadOf, PromptOf
  <2>2. MessagesOK(payload.messages)'
    BY <1>2, <1>5, <1>6 DEF MessagesOK, PayloadMessage
  <2>3. \E T \in SUBSET SafelyEvictable(asked.messages)' :
           /\ dropped' = ContentsAt(asked.messages, T)'
           /\ payload' = Left(T)'
    <3>1. S \in SUBSET SafelyEvictable(asked.messages)'
      BY <1>1, <1>2 DEF SafelyEvictable
    <3>2. Left(S)' = Left(S) /\ ContentsAt(asked.messages, S)' = ContentsAt(asked.messages, S)
      BY <1>2 DEF Left, ContentsAt
    <3> QED BY <1>1, <1>2, <1>6, <3>1, <3>2
  <2>4. payload'.system.form \in Forms
    BY <1>3, <1>6 DEF AskedIs
  <2> QED BY <1>2, <1>5, <1>6, <2>1, <2>2, <2>3, <2>4 DEF PayloadOK
<1> QED BY <1>7, <1>8, <1>9 DEF PromptInv

LEMMA WholePart ==
    ASSUME NEW T, NEW s \in Seq(T) PROVE PartAt(s, DOMAIN s) = s
<1> DEFINE n == Len(s)
           at == [k \in 1..n |-> k]
<1>1. n \in Nat /\ DOMAIN s = 1..n /\ s = [k \in 1..n |-> s[k]]
  OBVIOUS
<1>2. at \in [1..n -> 1..n] /\ \A k \in 1..n : at[k] = k
  OBVIOUS
<1> DEFINE P == 1..n
<1> HIDE DEF at, n
<1>3. Lists(at, n, P)
  BY <1>1, <1>2 DEF Lists
<1> HIDE DEF P
<1>4. PartAt(s, P) = [k \in 1..n |-> s[at[k]]]
  BY <1>3, PartIs
<1>5. [k \in 1..n |-> s[at[k]]] = [k \in 1..n |-> s[k]]
  BY <1>2
<1> QED BY <1>1, <1>4, <1>5 DEF P

\* With nothing taken out, a payload is what came.
LEMMA NothingLeft ==
    ASSUME AskedIs(asked)
    PROVE  /\ {} \in SUBSET SafelyEvictable(asked.messages)
           /\ ContentsAt(asked.messages, {}) = {} /\ Left({}) = asked
<1>1. asked.messages \in Seq(PayloadMessage)
  BY DEF AskedIs, MessagesOK
<1>2. DOMAIN asked.messages \ {} = DOMAIN asked.messages
  OBVIOUS
<1>4. Without(asked.messages, {}) = asked.messages
  BY <1>1, <1>2, WholePart DEF Without
<1>5. Left({}) = asked
  BY <1>4 DEF AskedIs, Left
<1> QED BY <1>5 DEF ContentsAt

LEMMA EvictFailsKeeps ==
    ASSUME PromptInv, EvictFails \/ PassThrough PROVE PromptInv'
<1>1. /\ pc = "evict" /\ pc' \in {"inject", "forward"} /\ payload = asked
      /\ asked = PayloadOf(system, history) /\ dropped = {}
      /\ UNCHANGED <<provider, system, history, asked, payload, dropped>>
  BY DEF EvictFails, PassThrough, PromptInv, PayloadOK
<1>2. AskedIs(asked)
  BY <1>1, WhatComes DEF PromptInv, HistoryOK
<1>3. MessagesOK(payload.messages)
  BY DEF PromptInv, PayloadOK
<1>4. ArchiveOK'
  <2>1. CASE EvictFails
    <3>1. PICK S \in SUBSET SafelyEvictable(payload.messages) :
            archived' = archived \union ContentsAt(payload.messages, S)
      BY <2>1 DEF EvictFails
    <3> QED BY <1>3, <3>1, EvictableAreTexts DEF PromptInv, ArchiveOK
  <2>2. CASE PassThrough
    BY <2>2 DEF PassThrough, PromptInv, ArchiveOK
  <2> QED BY <2>1, <2>2
<1>5. HistoryOK'
  BY <1>1, SameHistory DEF PromptInv
<1>6. PayloadOK'
  <2>1. asked' = PayloadOf(system, history)' /\ dropped' \subseteq archived'
    BY <1>1 DEF PayloadOf, PromptOf
  <2>2. MessagesOK(payload.messages)' /\ payload'.messages # <<>> /\ payload'.system.form \in Forms
    BY <1>1, <1>3 DEF MessagesOK, PayloadMessage, PromptInv, PayloadOK
  <2>3. \E T \in SUBSET SafelyEvictable(asked.messages)' :
           /\ dropped' = ContentsAt(asked.messages, T)'
           /\ payload' = Left(T)'
    <3>1. {} \in SUBSET SafelyEvictable(asked.messages)'
      OBVIOUS
    <3>2. ContentsAt(asked.messages, {})' = {} /\ Left({})' = Left({}) /\ Left({}) = asked
      BY <1>1, <1>2, NothingLeft DEF Left, ContentsAt
    <3> QED BY <1>1, <3>1, <3>2
  <2> QED BY <1>1, <2>1, <2>2, <2>3 DEF PayloadOK
<1> QED BY <1>4, <1>5, <1>6 DEF PromptInv

LEMMA InjectKeeps ==
    ASSUME PromptInv, Inject PROVE PromptInv'
<1>1. /\ pc = "inject" /\ pc' = "forward"
      /\ payload' = payload \/ payload' = Injected(payload)
      /\ UNCHANGED <<provider, system, history, asked, dropped, archived>>
  BY DEF Inject, Injected, PromptInv, HistoryOK
<1>2. asked = PayloadOf(system, history) /\ dropped \subseteq archived
      /\ MessagesOK(payload.messages) /\ payload.messages # <<>>
      /\ payload.system.form \in Forms
  BY <1>1 DEF PromptInv, PayloadOK
<1>3. PICK S \in SUBSET SafelyEvictable(asked.messages) :
        dropped = ContentsAt(asked.messages, S) /\ payload = Left(S)
  BY <1>1 DEF PromptInv, PayloadOK
<1>4. AskedIs(asked)
  BY <1>1, <1>2, WhatComes DEF PromptInv, HistoryOK
<1>5. payload = [system |-> payload.system, messages |-> payload.messages]
      /\ payload.system = [form |-> payload.system.form, parts |-> payload.system.parts]
  BY <1>3, <1>4 DEF Left, AskedIs
<1>6. MessagesOK(payload'.messages) /\ payload'.messages # <<>> /\ payload'.system.form \in Forms
  <2>1. CASE payload' = payload
    BY <1>2, <2>1
  <2>2. CASE payload' = Injected(payload) /\ provider = "anthropic"
    <3>1. payload'.messages = payload.messages /\ payload'.system = InSystem(payload.system)
      BY <1>5, <2>2 DEF Injected
    <3>2. InSystem(payload.system).form \in Forms
      BY <1>2, <1>5 DEF InSystem, Forms
    <3> QED BY <1>2, <3>1, <3>2
  <2>3. CASE payload' = Injected(payload) /\ provider # "anthropic"
    <3>1. payload'.messages = InFirst(payload.messages) /\ payload'.system = payload.system
      BY <1>5, <2>3 DEF Injected
    <3>2. provider = "openai"
      BY <2>3 DEF PromptInv, HistoryOK
    <3> QED BY <1>2, <3>1, <3>2, InFirstOK
  <2> QED BY <1>1, <2>1, <2>2, <2>3
<1>7. ArchiveOK'
  BY <1>1 DEF PromptInv, ArchiveOK
<1>8. HistoryOK'
  BY <1>1, SameHistory DEF PromptInv
<1>9. PayloadOK'
  <2>1. asked' = PayloadOf(system, history)' /\ dropped' \subseteq archived'
    BY <1>1, <1>2 DEF PayloadOf, PromptOf
  <2>2. MessagesOK(payload.messages)'
    BY <1>1, <1>6 DEF MessagesOK, PayloadMessage
  <2>3. /\ S \in SUBSET SafelyEvictable(asked.messages)'
        /\ dropped' = ContentsAt(asked.messages, S)'
        /\ (payload' = Left(S)' \/ payload' = Injected(Left(S))')
    <3>1. S \in SUBSET SafelyEvictable(asked.messages)'
      BY <1>1 DEF SafelyEvictable
    <3>2. /\ Left(S)' = Left(S) /\ Injected(Left(S))' = Injected(Left(S))
          /\ ContentsAt(asked.messages, S)' = ContentsAt(asked.messages, S)
      BY <1>1 DEF Left, ContentsAt, Injected
    <3> QED BY <1>1, <1>3, <3>1, <3>2
  <2> QED BY <1>1, <1>6, <2>1, <2>2, <2>3 DEF PayloadOK
<1> QED BY <1>7, <1>8, <1>9 DEF PromptInv

LEMMA ReplyKeeps ==
    ASSUME PromptInv, Reply PROVE PromptInv'
<1>1. PICK kind \in {"text", "use"} :
        history' = Append(history, [role |-> "assistant", kind |-> kind, content |-> <<Len(history)>>])
  BY DEF Reply
<1> DEFINE turn == [role |-> "assistant", kind |-> kind, content |-> <<Len(history)>>]
<1>2. /\ pc = "forward" /\ pc' = "parse"
      /\ UNCHANGED <<provider, system, asked, payload, dropped, archived>>
  BY DEF Reply
<1>3. history \in Seq(PayloadMessage) /\ Len(history) \in Nat /\ DOMAIN history = 1..Len(history)
      /\ Len(history) > 0 /\ history[Len(history)].kind # "use"
  BY <1>2 DEF PromptInv, HistoryOK
<1>4. turn \in PayloadMessage /\ turn.role # "system" /\ turn.content = Text(Len(history) + 1)
      /\ turn.kind # "result"
  <2>1. <<Len(history)>> \in Seq(Parts) /\ Text(Len(history) + 1) = <<Len(history)>>
    BY <1>3 DEF Parts, Text
  <2> QED BY <2>1 DEF PayloadMessage, Parts
<1>5. history' = Append(history, turn)
  BY <1>1
<1> HIDE DEF turn
<1>6. /\ history' \in Seq(PayloadMessage) /\ Len(history') = Len(history) + 1
      /\ DOMAIN history' = 1..(Len(history) + 1)
      /\ history'[Len(history) + 1] = turn
      /\ \A i \in 1..Len(history) : history'[i] = history[i]
  BY <1>3, <1>4, <1>5, AppendProperties
<1>7. ASSUME NEW i \in DOMAIN history'
      PROVE  /\ history'[i].content = Text(i) /\ history'[i].role # "system"
             /\ history'[i].kind = "use" => i = Len(history') \/ history'[i + 1].kind = "result"
             /\ history'[i].kind = "result" => i > 1 /\ history'[i - 1].kind = "use"
  <2>1. CASE i = Len(history) + 1
    BY <1>3, <1>4, <1>6, <2>1
  <2>2. CASE i \in 1..Len(history)
    <3>1. history'[i] = history[i]
      BY <1>6, <2>2
    <3>2. history[i].kind = "use" => history'[i + 1].kind = "result"
      <4> SUFFICES ASSUME history[i].kind = "use" PROVE history'[i + 1].kind = "result"
        OBVIOUS
      <4>1. i # Len(history)
        BY <1>3
      <4>2. history[i + 1].kind = "result"
        BY <1>3, <2>2, <4>1 DEF PromptInv, HistoryOK
      <4>3. i + 1 \in 1..Len(history)
        BY <1>3, <2>2, <4>1
      <4> QED BY <1>6, <4>2, <4>3
    <3>3. history[i].kind = "result" => i > 1 /\ history'[i - 1].kind = "use"
      <4> SUFFICES ASSUME history[i].kind = "result" PROVE i > 1 /\ history'[i - 1].kind = "use"
        OBVIOUS
      <4>1. i > 1 /\ history[i - 1].kind = "use"
        BY <1>3, <2>2 DEF PromptInv, HistoryOK
      <4>2. i - 1 \in 1..Len(history)
        BY <1>3, <2>2, <4>1
      <4> QED BY <1>6, <4>1, <4>2
    <3>4. history[i].content = Text(i) /\ history[i].role # "system"
      BY <1>3, <2>2 DEF PromptInv, HistoryOK
    <3> QED BY <3>1, <3>2, <3>3, <3>4
  <2> QED BY <1>3, <1>6, <2>1, <2>2
<1>8. HistoryOK'
  <2>1. /\ provider' \in {"anthropic", "openai"}
        /\ system'.form \in Forms /\ system'.parts \in (Seq(Parts \ (Nat \union {Block})))'
        /\ system' = [form |-> system'.form, parts |-> system'.parts]
        /\ system'.form = "none" => system'.parts = <<>>
    BY <1>2 DEF PromptInv, HistoryOK, Parts
  <2>2. history' \in (Seq(PayloadMessage))'
    BY <1>6 DEF PayloadMessage
  <2>3. \A i \in DOMAIN history' : history'[i].content = Text(i)' /\ history'[i].role # "system"
    BY <1>7 DEF Text
  <2>4. pc' \in {"client", "evict", "inject", "forward", "parse"} /\ pc' \notin {"evict", "inject", "forward"}
    BY <1>2
  <2> QED BY <1>7, <2>1, <2>2, <2>3, <2>4 DEF HistoryOK
<1>9. PayloadOK'
  BY <1>2 DEF PromptInv, PayloadOK, MessagesOK, PayloadMessage
<1> QED BY <1>2, <1>8, <1>9 DEF PromptInv, ArchiveOK

LEMMA PostEvictKeeps ==
    ASSUME PromptInv, PostEvict PROVE PromptInv'
<1>1. PICK S \in SUBSET Turns(payload.messages) :
        archived' = archived \union ContentsAt(payload.messages, S)
  BY DEF PostEvict
<1>2. /\ pc = "parse" /\ pc' = "client"
      /\ UNCHANGED <<provider, system, history, asked, payload, dropped>>
  BY DEF PostEvict
<1>3. MessagesOK(payload.messages)
  BY DEF PromptInv, PayloadOK
<1>4. ContentsAt(payload.messages, S) \subseteq {<<n>> : n \in Nat}
  BY <1>1, <1>3, ContentsAreTexts DEF Turns
<1>5. HistoryOK'
  BY <1>2, SameHistory DEF PromptInv
<1>6. PayloadOK'
  BY <1>2 DEF PromptInv, PayloadOK, MessagesOK, PayloadMessage
<1> QED BY <1>1, <1>4, <1>5, <1>6 DEF PromptInv, ArchiveOK

LEMMA PromptStutters ==
    ASSUME PromptInv, UNCHANGED vars PROVE PromptInv'
<1>1. UNCHANGED <<provider, system, history, pc, asked, payload, dropped, archived>>
  BY DEF vars
<1>2. HistoryOK'
  BY <1>1, SameHistory DEF PromptInv, HistoryOK
<1>3. PayloadOK'
  <2>1. PayloadOf(system, history)' = PayloadOf(system, history)
    BY <1>1 DEF PayloadOf, PromptOf
  <2>2. MessagesOK(payload.messages)' = MessagesOK(payload.messages)
    BY <1>1 DEF MessagesOK, PayloadMessage
  <2>3. SafelyEvictable(asked.messages)' = SafelyEvictable(asked.messages)
    BY <1>1 DEF SafelyEvictable
  <2>4. \A S : /\ ContentsAt(asked.messages, S)' = ContentsAt(asked.messages, S)
               /\ Left(S)' = Left(S) /\ Injected(Left(S))' = Injected(Left(S))
    BY <1>1 DEF ContentsAt, Left, Injected
  <2> QED BY <1>1, <2>1, <2>2, <2>3, <2>4 DEF PromptInv, PayloadOK
<1> QED BY <1>1, <1>2, <1>3 DEF PromptInv, ArchiveOK

\* Whatever the client sends and whichever step fails: the payload is what the
\* client said without some of the turns that may go, and with one block once it
\* has been injected; what has gone is archived, and the archive has only texts
\* of the conversation (proxy/app.py, _evict_inbound_to_ceiling, _handle_request
\* and _maybe_evict; the inject_ltm of the adapters).
THEOREM PromptInvariant == Spec => []PromptInv
<1>1. PromptInv /\ [Next]_vars => PromptInv'
  <2> SUFFICES ASSUME PromptInv, [Next]_vars PROVE PromptInv'
    OBVIOUS
  <2>1. CASE Ask
    BY <2>1, AskKeeps
  <2>2. CASE Evict
    BY <2>2, EvictKeeps
  <2>3. CASE EvictFails \/ PassThrough
    BY <2>3, EvictFailsKeeps
  <2>4. CASE Inject
    BY <2>4, InjectKeeps
  <2>5. CASE Reply
    BY <2>5, ReplyKeeps
  <2>6. CASE PostEvict
    BY <2>6, PostEvictKeeps
  <2>7. CASE UNCHANGED vars
    BY <2>7, PromptStutters
  <2> QED BY <2>1, <2>2, <2>3, <2>4, <2>5, <2>6, <2>7 DEF Next
<1> QED BY <1>1, PromptInitially, PTL DEF Spec

\* Type correctness of the payload, and that it is never left without a message.
THEOREM PromptTypes == Spec => []TypeOK
<1>1. PromptInv => TypeOK
  <2> SUFFICES ASSUME PromptInv PROVE TypeOK
    OBVIOUS
  <2>1. \A i \in DOMAIN history : history[i] \in PayloadMessage
    BY DEF PromptInv, HistoryOK
  <2>2. pc \in {"client", "evict", "inject", "forward", "parse"}
    BY DEF PromptInv, HistoryOK
  <2>3. \A i \in DOMAIN payload.messages : payload.messages[i] \in PayloadMessage
    BY DEF PromptInv, PayloadOK, MessagesOK
  <2>4. payload.system.form \in Forms /\ (pc # "client" => payload.messages # <<>>)
    BY DEF PromptInv, PayloadOK
  <2> QED BY <2>1, <2>2, <2>3, <2>4 DEF TypeOK
<1> QED BY <1>1, PromptInvariant, PTL

\* Memory does not feed on itself: neither the block nor a system prompt becomes
\* an episode (proxy/app.py, _maybe_evict).
THEOREM PromptArchive == Spec => []BlockIsNotArchived
<1>1. PromptInv => BlockIsNotArchived
  <2> SUFFICES ASSUME PromptInv, NEW c \in archived
               PROVE  ToSet(c) \intersect ({Block} \union ToSet(system.parts)) = {}
    BY DEF BlockIsNotArchived
  <2>1. PICK n \in Nat : c = <<n>>
    BY DEF PromptInv, ArchiveOK
  <2>2. ToSet(c) \subseteq Nat
    BY <2>1 DEF ToSet
  <2>3. ToSet(system.parts) \intersect Nat = {}
    <3>1. system.parts \in Seq(Parts \ (Nat \union {Block}))
      BY DEF PromptInv, HistoryOK
    <3> QED BY <3>1, ElementOfSeq DEF ToSet
  <2> QED BY <2>2, <2>3, PromptAssumption
<1> QED BY <1>1, PromptInvariant, PTL

\* Each use of a tool with its result behind it.
Paired(m) ==
    \A i \in DOMAIN m :
        /\ m[i].kind = "use" => i < Len(m) /\ m[i + 1].kind = "result"
        /\ m[i].kind = "result" => i > 1 /\ m[i - 1].kind = "use"

\* To take texts out separates no pair: what was next to a message that stays,
\* and stays itself, is next to it.
LEMMA NextStays ==
    ASSUME NEW n, NEW at, NEW P, Lists(at, n, P), P \subseteq Int,
           NEW k \in 1..n, NEW i \in P
    PROVE  /\ i = at[k] + 1 => k + 1 \in 1..n /\ at[k + 1] = i
           /\ i = at[k] - 1 => k - 1 \in 1..n /\ at[k - 1] = i
<1>1. PICK l \in 1..n : at[l] = i
  BY DEF Lists
<1>2. n \in Nat /\ k \in Int /\ l \in Int /\ at[k] \in Int
  BY ListFacts
<1>3. ASSUME NEW j \in 1..n PROVE (at[j] < at[l] <=> j < l) /\ (at[k] < at[j] <=> k < j)
                                  /\ (at[j] < at[k] <=> j < k) /\ (at[l] < at[j] <=> l < j)
                                  /\ at[j] \in Int
  BY ListFacts
<1>4. CASE i = at[k] + 1
  <2>1. k < l
    BY <1>1, <1>2, <1>3, <1>4
  <2>2. k + 1 \in 1..n
    BY <1>2, <2>1
  <2>3. ~(k + 1 < l)
    <3>1. k < k + 1
      BY <1>2
    <3>2. at[k] < at[k + 1] /\ at[k + 1] \in Int
      BY <1>3, <2>2, <3>1
    <3>3. ~(at[k + 1] < at[l])
      BY <1>1, <1>2, <1>4, <3>2
    <3> QED BY <1>3, <2>2, <3>3
  <2>4. l = k + 1
    BY <1>2, <2>1, <2>3
  <2>5. i # at[k] - 1
    BY <1>2, <1>4
  <2> QED BY <1>1, <2>2, <2>4, <2>5
<1>5. CASE i = at[k] - 1
  <2>1. l < k
    BY <1>1, <1>2, <1>3, <1>5
  <2>2. k - 1 \in 1..n
    BY <1>2, <2>1
  <2>3. ~(l < k - 1)
    <3>1. k - 1 < k
      BY <1>2
    <3>2. at[k - 1] < at[k] /\ at[k - 1] \in Int
      BY <1>3, <2>2, <3>1
    <3>3. ~(at[l] < at[k - 1])
      BY <1>1, <1>2, <1>5, <3>2
    <3> QED BY <1>3, <2>2, <3>3
  <2>4. l = k - 1
    BY <1>2, <2>1, <2>3
  <2>5. i # at[k] + 1
    BY <1>2, <1>5
  <2> QED BY <1>1, <2>2, <2>4, <2>5
<1> QED BY <1>4, <1>5

LEMMA PairsAreLeft ==
    ASSUME NEW m \in Seq(PayloadMessage), Paired(m), NEW S, \A i \in S : m[i].kind = "text"
    PROVE  Paired(Without(m, S))
<1> DEFINE P == DOMAIN m \ S
           left == PartAt(m, P)
           at == Ascending(P)
           n == Len(left)
<1>1. Len(m) \in Nat /\ DOMAIN m = 1..Len(m) /\ P \subseteq DOMAIN m /\ P \subseteq Int
  OBVIOUS
<1>2. \A i \in DOMAIN m : m[i].kind \in {"use", "result"} => i \in P
  OBVIOUS
<1> HIDE DEF P
<1>3. PartBy(left, at, m, P)
  BY <1>1, PartType
<1> HIDE DEF left, at
<1>4. Lists(at, n, P) /\ DOMAIN left = 1..n /\ \A k \in 1..n : at[k] \in P /\ left[k] = m[at[k]]
  BY <1>3 DEF PartBy
<1>5. n \in Nat
  BY <1>4, ListFacts
<1>6. ASSUME NEW k \in DOMAIN left
      PROVE  /\ left[k].kind = "use" => k < Len(left) /\ left[k + 1].kind = "result"
             /\ left[k].kind = "result" => k > 1 /\ left[k - 1].kind = "use"
  <2>1. k \in 1..n /\ at[k] \in DOMAIN m /\ at[k] \in 1..Len(m) /\ left[k] = m[at[k]]
    BY <1>1, <1>4
  <2>2. CASE left[k].kind = "use"
    <3>1. at[k] + 1 \in DOMAIN m /\ m[at[k] + 1].kind = "result"
      BY <1>1, <2>1, <2>2 DEF Paired
    <3>2. at[k] + 1 \in P
      BY <1>2, <3>1
    <3>3. k + 1 \in 1..n /\ at[k + 1] = at[k] + 1
      BY <1>1, <1>4, <2>1, <3>2, NextStays
    <3>4. left[k + 1].kind = "result"
      BY <1>4, <3>1, <3>3
    <3> QED BY <1>5, <2>1, <2>2, <3>3, <3>4
  <2>3. CASE left[k].kind = "result"
    <3>1. at[k] - 1 \in DOMAIN m /\ m[at[k] - 1].kind = "use"
      BY <1>1, <2>1, <2>3 DEF Paired
    <3>2. at[k] - 1 \in P
      BY <1>2, <3>1
    <3>3. k - 1 \in 1..n /\ at[k - 1] = at[k] - 1
      BY <1>1, <1>4, <2>1, <3>2, NextStays
    <3>4. left[k - 1].kind = "use"
      BY <1>4, <3>1, <3>3
    <3> QED BY <1>5, <2>1, <2>3, <3>3, <3>4
  <2> QED BY <2>2, <2>3
<1> QED BY <1>6 DEF Paired, Without, left, P

\* A tool use and its result stay together, or go together
\* (proxy/app.py, _evict_inbound_to_ceiling).
THEOREM PromptPairs == Spec => []PairsStayWhole
<1>1. PromptInv => PairsStayWhole
  <2> SUFFICES ASSUME PromptInv, pc = "forward", provider = "anthropic" PROVE Paired(payload.messages)
    BY DEF PairsStayWhole, Paired
  <2>1. /\ asked = PayloadOf(system, history) /\ Len(history) > 0
        /\ \E S \in SUBSET SafelyEvictable(asked.messages) :
              payload = Left(S) \/ payload = Injected(Left(S))
    BY DEF PromptInv, PayloadOK, HistoryOK
  <2>2. PICK S \in SUBSET SafelyEvictable(asked.messages) :
              payload = Left(S) \/ payload = Injected(Left(S))
    BY <2>1
  <2>3. AskedIs(asked)
    BY <2>1, WhatComes DEF PromptInv
  <2>4. asked.messages = history /\ asked = [system |-> asked.system, messages |-> asked.messages]
    BY <2>3 DEF AskedIs
  <2>5. payload.messages = Without(history, S)
    BY <2>2, <2>4 DEF Left, Injected
  <2>6. history \in Seq(PayloadMessage) /\ Paired(history)
    <3>1. history \in Seq(PayloadMessage) /\ Len(history) \in Nat /\ DOMAIN history = 1..Len(history)
      BY DEF PromptInv, HistoryOK
    <3>2. history[Len(history)].kind # "use"
      BY DEF PromptInv, HistoryOK
    <3>3. ASSUME NEW i \in DOMAIN history
          PROVE  /\ history[i].kind = "use" => i < Len(history) /\ history[i + 1].kind = "result"
                 /\ history[i].kind = "result" => i > 1 /\ history[i - 1].kind = "use"
      BY <3>1, <3>2 DEF PromptInv, HistoryOK
    <3> QED BY <3>1, <3>3 DEF Paired
  <2>7. \A i \in S : history[i].kind = "text"
    BY <2>4 DEF SafelyEvictable
  <2> QED BY <2>5, <2>6, <2>7, PairsAreLeft
<1> QED BY <1>1, PromptInvariant, PTL

---------------------------------------------------------------------------
(* Prompt: what is told *)

\* Two sequences have the same part when their positions correspond in order.
Corresponds(f, A, B) ==
    /\ A \subseteq Int /\ B \subseteq Int /\ IsFiniteSet(A)
    /\ f \in [A -> B]
    /\ \A b \in B : \E a \in A : f[a] = b
    /\ \A a, b \in A : a < b => f[a] < f[b]

LEMMA SamePart ==
    ASSUME NEW new, NEW old, NEW A, NEW B, NEW f, Corresponds(f, A, B),
           \A a \in A : new[a] = old[f[a]]
    PROVE  PartAt(new, A) = PartAt(old, B)
<1> DEFINE n == Cardinality(A)
           at == Ascending(A)
           to == [k \in 1..n |-> f[at[k]]]
<1>0. /\ A \subseteq Int /\ B \subseteq Int /\ IsFiniteSet(A)
      /\ f \in [A -> B]
      /\ \A b \in B : \E a \in A : f[a] = b
      /\ \A a, b \in A : a < b => f[a] < f[b]
  BY DEF Corresponds
<1>1. Lists(at, n, A)
  BY <1>0, AscendingLists
<1> HIDE DEF at, n
<1>2. n \in Nat /\ \A k \in 1..n : at[k] \in A
  BY <1>1, ListFacts
<1>3. \A k, l \in 1..n : k < l => at[k] < at[l]
  BY <1>1 DEF Lists
<1>4. \A a \in A : \E k \in 1..n : at[k] = a
  BY <1>1 DEF Lists
<1>5. to \in [1..n -> B]
  BY <1>0, <1>2
<1>6. ASSUME NEW b \in B PROVE \E k \in 1..n : to[k] = b
  <2>1. PICK a \in A : f[a] = b
    BY <1>0
  <2>2. PICK k \in 1..n : at[k] = a
    BY <1>4
  <2> QED BY <2>1, <2>2
<1>7. ASSUME NEW k \in 1..n, NEW l \in 1..n, k < l PROVE to[k] < to[l]
  BY <1>0, <1>2, <1>3, <1>7
<1>8. \A k \in 1..n : to[k] = f[at[k]]
  OBVIOUS
<1> HIDE DEF to
<1>9. Lists(to, n, B)
  BY <1>0, <1>2, <1>5, <1>6, <1>7 DEF Lists
<1>10. PartAt(new, A) = [k \in 1..n |-> new[at[k]]]
  BY <1>1, PartIs
<1>11. PartAt(old, B) = [k \in 1..n |-> old[to[k]]]
  BY <1>9, PartIs
<1>12. \A k \in 1..n : new[at[k]] = old[to[k]]
  BY <1>2, <1>8
<1> QED BY <1>10, <1>11, <1>12

\* d is c with the block at place e.
Inserted(d, c, e) ==
    /\ c \in Seq(Parts \ {Block}) /\ d \in Seq(Parts) /\ Len(d) = Len(c) + 1
    /\ e \in 1..Len(d) /\ d[e] = Block
    /\ \A j \in 1..Len(d) : (j < e => d[j] = c[j]) /\ (j > e => d[j] = c[j - 1])

LEMMA InsertedFacts ==
    ASSUME NEW d, NEW c, NEW e, Inserted(d, c, e)
    PROVE  Unblocked(d) = c /\ \A j \in DOMAIN d : d[j] = Block <=> j = e
<1> DEFINE A == {j \in DOMAIN d : d[j] # Block}
           B == DOMAIN c
           f == [j \in A |-> IF j < e THEN j ELSE j - 1]
<1>1. /\ Len(c) \in Nat /\ DOMAIN c = 1..Len(c) /\ DOMAIN d = 1..Len(d) /\ Len(d) = Len(c) + 1
      /\ e \in 1..Len(d) /\ d[e] = Block
  BY DEF Inserted
<1>2. \A j \in DOMAIN c : c[j] # Block
  <2> SUFFICES ASSUME NEW j \in DOMAIN c PROVE c[j] # Block
    OBVIOUS
  <2>1. c[j] \in Parts \ {Block}
    BY ElementOfSeq DEF Inserted
  <2> QED BY <2>1
<1>3. ASSUME NEW j \in DOMAIN d, j # e
      PROVE  /\ d[j] # Block
             /\ (IF j < e THEN j ELSE j - 1) \in B
             /\ d[j] = c[IF j < e THEN j ELSE j - 1]
  <2>1. (j < e => j \in DOMAIN c) /\ (j > e => j - 1 \in DOMAIN c)
    BY <1>1
  <2>2. (j < e => d[j] = c[j]) /\ (j > e => d[j] = c[j - 1])
    BY <1>1 DEF Inserted
  <2>3. j < e \/ j > e
    BY <1>1, <1>3
  <2> QED BY <1>1, <1>2, <2>1, <2>2, <2>3
<1>4. A = {j \in DOMAIN d : j # e}
  BY <1>1, <1>3
<1>5. IsFiniteSet(A) /\ A \subseteq Int /\ B \subseteq Int
  <2>1. IsFiniteSet(DOMAIN d) /\ A \in SUBSET DOMAIN d
    BY <1>1, FS_Interval
  <2> QED BY <1>1, <2>1, FS_Subset
<1>6. f \in [A -> B] /\ \A a \in A : d[a] = c[f[a]]
  BY <1>3, <1>4
<1>7. \A b \in B : \E a \in A : f[a] = b
  <2> SUFFICES ASSUME NEW b \in B PROVE \E a \in A : f[a] = b
    OBVIOUS
  <2>1. CASE b < e
    <3>1. b \in A
      BY <1>1, <1>4, <2>1
    <3> QED BY <2>1, <3>1
  <2>2. CASE ~(b < e)
    <3> DEFINE later == b + 1
    <3>1. later \in A /\ ~(later < e) /\ later - 1 = b
      BY <1>1, <1>4, <2>2
    <3> HIDE DEF later
    <3>2. \A a \in A : f[a] = IF a < e THEN a ELSE a - 1
      OBVIOUS
    <3> HIDE DEF f, A
    <3>3. f[later] = b
      BY <3>1, <3>2
    <3> QED BY <3>1, <3>3
  <2> QED BY <2>1, <2>2
<1>8. \A a, b \in A : a < b => f[a] < f[b]
  <2> SUFFICES ASSUME NEW a \in A, NEW b \in A, a < b PROVE f[a] < f[b]
    OBVIOUS
  <2>1. a \in 1..Len(d) /\ b \in 1..Len(d) /\ a # e /\ b # e
    BY <1>1, <1>4
  <2>2. f[a] = (IF a < e THEN a ELSE a - 1) /\ f[b] = (IF b < e THEN b ELSE b - 1)
    OBVIOUS
  <2> HIDE DEF f, A
  <2> QED BY <1>1, <2>1, <2>2
<1> HIDE DEF A, B, f
<1>9. PartAt(d, A) = PartAt(c, B)
  <2>1. Corresponds(f, A, B)
    BY <1>5, <1>6, <1>7, <1>8 DEF Corresponds
  <2>2. \A a \in A : d[a] = c[f[a]]
    BY <1>6
  <2> QED BY <2>1, <2>2, SamePart
<1>10. PartAt(c, B) = c
  BY WholePart DEF B, Inserted
<1> QED BY <1>1, <1>3, <1>9, <1>10 DEF Unblocked, A

LEMMA UnblockedStays ==
    ASSUME NEW c, c \in Seq(Parts \ {Block})
    PROVE  Unblocked(c) = c /\ \A j \in DOMAIN c : c[j] # Block
<1>1. \A j \in DOMAIN c : c[j] # Block
  <2> SUFFICES ASSUME NEW j \in DOMAIN c PROVE c[j] # Block
    OBVIOUS
  <2>1. c[j] \in Parts \ {Block}
    BY ElementOfSeq
  <2> QED BY <2>1
<1>2. {j \in DOMAIN c : c[j] # Block} = DOMAIN c
  BY <1>1
<1> QED BY <1>1, <1>2, WholePart DEF Unblocked

\* What a payload tells at a place.
Plain(p, i) ==
    IF i = 0 THEN <<"system", Unblocked(p.system.parts)>>
    ELSE <<p.messages[i].role, Unblocked(p.messages[i].content)>>

LEMMA ToldIs ==
    ASSUME NEW p, NEW gone
    PROVE  Told(p, gone) = PartAt([i \in 0..Len(p.messages) |-> Plain(p, i)],
                                  {i \in 0..Len(p.messages) : Plain(p, i)[2] \notin gone \union {<<>>}})
<1> DEFINE n == Len(p.messages)
           plain == [i \in DOMAIN Texts(p) |-> <<Texts(p)[i][1], Unblocked(Texts(p)[i][2])>>]
<1>1. DOMAIN Texts(p) = 0..n
  BY DEF Texts
<1>2. ASSUME NEW i \in 0..n PROVE <<Texts(p)[i][1], Unblocked(Texts(p)[i][2])>> = Plain(p, i)
  <2>1. CASE i = 0
    <3>1. Texts(p)[i] = <<"system", p.system.parts>>
      BY <2>1 DEF Texts
    <3> QED BY <2>1, <3>1 DEF Plain
  <2>2. CASE i # 0
    <3>1. Texts(p)[i] = <<p.messages[i].role, p.messages[i].content>>
      BY <2>2 DEF Texts
    <3> QED BY <2>2, <3>1 DEF Plain
  <2> QED BY <2>1, <2>2
<1>3. plain = [i \in 0..n |-> Plain(p, i)]
  BY <1>1, <1>2
<1>4. Told(p, gone) = PartAt(plain, {i \in DOMAIN plain : plain[i][2] \notin gone \union {<<>>}})
  BY DEF Told
<1> HIDE DEF plain
<1>5. {i \in DOMAIN plain : plain[i][2] \notin gone \union {<<>>}}
      = {i \in 0..n : Plain(p, i)[2] \notin gone \union {<<>>}}
  BY <1>3
<1> QED BY <1>3, <1>4, <1>5

\* What is told of a payload and of what came is the same, when the payload has
\* at the places G, in this order, all that came and was not taken out, and at
\* every other place nothing but the block.
Tells(p, S, G, g) ==
    LET M == asked.messages
        B == {0} \union (DOMAIN M \ S)
    IN  /\ Len(p.messages) \in Nat /\ G \subseteq 0..Len(p.messages)
        /\ Corresponds(g, G, B)
        /\ \A a \in G : Plain(p, a) = Plain(asked, g[a])
        /\ \A i \in 0..Len(p.messages) : i \notin G => Plain(p, i)[2] = <<>>

LEMMA AskedPlain ==
    ASSUME AskedIs(asked)
    PROVE  /\ \A i \in DOMAIN asked.messages : asked.messages[i].content \in Seq(Parts \ {Block})
           /\ \A i \in DOMAIN asked.messages :
                Plain(asked, i) = <<asked.messages[i].role, asked.messages[i].content>>
           /\ Plain(asked, 0) = <<"system", asked.system.parts>>
           /\ asked.system.parts \in Seq(Parts \ {Block})
<1>1. /\ DOMAIN asked.messages = 1..Len(asked.messages) /\ Len(asked.messages) \in Nat
  BY DEF AskedIs, MessagesOK
<1>2. ASSUME NEW i \in DOMAIN asked.messages
      PROVE  /\ asked.messages[i].content \in Seq(Parts \ {Block})
             /\ Plain(asked, i) = <<asked.messages[i].role, asked.messages[i].content>>
  <2>1. asked.messages[i].content \in Seq(Parts \ {Block})
    <3>1. CASE asked.messages[i].role # "system"
      <4>1. PICK n \in Nat : asked.messages[i].content = <<n>>
        BY <3>1 DEF AskedIs
      <4>2. n \in Parts \ {Block}
        BY PromptAssumption DEF Parts
      <4> QED BY <4>1, <4>2
    <3>2. CASE asked.messages[i].role = "system"
      <4>1. asked.messages[i].content \in Seq(Parts \ (Nat \union {Block}))
        BY <3>2 DEF AskedIs
      <4> QED BY <4>1, SeqMonotonic
    <3> QED BY <3>1, <3>2
  <2>2. i # 0
    BY <1>1
  <2> QED BY <2>1, <2>2, UnblockedStays DEF Plain
<1>3. asked.system.parts \in Seq(Parts \ {Block})
  <2>1. asked.system.parts \in Seq(Parts \ (Nat \union {Block}))
    BY DEF AskedIs
  <2> QED BY <2>1, SeqMonotonic
<1>4. Plain(asked, 0) = <<"system", asked.system.parts>>
  BY <1>3, UnblockedStays DEF Plain
<1> QED BY <1>2, <1>3, <1>4

LEMMA SameTold ==
    ASSUME AskedIs(asked), NEW S, S \subseteq SafelyEvictable(asked.messages),
           NEW p, NEW G, NEW g, Tells(p, S, G, g)
    PROVE  Told(p, {}) = Told(asked, ContentsAt(asked.messages, S))
<1> DEFINE M == asked.messages
           gone == ContentsAt(M, S)
           new == [i \in 0..Len(p.messages) |-> Plain(p, i)]
           old == [i \in 0..Len(M) |-> Plain(asked, i)]
           A == {i \in 0..Len(p.messages) : Plain(p, i)[2] \notin {} \union {<<>>}}
           B == {i \in 0..Len(M) : Plain(asked, i)[2] \notin gone \union {<<>>}}
           f == [a \in A |-> g[a]]
           C == {0} \union (DOMAIN M \ S)
<1>1. Told(p, {}) = PartAt(new, A) /\ Told(asked, gone) = PartAt(old, B)
  BY ToldIs
<1>2. MessagesOK(M) /\ Len(M) \in Nat /\ DOMAIN M = 1..Len(M)
  BY DEF AskedIs, MessagesOK
<1>3. /\ \A i \in S : i \in DOMAIN M /\ M[i].role # "system"
      /\ \A c \in gone : \E n \in Nat : c = <<n>>
  <2>1. S \subseteq SafelyEvictable(M)
    OBVIOUS
  <2>2. gone = ContentsAt(M, S)
    OBVIOUS
  <2> HIDE DEF M, gone
  <2>3. /\ S \subseteq DOMAIN M /\ (\A i \in S : M[i].role # "system")
        /\ ContentsAt(M, S) \subseteq {<<n>> : n \in Nat}
    BY <1>2, <2>1, EvictableAreTexts
  <2> QED BY <2>2, <2>3
<1>4. \A i \in DOMAIN M : Plain(asked, i)[2] = M[i].content
  BY AskedPlain
<1>5. Plain(asked, 0)[2] = asked.system.parts /\ asked.system.parts \in Seq(Parts \ (Nat \union {Block}))
  BY AskedPlain DEF AskedIs
<1>6. asked.system.parts \notin gone
  <2> SUFFICES ASSUME asked.system.parts \in gone PROVE FALSE
    OBVIOUS
  <2>1. PICK n \in Nat : asked.system.parts = <<n>>
    BY <1>3
  <2>2. 1 \in 1..Len(asked.system.parts) /\ asked.system.parts[1] = n
    BY <2>1
  <2>3. asked.system.parts[1] \in Parts \ (Nat \union {Block})
    BY <1>5, <2>2, ElementOfSeq
  <2> QED BY <2>2, <2>3
<1>7. \A i \in DOMAIN M : M[i].content \in gone <=> i \in S
  <2> SUFFICES ASSUME NEW i \in DOMAIN M PROVE M[i].content \in gone <=> i \in S
    OBVIOUS
  <2>1. ASSUME NEW j \in S, M[i].content = M[j].content PROVE i = j
    BY <1>3, <2>1 DEF AskedIs
  <2> QED BY <2>1 DEF ContentsAt
<1>8. B = {i \in C : Plain(asked, i)[2] # <<>>}
  <2>1. ASSUME NEW i PROVE i \in 0..Len(M) <=> i = 0 \/ i \in DOMAIN M
    BY <1>2
  <2> HIDE DEF gone, M
  <2>2. ASSUME NEW i PROVE i \in B <=> i \in C /\ Plain(asked, i)[2] # <<>>
    <3>1. CASE i = 0
      BY <1>5, <1>6, <2>1, <3>1
    <3>2. CASE i # 0
      BY <1>4, <1>7, <2>1, <3>2
    <3> QED BY <3>1, <3>2
  <2> HIDE DEF B, C
  <2> QED BY <2>2
<1>9. /\ Len(p.messages) \in Nat /\ G \subseteq 0..Len(p.messages)
      /\ Corresponds(g, G, C)
      /\ \A a \in G : Plain(p, a) = Plain(asked, g[a])
      /\ \A i \in 0..Len(p.messages) : i \notin G => Plain(p, i)[2] = <<>>
  BY DEF Tells
<1> HIDE DEF C, gone, M
<1>10. /\ g \in [G -> C] /\ C \subseteq Int /\ G \subseteq Int /\ IsFiniteSet(G)
       /\ \A b \in C : \E a \in G : g[a] = b
       /\ \A a, b \in G : a < b => g[a] < g[b]
  BY <1>9 DEF Corresponds
<1>11. A = {a \in G : Plain(p, a)[2] # <<>>}
  BY <1>9
<1> HIDE DEF A, B
<1>12. \A a \in G : g[a] \in C /\ Plain(p, a) = Plain(asked, g[a])
  BY <1>9, <1>10
<1>13. f \in [A -> B] /\ \A a \in A : f[a] = g[a]
  BY <1>8, <1>11, <1>12
<1>14. A \subseteq G /\ B \subseteq C
  BY <1>8, <1>11
<1> HIDE DEF f
<1>15. \A b \in B : \E a \in A : f[a] = b
  <2> SUFFICES ASSUME NEW b \in B PROVE \E a \in A : f[a] = b
    OBVIOUS
  <2>1. PICK a \in G : g[a] = b
    BY <1>10, <1>14
  <2>2. Plain(p, a)[2] # <<>>
    BY <1>8, <1>12, <2>1
  <2> QED BY <1>11, <1>13, <2>1, <2>2
<1>16. \A a, b \in A : a < b => f[a] < f[b]
  BY <1>10, <1>13, <1>14
<1>17. IsFiniteSet(A)
  <2>1. A \in SUBSET G
    BY <1>14
  <2> QED BY <1>10, <2>1, FS_Subset
<1>18. Corresponds(f, A, B)
  <2>1. A \subseteq Int /\ B \subseteq Int
    BY <1>10, <1>14
  <2>2. f \in [A -> B]
    BY <1>13
  <2> QED BY <1>15, <1>16, <1>17, <2>1, <2>2 DEF Corresponds
<1>19. \A a \in A : new[a] = old[f[a]]
  <2> SUFFICES ASSUME NEW a \in A PROVE new[a] = old[f[a]]
    OBVIOUS
  <2>1. a \in 0..Len(p.messages) /\ f[a] \in 0..Len(M) /\ Plain(p, a) = Plain(asked, f[a])
    BY <1>12, <1>13, <1>14 DEF A, B
  <2> QED BY <2>1
<1> HIDE DEF new, old
<1> QED BY <1>1, <1>18, <1>19, SamePart DEF gone, M

\* p tells what came at the places at, behind d messages of the block alone.
Shifted(p, n, at, d) ==
    /\ Len(p.messages) = n + d
    /\ Plain(p, 0) = Plain(asked, 0)
    /\ d = 1 => Plain(p, 1)[2] = <<>>
    /\ \A k \in 1..n : Plain(p, k + d) = Plain(asked, at[k])

LEMMA ShiftTells ==
    ASSUME AskedIs(asked), NEW S, S \subseteq SafelyEvictable(asked.messages),
           NEW n, NEW at, Lists(at, n, DOMAIN asked.messages \ S), NEW d \in {0, 1},
           NEW p, Shifted(p, n, at, d)
    PROVE  Told(p, {}) = Told(asked, ContentsAt(asked.messages, S))
<1> DEFINE M == asked.messages
           P == DOMAIN M \ S
           B == {0} \union P
           G == {0} \union ((1 + d)..(n + d))
           g == [k \in G |-> IF k = 0 THEN 0 ELSE at[k - d]]
<1>0. /\ Len(p.messages) = n + d
      /\ Plain(p, 0) = Plain(asked, 0)
      /\ d = 1 => Plain(p, 1)[2] = <<>>
      /\ \A k \in 1..n : Plain(p, k + d) = Plain(asked, at[k])
  BY DEF Shifted
<1>1. /\ DOMAIN M = 1..Len(M) /\ Len(M) \in Nat
  BY DEF AskedIs, MessagesOK
<1>2. P \subseteq Nat \ {0}
  BY <1>1
<1> HIDE DEF P
<1>3. /\ n \in Nat /\ \A k \in 1..n : at[k] \in P /\ at[k] \in Int
      /\ \A k, l \in 1..n : at[k] < at[l] <=> k < l
      /\ \A i \in P : \E k \in 1..n : at[k] = i
  <2>1. Lists(at, n, P)
    BY DEF P
  <2> QED BY <2>1, ListFacts
<1>4. \A a \in G : a # 0 => a - d \in 1..n /\ a - d + d = a
  BY <1>3
<1>5. \A a \in G : g[a] = IF a = 0 THEN 0 ELSE at[a - d]
  OBVIOUS
<1>6. g \in [G -> B]
  BY <1>3, <1>4
<1>7. G \subseteq 0..(n + d) /\ G \subseteq Int /\ IsFiniteSet(G) /\ n + d \in Nat
  <2>1. n + d \in Nat
    BY <1>3
  <2>2. G \subseteq 0..(n + d)
    BY <1>3
  <2> HIDE DEF G
  <2>3. IsFiniteSet(0..(n + d)) /\ 0..(n + d) \subseteq Int
    BY <2>1, FS_Interval
  <2>4. IsFiniteSet(G)
    BY <2>2, <2>3, FS_Subset
  <2> QED BY <2>1, <2>2, <2>3, <2>4
<1>8. ASSUME NEW i \in 0..(n + d), i \notin G PROVE i = 1 /\ d = 1
  BY <1>3, <1>8
<1>9. ASSUME NEW i \in P PROVE \E a \in G : a # 0 /\ g[a] = i
  <2>1. PICK k \in 1..n : at[k] = i
    BY <1>3
  <2> DEFINE a == k + d
  <2>2. a \in G /\ a # 0 /\ a - d = k
    BY <1>3
  <2> HIDE DEF a, g, G
  <2>3. g[a] = at[a - d]
    BY <1>5, <2>2
  <2> QED BY <2>1, <2>2, <2>3
<1> HIDE DEF g
<1>10. \A b \in B : \E a \in G : g[a] = b
  <2>1. 0 \in G /\ g[0] = 0
    BY <1>5
  <2> HIDE DEF G
  <2> QED BY <1>9, <2>1
<1> HIDE DEF G
<1>11. ASSUME NEW a \in G, NEW b \in G, a < b PROVE g[a] < g[b]
  <2>1. a \in Nat /\ b \in Nat /\ b # 0
    BY <1>3, <1>7, <1>11
  <2>2. b - d \in 1..n /\ g[b] = at[b - d] /\ at[b - d] \in Nat \ {0}
    BY <1>2, <1>3, <1>4, <1>5, <2>1
  <2>3. CASE a = 0
    <3>1. g[a] = 0
      BY <1>5, <2>3
    <3> QED BY <2>2, <3>1
  <2>4. CASE a # 0
    <3>1. a - d \in 1..n /\ g[a] = at[a - d]
      BY <1>4, <1>5, <2>4
    <3>2. a - d < b - d
      BY <1>11, <2>1
    <3> QED BY <1>3, <2>2, <3>1, <3>2
  <2> QED BY <2>3, <2>4
<1>12. Corresponds(g, G, B)
  <2>1. B \subseteq Int
    BY <1>2
  <2> HIDE DEF B
  <2> QED BY <1>6, <1>7, <1>10, <1>11, <2>1 DEF Corresponds
<1>13. \A a \in G : Plain(p, a) = Plain(asked, g[a])
  <2> SUFFICES ASSUME NEW a \in G PROVE Plain(p, a) = Plain(asked, g[a])
    OBVIOUS
  <2>1. CASE a = 0
    BY <1>0, <1>5, <2>1
  <2>2. CASE a # 0
    <3> DEFINE k == a - d
    <3>1. k \in 1..n /\ k + d = a /\ g[a] = at[k]
      BY <1>4, <1>5, <2>2
    <3> HIDE DEF k
    <3>2. Plain(p, k + d) = Plain(asked, at[k])
      BY <1>0, <3>1
    <3> QED BY <3>1, <3>2
  <2> QED BY <2>1, <2>2
<1>14. \A i \in 0..Len(p.messages) : i \notin G => Plain(p, i)[2] = <<>>
  BY <1>0, <1>8
<1>15. Tells(p, S, G, g)
  BY <1>0, <1>7, <1>12, <1>13, <1>14 DEF Tells, B, P
<1> QED BY <1>15, SameTold

\* The anchors a list begins with are no more than its parts.
LEMMA AnchorEndIs ==
    ASSUME NEW T, NEW parts \in Seq(T) PROVE AnchorEnd(parts) \in 0..Len(parts)
<1> DEFINE E == {m \in 0..Len(parts) : \A i \in 1..m : parts[i] \in Anchors}
           at == Ascending(E)
           n == Cardinality(E)
<1>1. Len(parts) \in Nat /\ E \subseteq 0..Len(parts) /\ E \subseteq Int /\ 0 \in E
  OBVIOUS
<1>2. IsFiniteSet(E)
  <2>1. IsFiniteSet(0..Len(parts))
    BY <1>1, FS_Interval
  <2> QED BY <1>1, <2>1, FS_Subset
<1>3. AnchorEnd(parts) = CHOOSE x \in E : \A y \in E : x >= y
  BY DEF AnchorEnd, Max
<1> HIDE DEF E
<1>4. Lists(at, n, E)
  BY <1>1, <1>2, AscendingLists
<1> HIDE DEF at, n
<1>5. /\ n \in Nat /\ \A k \in 1..n : at[k] \in E /\ at[k] \in Int
      /\ \A k, l \in 1..n : at[k] < at[l] <=> k < l
      /\ \A i \in E : \E k \in 1..n : at[k] = i
  BY <1>4, ListFacts
<1>6. n \in 1..n
  BY <1>1, <1>5
<1>7. \A y \in E : at[n] >= y
  <2> SUFFICES ASSUME NEW y \in E PROVE at[n] >= y
    OBVIOUS
  <2>1. PICK k \in 1..n : at[k] = y
    BY <1>5
  <2>2. ~(n < k)
    BY <1>5
  <2>3. ~(at[n] < at[k])
    BY <1>5, <1>6, <2>2
  <2> QED BY <1>5, <1>6, <2>1, <2>3
<1>8. at[n] \in E
  BY <1>5, <1>6
<1>9. AnchorEnd(parts) \in E
  BY <1>3, <1>7, <1>8
<1> QED BY <1>1, <1>9

\* inject_ltm puts the block once into the system field, behind the anchors.
LEMMA InSystemInserts ==
    ASSUME NEW s, s = [form |-> s.form, parts |-> s.parts], s.form \in Forms,
           s.parts \in Seq(Parts \ {Block}), s.form = "none" => s.parts = <<>>
    PROVE  /\ Inserted(InSystem(s).parts, s.parts, IF s.form = "list" THEN AnchorEnd(s.parts) + 1 ELSE 1)
<1> DEFINE c == s.parts
           e == AnchorEnd(c) + 1
<1>1. c \in Seq(Parts \ {Block}) /\ c \in Seq(Parts) /\ Len(c) \in Nat /\ DOMAIN c = 1..Len(c)
  BY SeqMonotonic
<1>2. Block \in Parts /\ <<Block>> \in Seq(Parts)
  BY DEF Parts
<1>3. CASE s.form = "none"
  <2>1. InSystem(s).parts = <<Block>> /\ c = <<>>
    BY <1>3 DEF InSystem
  <2> QED BY <1>1, <1>2, <1>3, <2>1 DEF Inserted
<1>4. CASE s.form = "text"
  <2>1. InSystem(s) = [s EXCEPT !.parts = <<Block>> \o @]
    BY <1>4 DEF InSystem
  <2>2. InSystem(s).parts = <<Block>> \o c
    BY <2>1
  <2> HIDE DEF c
  <2>3. /\ <<Block>> \o c \in Seq(Parts) /\ Len(<<Block>> \o c) = Len(c) + 1
        /\ (<<Block>> \o c)[1] = Block
        /\ \A j \in 2..(Len(c) + 1) : (<<Block>> \o c)[j] = c[j - 1]
    BY <1>1, <1>2
  <2> QED BY <1>1, <1>4, <2>2, <2>3 DEF Inserted, c
<1>5. CASE s.form = "list"
  <2>1. InSystem(s) = [s EXCEPT !.parts = InsertAt(@, AnchorEnd(@) + 1, Block)]
    BY <1>5 DEF InSystem
  <2>2. InSystem(s).parts = InsertAt(c, e, Block)
    BY <2>1
  <2>3. e \in 1..(Len(c) + 1)
    BY <1>1, AnchorEndIs
  <2>4. InsertAt(c, e, Block) = SubSeq(c, 1, e - 1) \o <<Block>> \o SubSeq(c, e, Len(c))
    BY DEF InsertAt
  <2> DEFINE before == SubSeq(c, 1, e - 1)
             later == SubSeq(c, e, Len(c))
             d == before \o <<Block>> \o later
  <2> HIDE DEF c, e
  <2>5. /\ before \in Seq(Parts) /\ Len(before) = e - 1
        /\ \A j \in 1..(e - 1) : before[j] = c[j]
    BY <1>1, <2>3
  <2>6. /\ later \in Seq(Parts) /\ Len(later) = Len(c) - e + 1
        /\ \A j \in 1..(Len(c) - e + 1) : later[j] = c[e + j - 1]
    BY <1>1, <2>3
  <2> HIDE DEF before, later
  <2> DEFINE half == before \o <<Block>>
  <2>7. /\ half \in Seq(Parts) /\ Len(half) = e
        /\ \A j \in 1..(e - 1) : half[j] = before[j]
        /\ half[e] = Block
    BY <1>2, <2>3, <2>5
  <2> HIDE DEF half
  <2>8. d = half \o later
    BY DEF half
  <2> HIDE DEF d
  <2>9. d \in Seq(Parts) /\ Len(d) = Len(c) + 1
    <3>1. d \in Seq(Parts) /\ Len(d) = Len(half) + Len(later)
      BY <2>6, <2>7, <2>8
    <3>2. Len(half) = e /\ Len(later) = Len(c) - e + 1
      BY <2>6, <2>7
    <3>3. e \in Int /\ Len(c) \in Int
      BY <1>1, <2>3
    <3>4. e + (Len(c) - e + 1) = Len(c) + 1
      BY <3>3
    <3> QED BY <3>1, <3>2, <3>4
  <2>10. /\ \A j \in 1..e : d[j] = half[j]
         /\ \A j \in (e + 1)..(Len(c) + 1) : d[j] = later[j - e]
    BY <1>1, <2>3, <2>6, <2>7, <2>8
  <2>11. ASSUME NEW j \in 1..(Len(c) + 1), j > e PROVE d[j] = c[j - 1]
    <3> DEFINE k == j - e
    <3>1. k \in 1..(Len(c) - e + 1) /\ e + k - 1 = j - 1 /\ j \in (e + 1)..(Len(c) + 1)
      BY <1>1, <2>3, <2>11
    <3>2. d[j] = later[k]
      BY <2>10, <3>1
    <3> HIDE DEF k
    <3>3. later[k] = c[e + k - 1]
      BY <2>6, <3>1
    <3> QED BY <3>1, <3>2, <3>3
  <2>12. ASSUME NEW j \in 1..(Len(c) + 1), j < e PROVE d[j] = c[j]
    BY <2>3, <2>5, <2>7, <2>10, <2>12
  <2>13. d[e] = Block
    BY <2>3, <2>7, <2>10
  <2>14. Inserted(d, c, e)
    BY <1>1, <2>3, <2>9, <2>11, <2>12, <2>13 DEF Inserted
  <2>15. InSystem(s).parts = d
    BY <2>2, <2>4 DEF d, before, later
  <2> QED BY <1>5, <2>14, <2>15 DEF c, e
<1> QED BY <1>3, <1>4, <1>5 DEF Forms

\* The block is at one place, when no text has it anywhere else.
Content(p, i) == IF i = 0 THEN p.system.parts ELSE p.messages[i].content
OnlyAt(p, i0, j0) ==
    \A i \in 0..Len(p.messages) : \A j \in DOMAIN Content(p, i) :
        Content(p, i)[j] = Block => i = i0 /\ j = j0

LEMMA BlockAtIs ==
    ASSUME NEW p, NEW i0, NEW j0, OnlyAt(p, i0, j0)
    PROVE  \A x, y \in BlockAt(p) : x = y
<1>1. ASSUME NEW x \in BlockAt(p) PROVE x = <<i0, j0>>
  <2>1. DOMAIN Texts(p) = 0..Len(p.messages)
    BY DEF Texts
  <2>2. ASSUME NEW i \in 0..Len(p.messages) PROVE Texts(p)[i][2] = Content(p, i)
    BY DEF Texts, Content
  <2>3. PICK i \in DOMAIN Texts(p) :
          x \in {<<i, j>> : j \in {j \in DOMAIN Texts(p)[i][2] : Texts(p)[i][2][j] = Block}}
    BY DEF BlockAt
  <2>4. PICK j \in DOMAIN Texts(p)[i][2] : Texts(p)[i][2][j] = Block /\ x = <<i, j>>
    BY <2>3
  <2>5. Content(p, i)[j] = Block /\ i \in 0..Len(p.messages) /\ j \in DOMAIN Content(p, i)
    BY <2>1, <2>2, <2>4
  <2> QED BY <2>4, <2>5 DEF OnlyAt
<1> QED BY <1>1

\* What is left of the messages tells what came at their places.
LEMMA LeftIs ==
    ASSUME AskedIs(asked), NEW S, S \subseteq SafelyEvictable(asked.messages)
    PROVE  LET left == Without(asked.messages, S)
               at == Ascending(DOMAIN asked.messages \ S)
           IN  /\ left \in Seq(PayloadMessage) /\ Lists(at, Len(left), DOMAIN asked.messages \ S)
               /\ MessagesOK(left) /\ left # <<>> /\ Len(left) \in Nat
               /\ \A k \in 1..Len(left) :
                    /\ at[k] \in DOMAIN asked.messages /\ at[k] # 0 /\ left[k] = asked.messages[at[k]]
                    /\ left[k].content \in Seq(Parts \ {Block})
                    /\ Plain(asked, at[k]) = <<left[k].role, left[k].content>>
               /\ Plain(asked, 0) = <<"system", asked.system.parts>>
               /\ asked.system.parts \in Seq(Parts \ {Block})
<1> DEFINE M == asked.messages
           left == Without(M, S)
           at == Ascending(DOMAIN M \ S)
<1>1. MessagesOK(M) /\ M # <<>> /\ M \in Seq(PayloadMessage) /\ DOMAIN M = 1..Len(M) /\ Len(M) \in Nat
  BY DEF AskedIs, MessagesOK
<1>2. MessagesOK(left) /\ left # <<>>
  BY <1>1, WithoutOK
<1>3. left \in Seq(PayloadMessage) /\ PartBy(left, at, M, DOMAIN M \ S)
  BY <1>1, PartType DEF Without
<1>4. /\ \A i \in DOMAIN M : M[i].content \in Seq(Parts \ {Block})
                             /\ Plain(asked, i) = <<M[i].role, M[i].content>>
      /\ Plain(asked, 0) = <<"system", asked.system.parts>>
      /\ asked.system.parts \in Seq(Parts \ {Block})
  BY AskedPlain
<1>5. 0 \notin DOMAIN M
  BY <1>1
<1> HIDE DEF M, left, at
<1>6. Lists(at, Len(left), DOMAIN M \ S)
      /\ \A k \in 1..Len(left) : at[k] \in DOMAIN M /\ left[k] = M[at[k]]
  BY <1>3 DEF PartBy
<1>7. Len(left) \in Nat
  BY <1>3
<1> QED BY <1>2, <1>3, <1>4, <1>5, <1>6, <1>7 DEF M, left, at

\* The provider is told what the client said in its order, but for what is
\* archived and for one block, and the head of a system list stays where it was
\* (adapters/anthropic.py and adapters/openai.py, inject_ltm).
THEOREM PromptAddsTheBlock == Spec => []OnlyTheBlockIsAdded
<1>1. PromptInv => OnlyTheBlockIsAdded
  <2> SUFFICES ASSUME PromptInv, pc = "forward" PROVE OnlyTheBlockIsAdded
    BY DEF OnlyTheBlockIsAdded
  <2> DEFINE head == IF asked.system.form = "list" THEN AnchorEnd(asked.system.parts) ELSE 0
  <2>1. /\ asked = PayloadOf(system, history) /\ Len(history) > 0 /\ dropped \subseteq archived
        /\ provider \in {"anthropic", "openai"}
        /\ \E S \in SUBSET SafelyEvictable(asked.messages) :
              dropped = ContentsAt(asked.messages, S) /\ (payload = Left(S) \/ payload = Injected(Left(S)))
    BY DEF PromptInv, PayloadOK, HistoryOK
  <2>2. PICK S \in SUBSET SafelyEvictable(asked.messages) :
              dropped = ContentsAt(asked.messages, S) /\ (payload = Left(S) \/ payload = Injected(Left(S)))
    BY <2>1
  <2>3. AskedIs(asked)
    BY <2>1, WhatComes DEF PromptInv
  <2> DEFINE s == asked.system
             left == Without(asked.messages, S)
             at == Ascending(DOMAIN asked.messages \ S)
             n == Len(left)
  <2>4. /\ asked = [system |-> s, messages |-> asked.messages]
        /\ s = [form |-> s.form, parts |-> s.parts] /\ s.form \in Forms
        /\ s.form = "none" => s.parts = <<>>
    BY <2>3 DEF AskedIs
  <2>5. Left(S).system = s /\ Left(S).messages = left
        /\ Left(S) = [system |-> s, messages |-> left]
    BY <2>4 DEF Left
  <2>6. /\ left \in Seq(PayloadMessage) /\ Lists(at, n, DOMAIN asked.messages \ S)
        /\ MessagesOK(left) /\ left # <<>> /\ n \in Nat
        /\ \A k \in 1..n :
             /\ at[k] \in DOMAIN asked.messages /\ at[k] # 0 /\ left[k] = asked.messages[at[k]]
             /\ left[k].content \in Seq(Parts \ {Block})
             /\ Plain(asked, at[k]) = <<left[k].role, left[k].content>>
        /\ Plain(asked, 0) = <<"system", s.parts>>
        /\ s.parts \in Seq(Parts \ {Block})
    BY <2>3, LeftIs
  <2> HIDE DEF s, left, at, n, head
  <2>7. \A k \in 1..n : k # 0 /\ Unblocked(left[k].content) = left[k].content
                        /\ \A j \in DOMAIN left[k].content : left[k].content[j] # Block
    BY <2>6, UnblockedStays
  <2>8. Unblocked(s.parts) = s.parts /\ \A j \in DOMAIN s.parts : s.parts[j] # Block
    BY <2>6, UnblockedStays
  \* It is the same when each text of a payload is one that came, with the block or without.
  <2>9. ASSUME NEW p, NEW d \in {0, 1}, Len(p.messages) = n + d,
               Unblocked(p.system.parts) = s.parts,
               d = 1 => Unblocked(p.messages[1].content) = <<>>,
               \A k \in 1..n : /\ p.messages[k + d].role = left[k].role
                               /\ Unblocked(p.messages[k + d].content) = left[k].content
        PROVE  Told(p, {}) = Told(asked, dropped)
    <3>1. Plain(p, 0) = Plain(asked, 0)
      BY <2>6, <2>9 DEF Plain
    <3>2. d = 1 => Plain(p, 1)[2] = <<>>
      BY <2>9 DEF Plain
    <3>3. ASSUME NEW k \in 1..n PROVE Plain(p, k + d) = Plain(asked, at[k])
      <4>1. k + d # 0
        BY <2>6
      <4> QED BY <2>6, <2>9, <4>1 DEF Plain
    <3>4. Shifted(p, n, at, d)
      BY <2>9, <3>1, <3>2, <3>3 DEF Shifted
    <3>5. Lists(at, n, DOMAIN asked.messages \ S)
      BY <2>6
    <3>6. Told(p, {}) = Told(asked, ContentsAt(asked.messages, S))
      BY <2>3, <3>4, <3>5, ShiftTells
    <3> QED BY <2>2, <3>6
  <2>10. CASE payload = Left(S)
    <3>1. payload.messages = left /\ payload.system = s
      BY <2>5, <2>10
    <3>2. Told(payload, {}) = Told(asked, dropped)
      <4>1. \A k \in 1..n : k + 0 = k
        BY <2>6
      <4>2. n + 0 = n /\ Len(payload.messages) = n
        BY <2>6, <3>1 DEF n
      <4> QED BY <2>7, <2>8, <2>9, <3>1, <4>1, <4>2
    <3>3. \A x, y \in BlockAt(payload) : x = y
      <4>1. ASSUME NEW i \in 0..Len(payload.messages), NEW j \in DOMAIN Content(payload, i),
                   Content(payload, i)[j] = Block
            PROVE  i = 0 /\ j = 0
        <5>1. CASE i = 0
          BY <2>8, <3>1, <4>1, <5>1 DEF Content
        <5>2. CASE i # 0
          <6>1. i \in 1..n
            BY <2>6, <3>1, <5>2 DEF n
          <6> QED BY <2>7, <3>1, <4>1, <5>2, <6>1 DEF Content
        <5> QED BY <5>1, <5>2
      <4>2. OnlyAt(payload, 0, 0)
        BY <4>1 DEF OnlyAt
      <4> QED BY <4>2, BlockAtIs
    <3> QED BY <2>1, <3>1, <3>2, <3>3 DEF OnlyTheBlockIsAdded, head, s
  <2>11. CASE payload = Injected(Left(S)) /\ provider = "anthropic"
    <3> DEFINE e == IF s.form = "list" THEN AnchorEnd(s.parts) + 1 ELSE 1
               new == InSystem(s).parts
    <3>1. payload.messages = left /\ payload.system = InSystem(s)
      BY <2>5, <2>11 DEF Injected
    <3>2. Inserted(new, s.parts, e)
      BY <2>4, <2>6, InSystemInserts
    <3> HIDE DEF e, new
    <3>3. Unblocked(new) = s.parts /\ \A j \in DOMAIN new : new[j] = Block <=> j = e
      BY <3>2, InsertedFacts
    <3>4. payload.system.parts = new
      BY <3>1 DEF new
    <3>5. Told(payload, {}) = Told(asked, dropped)
      <4>1. \A k \in 1..n : k + 0 = k
        BY <2>6
      <4>2. n + 0 = n /\ Len(payload.messages) = n
        BY <2>6, <3>1 DEF n
      <4> QED BY <2>7, <2>9, <3>1, <3>3, <3>4, <4>1, <4>2
    <3>6. \A x, y \in BlockAt(payload) : x = y
      <4>1. ASSUME NEW i \in 0..Len(payload.messages), NEW j \in DOMAIN Content(payload, i),
                   Content(payload, i)[j] = Block
            PROVE  i = 0 /\ j = e
        <5>1. CASE i = 0
          BY <3>3, <3>4, <4>1, <5>1 DEF Content
        <5>2. CASE i # 0
          <6>1. i \in 1..n
            BY <2>6, <3>1, <5>2 DEF n
          <6> QED BY <2>7, <3>1, <4>1, <5>2, <6>1 DEF Content
        <5> QED BY <5>1, <5>2
      <4>2. OnlyAt(payload, 0, e)
        BY <4>1 DEF OnlyAt
      <4> QED BY <4>2, BlockAtIs
    <3>7. SubSeq(new, 1, head) = SubSeq(s.parts, 1, head)
      <4>1. head \in 0..Len(s.parts) /\ Len(s.parts) \in Nat /\ (head = 0 \/ e = head + 1)
        BY <2>6, AnchorEndIs DEF head, e, s
      <4>2. \A j \in 1..head : new[j] = s.parts[j]
        <5> SUFFICES ASSUME NEW j \in 1..head PROVE new[j] = s.parts[j]
          OBVIOUS
        <5>1. j < e /\ j \in 1..Len(new)
          BY <3>2, <4>1 DEF Inserted
        <5> QED BY <3>2, <5>1 DEF Inserted
      <4>3. SubSeq(new, 1, head) = [j \in 1..head |-> new[j]] /\ SubSeq(s.parts, 1, head) = [j \in 1..head |-> s.parts[j]]
        BY <3>2, <4>1 DEF Inserted
      <4> QED BY <4>2, <4>3
    <3> QED BY <2>1, <3>4, <3>5, <3>6, <3>7 DEF OnlyTheBlockIsAdded, head, s
  <2>12. CASE payload = Injected(Left(S)) /\ provider = "openai"
    <3> DEFINE block == [role |-> "system", kind |-> "text", content |-> <<Block>>]
               new == InFirst(left)
    <3>1. payload.messages = new /\ payload.system = s
      BY <2>5, <2>12 DEF Injected
    <3>2. Block \in Parts /\ <<>> \in Seq(Parts \ {Block}) /\ <<Block>> \in Seq(Parts)
      BY DEF Parts
    <3>3. CASE Head(left).role = "system"
      <4> DEFINE c == left[1].content
                 c2 == <<Block>> \o c
      <4>1. new = [left EXCEPT ![1].content = c2]
        BY <2>6, <3>3 DEF InFirst
      <4>2. 1 \in 1..n /\ DOMAIN left = 1..n /\ left[1] \in PayloadMessage
        BY <2>6, EmptySeq, ElementOfSeq DEF n
      <4>3. c \in Seq(Parts \ {Block})
        BY <2>6, <4>2
      <4>4. Inserted(c2, c, 1)
        <5>1. c \in Seq(Parts) /\ Len(c) \in Nat
          BY <4>3, SeqMonotonic
        <5> HIDE DEF c
        <5>2. /\ c2 \in Seq(Parts) /\ Len(c2) = Len(c) + 1 /\ c2[1] = Block
              /\ \A j \in 2..(Len(c) + 1) : c2[j] = c[j - 1]
          BY <3>2, <5>1
        <5> HIDE DEF c2
        <5> QED BY <4>3, <5>1, <5>2 DEF Inserted, c
      <4> HIDE DEF c, c2
      <4>5. Unblocked(c2) = c /\ \A j \in DOMAIN c2 : c2[j] = Block <=> j = 1
        BY <4>4, InsertedFacts
      <4>6. /\ DOMAIN new = 1..n /\ \A k \in 1..n : k # 1 => new[k] = left[k]
            /\ new[1].role = left[1].role /\ new[1].content = c2
        BY <4>1, <4>2 DEF PayloadMessage
      <4>7. Len(new) = n
        BY <2>6, <4>1, <4>2 DEF n
      <4> HIDE DEF new
      <4>8. Told(payload, {}) = Told(asked, dropped)
        <5>1. ASSUME NEW k \in 1..n
              PROVE  k + 0 = k /\ new[k].role = left[k].role /\ Unblocked(new[k].content) = left[k].content
          <6>1. k + 0 = k
            BY <2>6
          <6>2. CASE k = 1
            BY <4>5, <4>6, <6>1, <6>2 DEF c
          <6>3. CASE k # 1
            BY <2>7, <4>6, <6>1, <6>3
          <6> QED BY <6>2, <6>3
        <5>2. n + 0 = n
          BY <2>6
        <5> QED BY <2>8, <2>9, <3>1, <4>7, <5>1, <5>2
      <4>9. \A x, y \in BlockAt(payload) : x = y
        <5>1. ASSUME NEW i \in 0..Len(payload.messages), NEW j \in DOMAIN Content(payload, i),
                     Content(payload, i)[j] = Block
              PROVE  i = 1 /\ j = 1
          <6>1. CASE i = 0
            BY <2>8, <3>1, <5>1, <6>1 DEF Content
          <6>2. CASE i # 0
            <7>1. i \in 1..n
              BY <2>6, <3>1, <4>7, <6>2
            <7>2. Content(payload, i) = new[i].content
              BY <3>1, <6>2 DEF Content
            <7>3. CASE i = 1
              BY <4>5, <4>6, <5>1, <7>2, <7>3
            <7>4. CASE i # 1
              BY <2>7, <4>6, <5>1, <7>1, <7>2, <7>4
            <7> QED BY <7>3, <7>4
          <6> QED BY <6>1, <6>2
        <5>2. OnlyAt(payload, 1, 1)
          BY <5>1 DEF OnlyAt
        <5> QED BY <5>2, BlockAtIs
      <4> QED BY <2>1, <3>1, <4>8, <4>9 DEF OnlyTheBlockIsAdded, head, s
    <3>4. CASE Head(left).role # "system"
      <4>1. new = <<block>> \o left
        BY <3>4 DEF InFirst
      <4>2. block \in PayloadMessage
        BY <3>2 DEF PayloadMessage, Parts
      <4>3. block.content = <<Block>>
        OBVIOUS
      <4> HIDE DEF block
      <4>4. /\ Len(new) = n + 1 /\ new[1] = block
            /\ \A k \in 2..(n + 1) : new[k] = left[k - 1]
        BY <2>6, <4>1, <4>2 DEF n
      <4> HIDE DEF new
      <4>5. Inserted(<<Block>>, <<>>, 1)
        BY <3>2 DEF Inserted
      <4>6. Unblocked(<<Block>>) = <<>> /\ \A j \in DOMAIN <<Block>> : j = 1
        BY <4>5, InsertedFacts
      <4>7. Told(payload, {}) = Told(asked, dropped)
        <5>1. ASSUME NEW k \in 1..n
              PROVE  new[k + 1].role = left[k].role /\ Unblocked(new[k + 1].content) = left[k].content
          <6>1. k + 1 \in 2..(n + 1) /\ k + 1 - 1 = k
            BY <2>6
          <6>2. new[k + 1] = left[k]
            BY <4>4, <6>1
          <6> QED BY <2>7, <6>2
        <5>2. Unblocked(new[1].content) = <<>>
          BY <4>3, <4>4, <4>6
        <5> QED BY <2>8, <2>9, <3>1, <4>4, <5>1, <5>2
      <4>8. \A x, y \in BlockAt(payload) : x = y
        <5>1. ASSUME NEW i \in 0..Len(payload.messages), NEW j \in DOMAIN Content(payload, i),
                     Content(payload, i)[j] = Block
              PROVE  i = 1 /\ j = 1
          <6>1. CASE i = 0
            BY <2>8, <3>1, <5>1, <6>1 DEF Content
          <6>2. CASE i # 0
            <7>1. Content(payload, i) = new[i].content
              BY <3>1, <6>2 DEF Content
            <7>2. CASE i = 1
              BY <4>3, <4>4, <4>6, <5>1, <7>1, <7>2
            <7>3. CASE i # 1
              <8>1. i \in 2..(n + 1) /\ i - 1 \in 1..n
                BY <2>6, <3>1, <4>4, <6>2, <7>3
              <8>2. new[i] = left[i - 1]
                BY <4>4, <8>1
              <8> QED BY <2>7, <5>1, <7>1, <8>1, <8>2
            <7> QED BY <7>2, <7>3
          <6> QED BY <6>1, <6>2
        <5>2. OnlyAt(payload, 1, 1)
          BY <5>1 DEF OnlyAt
        <5> QED BY <5>2, BlockAtIs
      <4> QED BY <2>1, <3>1, <4>7, <4>8 DEF OnlyTheBlockIsAdded, head, s
    <3> QED BY <3>3, <3>4
  <2> QED BY <2>1, <2>2, <2>10, <2>11, <2>12
<1> QED BY <1>1, PromptInvariant, PTL

---------------------------------------------------------------------------
(* Selector: the order by weight *)

LEMMA MaxOfOne == \A d \in Nat : Max({1, d}) \in Nat \ {0}
<1> SUFFICES ASSUME NEW d \in Nat PROVE Max({1, d}) \in Nat \ {0}
  OBVIOUS
<1>1. \E x \in {1, d} : \A y \in {1, d} : x >= y
  <2>1. CASE d >= 1
    BY <2>1
  <2>2. CASE ~(d >= 1)
    BY <2>2
  <2> QED BY <2>1, <2>2
<1>2. Max({1, d}) \in {1, d} /\ \A y \in {1, d} : Max({1, d}) >= y
  BY <1>1 DEF Max
<1> QED BY <1>2

LEMMA Ratios ==
    ASSUME NEW a \in Nat, NEW c \in Nat, NEW e \in Nat,
           NEW b \in Nat \ {0}, NEW d \in Nat \ {0}, NEW f \in Nat \ {0},
           a * d >= c * b, c * f >= e * d
    PROVE  /\ a * f >= e * b
           /\ a * d > c * b \/ c * f > e * d => a * f > e * b
<1>1. \A x, y \in Nat : \A z \in Nat \ {0} : (x >= y <=> z * x >= z * y) /\ (x > y <=> z * x > z * y)
  OBVIOUS
<1>2. /\ a * d \in Nat /\ c * b \in Nat /\ c * f \in Nat /\ e * d \in Nat
      /\ a * f \in Nat /\ e * b \in Nat
  OBVIOUS
<1>3. f * (a * d) >= f * (c * b) /\ b * (c * f) >= b * (e * d)
  BY <1>1, <1>2
<1>4. (a * d > c * b => f * (a * d) > f * (c * b)) /\ (c * f > e * d => b * (c * f) > b * (e * d))
  BY <1>1, <1>2
<1>5. f * (a * d) = d * (a * f) /\ f * (c * b) = b * (c * f) /\ b * (e * d) = d * (e * b)
  OBVIOUS
<1>6. d * (a * f) \in Nat /\ b * (c * f) \in Nat /\ d * (e * b) \in Nat
  OBVIOUS
<1>7. d * (a * f) >= d * (e * b)
      /\ (a * d > c * b \/ c * f > e * d => d * (a * f) > d * (e * b))
  BY <1>3, <1>4, <1>5, <1>6
<1> QED BY <1>1, <1>2, <1>7

TurnsOK(ts) ==
    /\ ts \in Seq(ActiveTurn)
    /\ \A i \in DOMAIN ts : ts[i].tokens \in Nat /\ ts[i].density \in Nat

LEMMA EvictionOrderIsOrder ==
    ASSUME NEW ts, TurnsOK(ts), NEW cands, cands \subseteq DOMAIN ts
    PROVE  IsOrder(cands, EvictionOrder(ts, cands))
<1> DEFINE a(i) == ts[i].tokens
           b(i) == Max({1, ts[i].density})
           R == EvictionOrder(ts, cands)
<1>1. \A i \in cands : a(i) \in Nat /\ b(i) \in Nat \ {0} /\ i \in Int
  BY MaxOfOne DEF TurnsOK
<1>2. \A i, j \in cands :
        <<i, j>> \in R <=> (a(i) * b(j) > a(j) * b(i) \/ (~(a(j) * b(i) > a(i) * b(j)) /\ i < j))
  BY DEF EvictionOrder, Heavier
<1> HIDE DEF a, b, R
<1>3. \A i, j \in cands : a(i) * b(j) \in Nat
  BY <1>1
<1>4. \A i, j \in cands :
        <<i, j>> \in R <=> (a(i) * b(j) > a(j) * b(i) \/ (a(i) * b(j) >= a(j) * b(i) /\ i < j))
  <2>1. \A x, y \in Nat : ~(y > x) <=> x >= y
    OBVIOUS
  <2>2. \A i, j \in cands : ~(a(j) * b(i) > a(i) * b(j)) <=> a(i) * b(j) >= a(j) * b(i)
    BY <1>3, <2>1
  <2> QED BY <1>2, <2>2, Zenon
<1>5. ASSUME NEW i \in cands, NEW j \in cands, NEW k \in cands, <<i, j>> \in R, <<j, k>> \in R
      PROVE  <<i, k>> \in R
  <2>1. a(i) * b(j) >= a(j) * b(i) /\ a(j) * b(k) >= a(k) * b(j)
    BY <1>3, <1>4, <1>5
  <2>2. /\ a(i) * b(k) >= a(k) * b(i)
        /\ a(i) * b(j) > a(j) * b(i) \/ a(j) * b(k) > a(k) * b(j) => a(i) * b(k) > a(k) * b(i)
    BY <1>1, <2>1, Ratios
  <2>3. \/ a(i) * b(j) > a(j) * b(i) \/ a(j) * b(k) > a(k) * b(j)
        \/ i < j /\ j < k
    BY <1>4, <1>5
  <2>4. i < j /\ j < k => i < k
    BY <1>1
  <2> QED BY <1>4, <2>2, <2>3, <2>4
<1>6. \A i \in cands : <<i, i>> \notin R
  BY <1>1, <1>3, <1>4
<1>7. ASSUME NEW i \in cands, NEW j \in cands PROVE i = j \/ <<i, j>> \in R \/ <<j, i>> \in R
  <2>1. \A x, y \in Nat : x > y \/ y > x \/ (x >= y /\ y >= x)
    OBVIOUS
  <2>2. \/ a(i) * b(j) > a(j) * b(i) \/ a(j) * b(i) > a(i) * b(j)
        \/ (a(i) * b(j) >= a(j) * b(i) /\ a(j) * b(i) >= a(i) * b(j))
    BY <1>3, <2>1
  <2>3. i = j \/ i < j \/ j < i
    BY <1>1
  <2> QED BY <1>4, <2>2, <2>3, Zenon
<1>8. IsOrder(cands, R)
  BY <1>5, <1>6, <1>7 DEF IsOrder
<1> QED BY <1>8 DEF R

LEMMA OrderedIs ==
    ASSUME NEW ts, TurnsOK(ts), NEW cands, cands \subseteq DOMAIN ts
    PROVE  /\ Enumerates(Ordered(ts, cands), cands)
           /\ (\E i \in cands : ts[i].density > 0) =>
                  \A k, l \in 1..Len(Ordered(ts, cands)) :
                      k < l => ~Heavier(ts[Ordered(ts, cands)[l]], ts[Ordered(ts, cands)[k]])
<1> DEFINE order == Ordered(ts, cands)
           R == EvictionOrder(ts, cands)
<1>1. cands \subseteq Int /\ IsFiniteSet(cands)
  <2>1. DOMAIN ts = 1..Len(ts) /\ Len(ts) \in Nat
    BY DEF TurnsOK
  <2>2. IsFiniteSet(1..Len(ts)) /\ cands \in SUBSET (1..Len(ts))
    BY <2>1, FS_Interval
  <2> QED BY <2>1, <2>2, FS_Subset
<1>2. CASE \E i \in cands : ts[i].density > 0
  <2>1. order = Sorted(cands, R)
    BY <1>2 DEF Ordered
  <2>2. IsOrder(cands, R)
    BY EvictionOrderIsOrder
  <2> HIDE DEF R, order
  <2>3. Enumerates(order, cands)
    BY <1>1, <2>1, <2>2, SortedEnumerates
  <2>4. \A k, l \in 1..Len(order) : k < l => <<order[k], order[l]>> \in R
    BY <1>1, <2>1, <2>2, SortedEnumerates
  <2>5. ASSUME NEW k \in 1..Len(order), NEW l \in 1..Len(order), k < l
        PROVE  ~Heavier(ts[order[l]], ts[order[k]])
    <3> DEFINE i == order[k]
               j == order[l]
    <3>1. i \in cands /\ j \in cands
      BY <2>3 DEF Enumerates
    <3>2. <<i, j>> \in R
      BY <2>4, <2>5
    <3>3. Heavier(ts[i], ts[j]) \/ ~Heavier(ts[j], ts[i])
      BY <3>2 DEF R, EvictionOrder
    <3> HIDE DEF i, j
    <3>4. /\ ts[i].tokens \in Nat /\ ts[j].tokens \in Nat
          /\ Max({1, ts[i].density}) \in Nat /\ Max({1, ts[j].density}) \in Nat
      BY <3>1, MaxOfOne DEF TurnsOK
    <3>5. /\ ts[i].tokens * Max({1, ts[j].density}) \in Nat
          /\ ts[j].tokens * Max({1, ts[i].density}) \in Nat
      BY <3>4
    <3>6. ~Heavier(ts[j], ts[i])
      BY <3>3, <3>5 DEF Heavier
    <3> QED BY <3>6 DEF i, j
  <2> QED BY <2>3, <2>5 DEF order
<1>3. CASE ~\E i \in cands : ts[i].density > 0
  BY <1>1, <1>3, AscendingEnumerates DEF Ordered
<1> QED BY <1>2, <1>3

---------------------------------------------------------------------------
(* Selector: the walk along pass 2, of which pass 1 is the beginning *)

OfTurn(ts) == Evictable(ts, "plain")
Priority(ts) == Evictable(ts, "priority")

LEMMA PassesAre ==
    ASSUME NEW ts, TurnsOK(ts)
    PROVE  /\ Enumerates(Pass1(ts), OfTurn(ts))
           /\ Enumerates(Ordered(ts, Priority(ts)), Priority(ts))
           /\ Enumerates(Pass2(ts), OfTurn(ts) \union Priority(ts))
           /\ OfTurn(ts) \subseteq DOMAIN ts /\ Priority(ts) \subseteq DOMAIN ts
           /\ OfTurn(ts) \cap Priority(ts) = {}
<1>1. DOMAIN ts = 1..Len(ts) /\ Len(ts) \in Nat
  BY DEF TurnsOK
<1>2. OfTurn(ts) \subseteq DOMAIN ts /\ Priority(ts) \subseteq DOMAIN ts
  BY <1>1, SelectorAssumption DEF OfTurn, Priority, Evictable
<1>3. OfTurn(ts) \cap Priority(ts) = {}
  BY DEF OfTurn, Priority, Evictable
<1>4. Enumerates(Pass1(ts), OfTurn(ts))
  BY <1>2, OrderedIs DEF Pass1, OfTurn
<1>5. Enumerates(Ordered(ts, Priority(ts)), Priority(ts))
  BY <1>2, OrderedIs
<1>6. Enumerates(Pass2(ts), OfTurn(ts) \union Priority(ts))
  <2>1. Pass2(ts) = Pass1(ts) \o Ordered(ts, Priority(ts))
    BY DEF Pass2, Priority
  <2> DEFINE p == Pass1(ts)
             q == Ordered(ts, Priority(ts))
             A == OfTurn(ts)
             B == Priority(ts)
  <2>2. Enumerates(p, A) /\ Enumerates(q, B) /\ A \cap B = {}
    BY <1>3, <1>4, <1>5
  <2> HIDE DEF p, q, A, B
  <2>3. Enumerates(p \o q, A \union B)
    BY <2>2, JoinEnumerates
  <2> QED BY <2>1, <2>3 DEF p, q, A, B
<1> QED BY <1>2, <1>3, <1>4, <1>5, <1>6

TokensAt(ts) == [i \in DOMAIN ts |-> ts[i].tokens]
Taken(order, k) == {order[j] : j \in 1..k}

\* What an order has freed is the sum of the turns it has named.
LEMMA FreedIs ==
    ASSUME NEW ts, TurnsOK(ts), NEW S, S \subseteq DOMAIN ts, NEW order, Enumerates(order, S)
    PROVE  \A k \in 0..Len(order) :
               /\ Freed(ts, order, k) \in Nat
               /\ Freed(ts, order, k) = Total(TokensAt(ts), Taken(order, k))
<1> DEFINE n == Len(order)
           v == [j \in DOMAIN order |-> ts[order[j]].tokens]
           w == TokensAt(ts)
<1>1. n \in Nat /\ DOMAIN order = 1..n /\ \A j \in 1..n : order[j] \in S
  BY DEF Enumerates
<1>2. \A j \in 1..n : v[j] \in Nat /\ w[order[j]] = v[j]
  BY <1>1 DEF TokensAt, TurnsOK
<1>3. \A j, k \in 1..n : order[j] = order[k] => j = k
  BY DEF Enumerates
<1>4. \A k : Freed(ts, order, k) = Total(v, 1..k)
  BY DEF Freed
<1> HIDE DEF n, v, w
<1>5. \A k \in 0..n : Total(v, 1..k) \in Nat
                      /\ Total(v, 1..k) = Total(w, {order[j] : j \in 1..k})
  <2>1. Sums(n, order, v, w)
    BY <1>2, <1>3 DEF Sums
  <2>2. n \in Nat
    BY <1>1
  <2>3. SumsAlike(n, order, v, w)
    BY <2>1, <2>2, SumOfNamed
  <2> QED BY <2>3 DEF SumsAlike
<1>6. \A k \in 0..n : Freed(ts, order, k) \in Nat
                      /\ Freed(ts, order, k) = Total(w, Taken(order, k))
  BY <1>4, <1>5 DEF Taken
<1> QED BY <1>6 DEF n, w

LEMMA LeastEnough ==
    ASSUME NEW S, S \subseteq Nat, S # {}
    PROVE  Min(S) \in S /\ \A k \in S : ~(k < Min(S))
<1>1. PICK m \in S : \A k \in S : ~(k < m)
  BY LeastNumber
<1>2. m \in S /\ \A k \in S : m <= k
  BY <1>1
<1> DEFINE l == Min(S)
<1>3. l \in S /\ \A k \in S : l <= k
  BY <1>2 DEF Min
<1> HIDE DEF l
<1>4. l \in S /\ \A k \in S : ~(k < l)
  BY <1>3
<1> QED BY <1>4 DEF l

\* The selection r takes the first k turns of pass 2, and needed each of them.
Walk(ts, n, r, k) ==
    /\ k \in 0..Len(Pass2(ts))
    /\ r.evicted = SubSeq(Pass2(ts), 1, k)
    /\ r.freed = Freed(ts, Pass2(ts), k)
    /\ \A j \in 0..(k - 1) : Freed(ts, Pass2(ts), j) < n
    /\ r.pressure \in BOOLEAN
    /\ r.pressure => (k = Len(Pass2(ts)) /\ Freed(ts, Pass2(ts), k) < n)
    /\ ~r.pressure => (k > 0 /\ Freed(ts, Pass2(ts), k) >= n)

LEMMA SelectionWalks ==
    ASSUME NEW ts, TurnsOK(ts), NEW n \in Nat, n > 0
    PROVE  \E k : Walk(ts, n, select_for_eviction(ts, n), k)
<1> DEFINE p == Pass1(ts)
           s == Pass2(ts)
           q == Ordered(ts, Priority(ts))
           r == select_for_eviction(ts, n)
           P == OfTurn(ts)
           U == OfTurn(ts) \union Priority(ts)
<1>1. Enumerates(p, P) /\ Enumerates(s, U) /\ P \subseteq DOMAIN ts /\ U \subseteq DOMAIN ts
  BY PassesAre
<1>2. s = p \o q
  BY DEF Pass2, Priority
<1>3. Len(p) \in Nat /\ Len(s) \in Nat /\ Len(p) <= Len(s) /\ \A k \in 1..Len(p) : s[k] = p[k]
  <2>1. Enumerates(q, Priority(ts)) /\ P \cap Priority(ts) = {}
    BY PassesAre
  <2> HIDE DEF p, s, q, P
  <2>2. /\ Len(p) \in Nat /\ Len(q) \in Nat /\ Len(s) = Len(p) + Len(q)
        /\ \A k \in 1..Len(p) : s[k] = p[k]
    BY <1>1, <1>2, <2>1, JoinEnumerates
  <2> QED BY <2>2
<1>4. \A k \in 0..Len(s) : Freed(ts, s, k) \in Nat
  BY <1>1, FreedIs
<1>5. \A k \in 0..Len(p) : Freed(ts, p, k) \in Nat /\ Freed(ts, p, k) = Freed(ts, s, k)
  <2> SUFFICES ASSUME NEW k \in 0..Len(p)
               PROVE  Freed(ts, p, k) \in Nat /\ Freed(ts, p, k) = Freed(ts, s, k)
    OBVIOUS
  <2>1. Taken(p, k) = Taken(s, k)
    BY <1>3 DEF Taken
  <2>2. Freed(ts, p, k) \in Nat /\ Freed(ts, p, k) = Total(TokensAt(ts), Taken(p, k))
    BY <1>1, FreedIs
  <2>3. k \in 0..Len(s)
    BY <1>3
  <2>4. Freed(ts, s, k) = Total(TokensAt(ts), Taken(s, k))
    BY <1>1, <2>3, FreedIs
  <2> QED BY <2>1, <2>2, <2>4
<1>6. Freed(ts, s, 0) = 0
  <2>1. 0 \in 0..Len(s)
    BY <1>3
  <2>2. Freed(ts, s, 0) = Total(TokensAt(ts), Taken(s, 0))
    BY <1>1, <2>1, FreedIs
  <2>3. Taken(s, 0) = {}
    BY DEF Taken
  <2> QED BY <2>2, <2>3, SumOfNone
<1>7. SubSeq(s, 1, Len(s)) = s
  BY <1>1 DEF Enumerates
<1>8. DOMAIN p = 1..Len(p) /\ DOMAIN s = 1..Len(s)
  BY <1>1 DEF Enumerates
<1>9. r = IF Enough(ts, p, n) # {} THEN Selection(ts, p, Min(Enough(ts, p, n)), 1)
          ELSE IF Enough(ts, s, n) # {} THEN Selection(ts, s, Min(Enough(ts, s, n)), 2)
          ELSE Selection(ts, s, Len(s), 3)
  BY DEF select_for_eviction
<1> HIDE DEF p, s, q, P, U, r
<1>10. CASE Enough(ts, p, n) # {}
  <2> DEFINE k == Min(Enough(ts, p, n))
  <2>1. Enough(ts, p, n) \subseteq Nat
    BY <1>3, <1>8 DEF Enough
  <2>2. k \in Enough(ts, p, n) /\ \A j \in Enough(ts, p, n) : ~(j < k)
    BY <1>10, <2>1, LeastEnough
  <2>3. r = Selection(ts, p, k, 1)
    BY <1>9, <1>10
  <2> HIDE DEF k
  <2>4. k \in 1..Len(p) /\ Freed(ts, p, k) >= n
    BY <1>8, <2>2 DEF Enough
  <2>5. ASSUME NEW j \in 0..(k - 1) PROVE Freed(ts, s, j) < n
    <3>1. CASE j = 0
      BY <1>6, <3>1
    <3>2. CASE j # 0
      <4>1. j \in 1..Len(p) /\ j < k /\ j \in 0..Len(p)
        BY <1>3, <2>4, <3>2
      <4>2. ~(Freed(ts, p, j) >= n)
        BY <1>8, <2>2, <4>1 DEF Enough
      <4> QED BY <1>5, <4>1, <4>2
    <3> QED BY <3>1, <3>2
  <2>6. SubSeq(p, 1, k) = SubSeq(s, 1, k)
    BY <1>3, <2>4
  <2>7. k \in 0..Len(s) /\ k > 0 /\ Freed(ts, s, k) >= n /\ Freed(ts, p, k) = Freed(ts, s, k)
    BY <1>3, <1>5, <2>4
  <2>8. /\ r.evicted = SubSeq(s, 1, k) /\ r.freed = Freed(ts, s, k) /\ r.pressure = FALSE
        /\ \A j \in 0..(k - 1) : Freed(ts, s, j) < n
    <3>1. r.evicted = SubSeq(p, 1, k) /\ r.freed = Freed(ts, p, k)
      BY <2>3 DEF Selection
    <3>2. r.pressure = FALSE
      <4>1. (1 = 3) = FALSE
        OBVIOUS
      <4>2. r = [evicted |-> SubSeq(p, 1, k), freed |-> Freed(ts, p, k), pass |-> 1,
                 pressure |-> FALSE]
        BY <2>3, <4>1, Zenon DEF Selection
      <4> QED BY <4>2
    <3>3. \A j \in 0..(k - 1) : Freed(ts, s, j) < n
      BY <2>5
    <3> QED BY <2>6, <2>7, <3>1, <3>2, <3>3, Zenon
  <2>9. Walk(ts, n, r, k)
    BY <2>7, <2>8 DEF Walk, s
  <2> QED BY <2>9 DEF r
<1>11. CASE Enough(ts, p, n) = {} /\ Enough(ts, s, n) # {}
  <2> DEFINE k == Min(Enough(ts, s, n))
  <2>1. Enough(ts, s, n) \subseteq Nat
    BY <1>3, <1>8 DEF Enough
  <2>2. k \in Enough(ts, s, n) /\ \A j \in Enough(ts, s, n) : ~(j < k)
    BY <1>11, <2>1, LeastEnough
  <2>3. r = Selection(ts, s, k, 2)
    BY <1>9, <1>11
  <2> HIDE DEF k
  <2>4. k \in 1..Len(s) /\ Freed(ts, s, k) >= n
    BY <1>8, <2>2 DEF Enough
  <2>5. ASSUME NEW j \in 0..(k - 1) PROVE Freed(ts, s, j) < n
    <3>1. CASE j = 0
      BY <1>6, <3>1
    <3>2. CASE j # 0
      <4>1. j \in 1..Len(s) /\ j < k /\ j \in 0..Len(s)
        BY <1>3, <2>4, <3>2
      <4>2. ~(Freed(ts, s, j) >= n)
        BY <1>8, <2>2, <4>1 DEF Enough
      <4> QED BY <1>4, <4>1, <4>2
    <3> QED BY <3>1, <3>2
  <2>7. k \in 0..Len(s) /\ k > 0
    BY <1>3, <2>4
  <2>8. /\ r.evicted = SubSeq(s, 1, k) /\ r.freed = Freed(ts, s, k) /\ r.pressure = FALSE
        /\ \A j \in 0..(k - 1) : Freed(ts, s, j) < n
    <3>1. r.evicted = SubSeq(s, 1, k) /\ r.freed = Freed(ts, s, k)
      BY <2>3 DEF Selection
    <3>2. r.pressure = FALSE
      <4>1. (2 = 3) = FALSE
        OBVIOUS
      <4>2. r = [evicted |-> SubSeq(s, 1, k), freed |-> Freed(ts, s, k), pass |-> 2,
                 pressure |-> FALSE]
        BY <2>3, <4>1, Zenon DEF Selection
      <4> QED BY <4>2
    <3>3. \A j \in 0..(k - 1) : Freed(ts, s, j) < n
      BY <2>5
    <3> QED BY <2>7, <2>7, <3>1, <3>2, <3>3, Zenon
  <2>9. Walk(ts, n, r, k)
    BY <2>4, <2>7, <2>8 DEF Walk, s
  <2> QED BY <2>9 DEF r
<1>12. CASE Enough(ts, p, n) = {} /\ Enough(ts, s, n) = {}
  <2> DEFINE k == Len(s)
  <2>1. r = Selection(ts, s, k, 3)
    BY <1>9, <1>12
  <2>2. ASSUME NEW j \in 0..k PROVE Freed(ts, s, j) < n
    <3>1. CASE j = 0
      BY <1>6, <3>1
    <3>2. CASE j # 0
      <4>1. j \in 1..Len(s)
        BY <1>3, <3>2
      <4>2. ~(Freed(ts, s, j) >= n)
        BY <1>8, <1>12, <4>1 DEF Enough
      <4> QED BY <1>4, <4>1, <4>2
    <3> QED BY <3>1, <3>2
  <2>3. k \in 0..k /\ 0..(k - 1) \subseteq 0..k
    BY <1>3
  <2>4. Walk(ts, n, r, k)
    BY <2>1, <2>2, <2>3 DEF Walk, Selection, s
  <2> QED BY <2>4 DEF r
<1> QED BY <1>10, <1>11, <1>12

---------------------------------------------------------------------------
(* Selector: what a selection satisfies *)

\* A selection is a walk along pass 2 that stops where enough is freed.
SelectorInv ==
    /\ turns \in Conversations /\ need \in 0..MaxNeed
    /\ result = NoWork \/ (need > 0 /\ \E k : Walk(turns, need, result, k))

LEMMA ConversationsOK == \A ts \in Conversations : TurnsOK(ts)
<1> SUFFICES ASSUME NEW ts \in Conversations PROVE TurnsOK(ts)
  OBVIOUS
<1>1. PICK n \in 0..MaxTurns : ts \in [1..n -> ActiveTurn]
  BY DEF Conversations
<1>2. n \in Nat
  BY SelectorAssumption
<1>3. ts \in Seq(ActiveTurn) /\ DOMAIN ts = 1..n
  BY <1>1, <1>2
<1>4. \A t \in ActiveTurn : t.tokens \in Nat /\ t.density \in Nat
  BY SelectorAssumption DEF ActiveTurn
<1> QED BY <1>1, <1>3, <1>4 DEF TurnsOK

\* Nothing is selected yet, or what is selected is such a walk
\* (eviction/selector.py, select_for_eviction).
THEOREM SelectorInvariant == SelectorSpec => []SelectorInv
<1>1. SelectorInit => SelectorInv
  BY DEF SelectorInit, SelectorInv
<1>2. SelectorInv /\ [Select]_selectorVars => SelectorInv'
  <2> SUFFICES ASSUME SelectorInv, [Select]_selectorVars PROVE SelectorInv'
    OBVIOUS
  <2>1. CASE Select
    <3>1. turns' = turns /\ need' = need /\ result' = select_for_eviction(turns, need)
      BY <2>1 DEF Select
    <3>2. TurnsOK(turns) /\ need \in Nat
      BY ConversationsOK, SelectorAssumption DEF SelectorInv
    <3>3. CASE need <= 0
      <4>1. result' = NoWork
        BY <3>1, <3>3 DEF select_for_eviction
      <4> QED BY <3>1, <4>1 DEF SelectorInv
    <3>4. CASE ~(need <= 0)
      <4>1. need > 0
        BY <3>2, <3>4
      <4>2. \E k : Walk(turns, need, result', k)
        BY <3>1, <3>2, <4>1, SelectionWalks
      <4>3. \E k : Walk(turns', need', result', k)
        BY <3>1, <4>2, Zenon
      <4> QED BY <3>1, <4>1, <4>3 DEF SelectorInv
    <3> QED BY <3>3, <3>4
  <2>2. CASE UNCHANGED selectorVars
    <3>1. turns' = turns /\ need' = need /\ result' = result
      BY <2>2 DEF selectorVars
    <3> QED BY <3>1, Zenon DEF SelectorInv
  <2> QED BY <2>1, <2>2
<1> QED BY <1>1, <1>2, PTL DEF SelectorSpec

LEMMA NoWorkFields ==
    ASSUME result = NoWork
    PROVE  ~Made /\ Evicted = {}
<1>1. result.pass = 0 /\ result.evicted = <<>>
  BY DEF NoWork
<1> QED BY <1>1 DEF Made, Evicted, Range

\* What the walk evicts: the first k turns of pass 2.
LEMMA WalkTakes ==
    ASSUME SelectorInv, NEW k, Walk(turns, need, result, k)
    PROVE  /\ k \in 0..Len(Pass2(turns)) /\ Evicted = Taken(Pass2(turns), k)
           /\ \A j \in 0..Len(Pass2(turns)) :
                /\ Freed(turns, Pass2(turns), j) \in Nat
                /\ Freed(turns, Pass2(turns), j) = TokensOf(Taken(Pass2(turns), j))
           /\ k = 0 \/ Last(result.evicted) = Pass2(turns)[k]
<1> DEFINE s == Pass2(turns)
           S == OfTurn(turns) \union Priority(turns)
<1>1. TurnsOK(turns)
  BY ConversationsOK DEF SelectorInv
<1>2. Enumerates(s, S) /\ S \subseteq DOMAIN turns
  BY <1>1, PassesAre
<1>3. s \in Seq(S) /\ Len(s) \in Nat
  BY <1>2 DEF Enumerates
<1>4. k \in 0..Len(s) /\ result.evicted = SubSeq(s, 1, k)
  BY DEF Walk
<1> HIDE DEF s, S
<1>5. \A j \in 0..Len(s) : Freed(turns, s, j) \in Nat
                           /\ Freed(turns, s, j) = TokensOf(Taken(s, j))
  <2>1. \A j \in 0..Len(s) : Freed(turns, s, j) \in Nat
                             /\ Freed(turns, s, j) = Total(TokensAt(turns), Taken(s, j))
    BY <1>1, <1>2, FreedIs
  <2> QED BY <2>1 DEF TokensOf, TokensAt
<1>6. /\ DOMAIN result.evicted = 1..k /\ Len(result.evicted) = k
      /\ \A j \in 1..k : result.evicted[j] = s[j]
  BY <1>3, <1>4
<1>7. Evicted = Taken(s, k)
  BY <1>6 DEF Evicted, Range, Taken
<1>8. k = 0 \/ Last(result.evicted) = s[k]
  BY <1>3, <1>4, <1>6 DEF Last
<1> QED BY <1>4, <1>5, <1>7, <1>8 DEF s

LEMMA WalkFrees ==
    ASSUME SelectorInv, Made PROVE FreesWhatIsNeeded
<1>1. result # NoWork
  BY NoWorkFields
<1>2. PICK k : Walk(turns, need, result, k)
  BY <1>1 DEF SelectorInv
<1>3. need \in Nat /\ need > 0 /\ TurnsOK(turns)
  BY <1>1, ConversationsOK, SelectorAssumption DEF SelectorInv
<1> DEFINE s == Pass2(turns)
           S == OfTurn(turns) \union Priority(turns)
<1>4. /\ k \in 0..Len(s) /\ Evicted = Taken(s, k)
      /\ \A j \in 0..Len(s) :
            Freed(turns, s, j) \in Nat /\ Freed(turns, s, j) = TokensOf(Taken(s, j))
      /\ k = 0 \/ Last(result.evicted) = s[k]
  BY <1>2, WalkTakes
<1>5. /\ result.freed = Freed(turns, s, k) /\ result.pressure \in BOOLEAN
      /\ \A j \in 0..(k - 1) : Freed(turns, s, j) < need
  BY <1>2 DEF Walk
<1>6. /\ result.pressure => (k = Len(s) /\ Freed(turns, s, k) < need)
      /\ ~result.pressure => (k > 0 /\ Freed(turns, s, k) >= need)
  BY <1>2 DEF Walk
<1>7. Enumerates(s, S)
  BY <1>3, PassesAre
<1>8. S = Available("plain") \union Available("priority")
  BY DEF Available, OfTurn, Priority
<1> HIDE DEF s, S
<1>9. Freed(turns, s, k) \in Nat /\ Freed(turns, s, k) = TokensOf(Evicted)
  BY <1>4
<1>10. result.pressure <=> TokensOf(Evicted) < need
  BY <1>3, <1>5, <1>6, <1>9
<1>11. ASSUME result.pressure PROVE Evicted = S
  <2>1. Evicted = {s[j] : j \in 1..Len(s)}
    BY <1>4, <1>6, <1>11 DEF Taken
  <2> QED BY <1>7, <2>1 DEF Enumerates
<1>12. ASSUME ~result.pressure PROVE TokensOf(Evicted \ {Last(result.evicted)}) < need
  <2> DEFINE m == k - 1
  <2>1. k \in 1..Len(s) /\ m \in 0..Len(s) /\ m \in 0..(k - 1)
    BY <1>4, <1>6, <1>12
  <2>2. Taken(s, k) \ {s[k]} = Taken(s, m)
    <3>1. \A j, l \in 1..Len(s) : s[j] = s[l] => j = l
      BY <1>7 DEF Enumerates
    <3> QED BY <2>1, <3>1 DEF Taken
  <2>3. Freed(turns, s, m) < need /\ Freed(turns, s, m) = TokensOf(Taken(s, m))
    BY <1>4, <1>5, <2>1
  <2>4. Last(result.evicted) = s[k]
    BY <1>4, <2>1
  <2> QED BY <1>4, <2>2, <2>3, <2>4
<1>13. result.freed = TokensOf(Evicted)
  BY <1>5, <1>9
<1> QED BY <1>8, <1>10, <1>11, <1>12, <1>13 DEF FreesWhatIsNeeded

\* A selection frees what was asked for, reports as much, takes no turn more than it
\* needs, and says so when it cannot: select_for_eviction's three passes.
THEOREM SelectorFrees == SelectorSpec => []FreesWhatIsNeeded
<1>1. SelectorInv => FreesWhatIsNeeded
  BY WalkFrees DEF FreesWhatIsNeeded
<1> QED BY <1>1, SelectorInvariant, PTL

\* Where a turn stands in pass 2: the plain ones first, in their order, then the
\* priority ones, in theirs.
LEMMA PlacesInPass2 ==
    ASSUME NEW ts, TurnsOK(ts)
    PROVE  LET p == Pass1(ts)
               q == Ordered(ts, Priority(ts))
               s == Pass2(ts)
           IN  /\ Len(p) \in Nat /\ Len(q) \in Nat /\ Len(s) = Len(p) + Len(q)
               /\ \A k \in 1..Len(p) : s[k] = p[k] /\ p[k] \in OfTurn(ts)
               /\ \A k \in 1..Len(q) : s[Len(p) + k] = q[k] /\ q[k] \in Priority(ts)
               /\ \A k \in 1..Len(s) : s[k] \in OfTurn(ts) <=> k <= Len(p)
               /\ \A k \in 1..Len(s) : s[k] \in Priority(ts) <=> k > Len(p)
<1> DEFINE p == Pass1(ts)
           q == Ordered(ts, Priority(ts))
           s == Pass2(ts)
           A == OfTurn(ts)
           B == Priority(ts)
<1>1. Enumerates(p, A) /\ Enumerates(q, B) /\ A \cap B = {}
  BY PassesAre
<1>2. s = p \o q
  BY DEF Pass2, Priority
<1> HIDE DEF p, q, s, A, B
<1>3. /\ Len(p) \in Nat /\ Len(q) \in Nat /\ Len(s) = Len(p) + Len(q)
      /\ \A k \in 1..Len(p) : s[k] = p[k] /\ p[k] \in A
      /\ \A k \in 1..Len(q) : s[Len(p) + k] = q[k] /\ q[k] \in B
  <2>1. Len(p) \in Nat /\ Len(q) \in Nat /\ Len(p \o q) = Len(p) + Len(q)
    BY <1>1, JoinEnumerates
  <2>2. \A k \in 1..Len(p) : (p \o q)[k] = p[k] /\ p[k] \in A
    BY <1>1, JoinEnumerates
  <2>3. \A k \in 1..Len(q) : (p \o q)[Len(p) + k] = q[k] /\ q[k] \in B
    BY <1>1, JoinEnumerates
  <2> QED BY <1>2, <2>1, <2>2, <2>3, Zenon
<1>4. ASSUME NEW k \in 1..Len(s)
      PROVE  (s[k] \in A <=> k <= Len(p)) /\ (s[k] \in B <=> k > Len(p))
  <2>1. CASE k <= Len(p)
    <3>1. k \in 1..Len(p) /\ ~(k > Len(p))
      BY <1>3, <2>1
    <3>2. s[k] \in A
      BY <1>3, <3>1
    <3> QED BY <1>1, <2>1, <3>1, <3>2
  <2>2. CASE ~(k <= Len(p))
    <3> DEFINE j == k - Len(p)
    <3>1. j \in 1..Len(q) /\ k = Len(p) + j /\ k > Len(p)
      BY <1>3, <2>2
    <3> HIDE DEF j
    <3>2. s[k] \in B
      BY <1>3, <3>1
    <3> QED BY <1>1, <2>2, <3>1, <3>2
  <2> QED BY <2>1, <2>2
<1> QED BY <1>3, <1>4 DEF p, q, s, A, B

LEMMA WalkSparesPriority ==
    ASSUME SelectorInv PROVE PriorityIsLastResort
<1> SUFFICES ASSUME Evicted \intersect Available("priority") # {}
             PROVE  /\ Available("plain") \subseteq Evicted
                    /\ TokensOf(Available("plain")) < need
  BY DEF PriorityIsLastResort
<1>1. result # NoWork
  BY NoWorkFields
<1>2. PICK k : Walk(turns, need, result, k)
  BY <1>1 DEF SelectorInv
<1>3. TurnsOK(turns)
  BY ConversationsOK DEF SelectorInv
<1> DEFINE s == Pass2(turns)
           p == Pass1(turns)
<1>4. /\ k \in 0..Len(s) /\ Evicted = Taken(s, k)
      /\ \A j \in 0..Len(s) :
            Freed(turns, s, j) \in Nat /\ Freed(turns, s, j) = TokensOf(Taken(s, j))
  BY <1>2, WalkTakes
<1>5. \A j \in 0..(k - 1) : Freed(turns, s, j) < need
  BY <1>2 DEF Walk
<1>6. /\ Len(p) \in Nat /\ Len(p) <= Len(s) /\ Len(s) \in Nat
      /\ \A j \in 1..Len(p) : s[j] = p[j]
      /\ \A j \in 1..Len(s) : s[j] \in Priority(turns) <=> j > Len(p)
  BY <1>3, PlacesInPass2
<1>7. Enumerates(p, OfTurn(turns))
  BY <1>3, PassesAre
<1>8. Available("plain") = OfTurn(turns) /\ Available("priority") = Priority(turns)
  BY DEF Available, OfTurn, Priority
<1> HIDE DEF s, p
<1>9. PICK i \in Priority(turns) : i \in Evicted
  BY <1>8
<1>10. PICK j \in 1..k : s[j] = i
  BY <1>4, <1>9 DEF Taken
<1>11. j > Len(p) /\ Len(p) \in 0..(k - 1) /\ Len(p) \in 0..Len(s) /\ 1..Len(p) \subseteq 1..k
  <2>1. j \in 1..Len(s)
    BY <1>4, <1>6, <1>10
  <2>2. j > Len(p)
    BY <1>6, <1>9, <1>10, <2>1
  <2> QED BY <1>4, <1>6, <2>1, <2>2
<1>12. Taken(s, Len(p)) = OfTurn(turns)
  <2>1. Taken(s, Len(p)) = {p[l] : l \in 1..Len(p)}
    BY <1>6 DEF Taken
  <2> QED BY <1>7, <2>1 DEF Enumerates
<1>13. OfTurn(turns) \subseteq Evicted
  BY <1>4, <1>11, <1>12 DEF Taken
<1>14. TokensOf(OfTurn(turns)) < need
  BY <1>4, <1>5, <1>11, <1>12
<1> QED BY <1>8, <1>13, <1>14

\* A priority turn goes only if all the others that may go would not have been
\* enough: pass 2 of select_for_eviction.
THEOREM SelectorSparesPriority == SelectorSpec => []PriorityIsLastResort
<1>1. SelectorInv => PriorityIsLastResort
  BY WalkSparesPriority
<1> QED BY <1>1, SelectorInvariant, PTL

LEMMA WalkKeepsDense ==
    ASSUME SelectorInv PROVE KeepsDenseTurns
<1> SUFFICES ASSUME NEW kind \in {"plain", "priority"},
                    \E i \in Available(kind) : turns[i].density > 0,
                    NEW gone \in Available(kind) \intersect Evicted,
                    NEW kept \in Available(kind) \ Evicted
             PROVE  ~Heavier(turns[kept], turns[gone])
  BY DEF KeepsDenseTurns
<1>1. result # NoWork
  BY NoWorkFields
<1>2. PICK k : Walk(turns, need, result, k)
  BY <1>1 DEF SelectorInv
<1>3. TurnsOK(turns)
  BY ConversationsOK DEF SelectorInv
<1> DEFINE s == Pass2(turns)
           p == Pass1(turns)
           q == Ordered(turns, Priority(turns))
           S == OfTurn(turns) \union Priority(turns)
<1>4. k \in 0..Len(s) /\ Evicted = Taken(s, k)
  BY <1>2, WalkTakes
<1>5. /\ Len(p) \in Nat /\ Len(q) \in Nat /\ Len(s) = Len(p) + Len(q)
      /\ \A j \in 1..Len(p) : s[j] = p[j]
      /\ \A j \in 1..Len(q) : s[Len(p) + j] = q[j]
      /\ \A j \in 1..Len(s) : s[j] \in OfTurn(turns) <=> j <= Len(p)
      /\ \A j \in 1..Len(s) : s[j] \in Priority(turns) <=> j > Len(p)
  BY <1>3, PlacesInPass2
<1>6. Enumerates(s, S)
  BY <1>3, PassesAre
<1>7. Available("plain") = OfTurn(turns) /\ Available("priority") = Priority(turns)
  BY DEF Available, OfTurn, Priority
<1>8. /\ OfTurn(turns) \subseteq DOMAIN turns /\ Priority(turns) \subseteq DOMAIN turns
      /\ p = Ordered(turns, OfTurn(turns))
  BY <1>3, PassesAre DEF Pass1, OfTurn
<1>9. (\E i \in OfTurn(turns) : turns[i].density > 0) =>
          \A j, l \in 1..Len(p) : j < l => ~Heavier(turns[p[l]], turns[p[j]])
  BY <1>3, <1>8, OrderedIs
<1>10. (\E i \in Priority(turns) : turns[i].density > 0) =>
          \A j, l \in 1..Len(q) : j < l => ~Heavier(turns[q[l]], turns[q[j]])
  BY <1>3, <1>8, OrderedIs
<1> HIDE DEF s, p, q
<1>11. PICK g \in 1..k : s[g] = gone
  BY <1>4 DEF Taken
<1>12. PICK h \in 1..Len(s) : s[h] = kept
  BY <1>6, <1>7 DEF Enumerates
<1>13. g \in 1..Len(s) /\ g < h
  <2>1. ~(h \in 1..k)
    BY <1>4, <1>12 DEF Taken
  <2> QED BY <1>4, <1>11, <1>12, <2>1
<1>14. CASE kind = "plain"
  <2>1. g \in 1..Len(p) /\ h \in 1..Len(p)
    BY <1>5, <1>7, <1>11, <1>12, <1>13, <1>14
  <2>2. ~Heavier(turns[p[h]], turns[p[g]])
    BY <1>7, <1>9, <1>13, <1>14, <2>1
  <2> QED BY <1>5, <1>11, <1>12, <2>1, <2>2
<1>15. CASE kind = "priority"
  <2> DEFINE i == g - Len(p)
             j == h - Len(p)
  <2>1. g > Len(p) /\ h > Len(p)
    BY <1>5, <1>7, <1>11, <1>12, <1>13, <1>15
  <2>2. i \in 1..Len(q) /\ j \in 1..Len(q) /\ i < j /\ g = Len(p) + i /\ h = Len(p) + j
    BY <1>5, <1>12, <1>13, <2>1
  <2> HIDE DEF i, j
  <2>3. ~Heavier(turns[q[j]], turns[q[i]])
    BY <1>7, <1>10, <1>15, <2>2
  <2>4. s[g] = q[i] /\ s[h] = q[j]
    BY <1>5, <2>2
  <2> QED BY <1>11, <1>12, <2>3, <2>4
<1> QED BY <1>14, <1>15

\* No kept turn is heavier than one of its kind that goes: the sort key of
\* _ordered_candidates.
THEOREM SelectorKeepsDense == SelectorSpec => []KeepsDenseTurns
<1>1. SelectorInv => KeepsDenseTurns
  BY WalkKeepsDense
<1> QED BY <1>1, SelectorInvariant, PTL

---------------------------------------------------------------------------
(* Retrieval: sums of terms that are larger *)

LEMMA SumOfOne ==
    ASSUME NEW w, NEW x, w[x] \in Nat
    PROVE  Total(w, {x}) = w[x]
<1> DEFINE S == {x}
<1>1. IsFiniteSet(S) /\ (\A i \in S : w[i] \in Nat) /\ x \in S /\ S \ {x} = {}
  BY FS_Singleton
<1> HIDE DEF S
<1>2. \A y \in S : Total(w, S) = w[y] + Total(w, S \ {y})
  <2>1. IsFiniteSet(S) /\ (\A i \in S : w[i] \in Nat)
    BY <1>1
  <2> QED BY <2>1, SumWithout
<1>3. Total(w, S) = w[x] + 0
  BY <1>1, <1>2, SumOfNone
<1> QED BY <1>3 DEF S

Below(v, w, S) == \A i \in S : v[i] \in Nat /\ w[i] \in Nat /\ v[i] <= w[i]

LEMMA SumsBelow ==
    ASSUME NEW v, NEW w, NEW S, IsFiniteSet(S), Below(v, w, S)
    PROVE  Total(v, S) \in Nat /\ Total(w, S) \in Nat /\ Total(v, S) <= Total(w, S)
<1> DEFINE Right(T) == Total(v, T) <= Total(w, T)
           Bad == {T \in SUBSET S : ~Right(T)}
<1>1. ASSUME NEW T \in SUBSET S
      PROVE  /\ IsFiniteSet(T)
             /\ Total(v, T) \in Nat /\ \A x \in T : Total(v, T) = v[x] + Total(v, T \ {x})
             /\ Total(w, T) \in Nat /\ \A x \in T : Total(w, T) = w[x] + Total(w, T \ {x})
  <2>1. IsFiniteSet(T)
    BY FS_Subset
  <2>2. (\A i \in T : v[i] \in Nat) /\ (\A i \in T : w[i] \in Nat)
    BY DEF Below
  <2>3. Total(v, T) \in Nat /\ \A x \in T : Total(v, T) = v[x] + Total(v, T \ {x})
    BY <2>1, <2>2, SumWithout
  <2>4. Total(w, T) \in Nat /\ \A x \in T : Total(w, T) = w[x] + Total(w, T \ {x})
    BY <2>1, <2>2, SumWithout
  <2> QED BY <2>1, <2>3, <2>4
<1>2. Bad = {}
  <2> SUFFICES ASSUME Bad # {} PROVE FALSE
    OBVIOUS
  <2>1. PICK T \in Bad : \A U \in Bad : U \subseteq T => U = T
    <3>1. Bad \subseteq SUBSET S
      OBVIOUS
    <3> HIDE DEF Bad
    <3> QED BY <3>1, LeastSet
  <2>2. T \in SUBSET S
    OBVIOUS
  <2>3. T # {}
    <3> SUFFICES ASSUME T = {} PROVE Right(T)
      BY <2>1
    <3>1. Total(v, T) = 0 /\ Total(w, T) = 0
      BY SumOfNone
    <3> QED BY <3>1
  <2>4. PICK x \in T : TRUE
    BY <2>3
  <2> DEFINE U == T \ {x}
  <2>5. Right(U) /\ U \in SUBSET S
    BY <2>1, <2>4
  <2>6. Total(v, T) = v[x] + Total(v, U) /\ Total(w, T) = w[x] + Total(w, U)
    BY <1>1, <2>2, <2>4
  <2>7. v[x] \in Nat /\ w[x] \in Nat /\ v[x] <= w[x]
    BY <2>2, <2>4 DEF Below
  <2>8. Total(v, U) \in Nat /\ Total(w, U) \in Nat
    BY <1>1, <2>5
  <2> HIDE DEF U
  <2>9. Right(T)
    BY <2>5, <2>6, <2>7, <2>8
  <2> QED BY <2>1, <2>9
<1>3. S \in SUBSET S
  OBVIOUS
<1> QED BY <1>1, <1>2, <1>3

LEMMA SumsBelowOnce ==
    ASSUME NEW v, NEW w, NEW S, IsFiniteSet(S), Below(v, w, S), NEW x \in S, v[x] < w[x]
    PROVE  Total(v, S) < Total(w, S)
<1> DEFINE U == S \ {x}
<1>1. IsFiniteSet(U) /\ Below(v, w, U)
  BY FS_Subset DEF Below
<1>2. (\A i \in S : v[i] \in Nat) /\ (\A i \in S : w[i] \in Nat)
  BY DEF Below
<1>3. Total(v, S) = v[x] + Total(v, U)
  BY <1>2, SumWithout
<1>4. Total(w, S) = w[x] + Total(w, U)
  BY <1>2, SumWithout
<1> HIDE DEF U
<1>5. Total(v, U) \in Nat /\ Total(w, U) \in Nat /\ Total(v, U) <= Total(w, U)
  BY <1>1, SumsBelow
<1> QED BY <1>2, <1>3, <1>4, <1>5

---------------------------------------------------------------------------
(* Retrieval: what a leg gives an episode *)

\* A leg has each of its episodes, which are in S, once.
LegOK(hits, S) ==
    /\ hits \in Seq([id : S, weight : Nat])
    /\ DOMAIN hits = 1..Len(hits) /\ Len(hits) \in Nat
    /\ \A i \in 1..Len(hits) : hits[i].id \in S /\ hits[i].weight \in Nat \ {0}
    /\ \A i, j \in 1..Len(hits) : hits[i].id = hits[j].id => i = j

LEMMA SeqGrows ==
    ASSUME NEW A, NEW B, A \subseteq B, NEW s \in Seq(A)
    PROVE  s \in Seq(B)
OBVIOUS

LEMMA LegGrows ==
    ASSUME NEW hits, NEW S, NEW T, LegOK(hits, S), S \subseteq T
    PROVE  LegOK(hits, T)
<1>1. [id : S, weight : Nat] \subseteq [id : T, weight : Nat]
  OBVIOUS
<1>2. hits \in Seq([id : T, weight : Nat])
  <2> DEFINE A == [id : S, weight : Nat]
             B == [id : T, weight : Nat]
  <2>1. hits \in Seq(A) /\ A \subseteq B
    BY <1>1 DEF LegOK
  <2> HIDE DEF A, B
  <2>2. hits \in Seq(B)
    BY <2>1, SeqGrows
  <2> QED BY <2>2 DEF B
<1>3. \A i \in 1..Len(hits) : hits[i].id \in T /\ hits[i].weight \in Nat \ {0}
  BY DEF LegOK
<1> QED BY <1>2, <1>3 DEF LegOK

LEMMA LegLength ==
    ASSUME NEW hits, LegOK(hits, Episodes)
    PROVE  Len(hits) \in Nat /\ Len(hits) <= Cardinality(Episodes)
<1> DEFINE n == Len(hits)
           f == [i \in 1..n |-> hits[i].id]
<1>1. n \in Nat /\ IsFiniteSet(1..n) /\ Cardinality(1..n) = n
  BY FS_Interval DEF LegOK
<1>2. f \in Injection(1..n, Episodes)
  BY DEF LegOK, Injection, IsInjective
<1>3. IsFiniteSet(Episodes)
  BY RetrievalAssumption
<1> HIDE DEF n, f
<1>4. Cardinality(1..n) <= Cardinality(Episodes)
  BY <1>1, <1>2, <1>3, FS_Injection
<1> QED BY <1>1, <1>4 DEF n

Term(i) == Unit \div (RrfK + i)

LEMMA TermsDecrease ==
    /\ \A i \in 1..Cardinality(Episodes) : Term(i) \in Nat \ {0}
    /\ \A i, j \in 1..Cardinality(Episodes) : i < j => Term(j) < Term(i)
<1>0. Cardinality(Episodes) \in Nat /\ Unit \in Nat \ {0} /\ RrfK \in Nat
  BY RetrievalAssumption, FS_CardinalityType
<1>1. ASSUME NEW i \in 1..Cardinality(Episodes)
      PROVE  Term(i) \in Nat \ {0} /\ (RrfK + i) * Term(i) = Unit /\ RrfK + i \in Nat \ {0}
  <2> DEFINE a == RrfK + i
             q == Unit \div a
  <2>1. a \in Nat \ {0}
    BY <1>0
  <2>2. Unit % a = 0
    BY RetrievalAssumption
  <2> HIDE DEF a
  <2>3. Unit \in Int /\ q \in Int /\ Unit = a * q + (Unit % a)
    BY <1>0, <2>1
  <2>4. a * q = Unit
    BY <1>0, <2>1, <2>2, <2>3
  <2> HIDE DEF q
  <2>5. q > 0
    BY <1>0, <2>1, <2>3, <2>4
  <2> QED BY <2>1, <2>3, <2>4, <2>5 DEF Term, a, q
<1>2. ASSUME NEW i \in 1..Cardinality(Episodes), NEW j \in 1..Cardinality(Episodes), i < j
      PROVE  Term(j) < Term(i)
  <2> DEFINE a == RrfK + i
             b == RrfK + j
             p == Term(i)
             q == Term(j)
  <2>1. /\ a \in Nat \ {0} /\ b \in Nat \ {0} /\ p \in Nat \ {0} /\ q \in Nat \ {0}
        /\ a * p = b * q
    BY <1>1
  <2>2. a < b
    BY <1>0, <1>2
  <2> HIDE DEF a, b, p, q
  <2>3. SUFFICES ASSUME p <= q PROVE FALSE
    BY <2>1 DEF p, q
  <2>4. a * p <= a * q
    BY <2>1, <2>3
  <2>5. a * q < b * q
    BY <2>1, <2>2
  <2>6. a * p \in Nat /\ a * q \in Nat /\ b * q \in Nat
    BY <2>1
  <2> QED BY <2>1, <2>4, <2>5, <2>6
<1> QED BY <1>1, <1>2

LEMMA ContributionIs ==
    ASSUME NEW hits, LegOK(hits, Episodes)
    PROVE  /\ \A j \in 1..Len(hits) :
                Contribution(hits, hits[j].id) = hits[j].weight * Term(j)
           /\ \A e : (\A j \in 1..Len(hits) : hits[j].id # e) => Contribution(hits, e) = 0
<1> DEFINE w == [i \in DOMAIN hits |-> hits[i].weight * (Unit \div (RrfK + i))]
<1>1. \A i \in 1..Len(hits) : w[i] = hits[i].weight * Term(i)
  BY DEF LegOK, Term
<1>2. \A i \in 1..Len(hits) : w[i] \in Nat
  <2>1. \A i \in 1..Len(hits) : hits[i].weight \in Nat /\ Term(i) \in Nat
    <3>1. Len(hits) \in Nat /\ Len(hits) <= Cardinality(Episodes) /\ Cardinality(Episodes) \in Nat
      BY LegLength, RetrievalAssumption, FS_CardinalityType
    <3>2. \A i \in 1..Len(hits) : i \in 1..Cardinality(Episodes)
      BY <3>1
    <3> QED BY <3>2, TermsDecrease DEF LegOK
  <2>2. \A x, y \in Nat : x * y \in Nat
    OBVIOUS
  <2> QED BY <1>1, <2>1, <2>2
<1>3. \A e : Contribution(hits, e) = Total(w, {i \in DOMAIN hits : hits[i].id = e})
  BY DEF Contribution
<1> HIDE DEF w
<1>4. ASSUME NEW j \in 1..Len(hits)
      PROVE  Contribution(hits, hits[j].id) = hits[j].weight * Term(j)
  <2>1. {i \in DOMAIN hits : hits[i].id = hits[j].id} = {j}
    BY DEF LegOK
  <2>2. Total(w, {j}) = w[j]
    BY <1>2, SumOfOne
  <2> QED BY <1>1, <1>3, <2>1, <2>2
<1>5. ASSUME NEW e, \A j \in 1..Len(hits) : hits[j].id # e
      PROVE  Contribution(hits, e) = 0
  <2>1. {i \in DOMAIN hits : hits[i].id = e} = {}
    BY <1>5 DEF LegOK
  <2> QED BY <1>3, <2>1, SumOfNone
<1> QED BY <1>4, <1>5

LEMMA ContributionCounts ==
    ASSUME NEW hits, LegOK(hits, Episodes), NEW e
    PROVE  Contribution(hits, e) \in Nat
<1>1. CASE \A j \in 1..Len(hits) : hits[j].id # e
  <2>1. Contribution(hits, e) = 0
    BY <1>1, ContributionIs
  <2> QED BY <2>1
<1>2. CASE \E j \in 1..Len(hits) : hits[j].id = e
  <2>1. PICK j \in 1..Len(hits) : hits[j].id = e
    BY <1>2
  <2>2. Contribution(hits, e) = hits[j].weight * Term(j)
    BY <2>1, ContributionIs
  <2>3. hits[j].weight \in Nat /\ Term(j) \in Nat
    <3>1. Len(hits) \in Nat /\ Len(hits) <= Cardinality(Episodes) /\ Cardinality(Episodes) \in Nat
      BY LegLength, RetrievalAssumption, FS_CardinalityType
    <3>2. j \in 1..Cardinality(Episodes)
      BY <3>1
    <3> QED BY <3>2, TermsDecrease DEF LegOK
  <2>4. \A x, y \in Nat : x * y \in Nat
    OBVIOUS
  <2> QED BY <2>2, <2>3, <2>4
<1> QED BY <1>1, <1>2

\* In a leg that has f behind e, and does not count e's type less, e gets more.
LEMMA ContributionOrder ==
    ASSUME NEW hits, LegOK(hits, Episodes),
           NEW i \in 1..Len(hits), NEW j \in 1..Len(hits), i < j,
           hits[i].weight >= hits[j].weight
    PROVE  Contribution(hits, hits[j].id) < Contribution(hits, hits[i].id)
<1> DEFINE a == hits[i].weight
           b == hits[j].weight
           p == Term(i)
           q == Term(j)
<1>1. a \in Nat \ {0} /\ b \in Nat \ {0} /\ a >= b
  BY DEF LegOK
<1>2. p \in Nat \ {0} /\ q \in Nat \ {0} /\ q < p
  <2>1. Len(hits) \in Nat /\ Len(hits) <= Cardinality(Episodes) /\ Cardinality(Episodes) \in Nat
    BY LegLength, RetrievalAssumption, FS_CardinalityType
  <2>2. i \in 1..Cardinality(Episodes) /\ j \in 1..Cardinality(Episodes)
    BY <2>1
  <2> QED BY <2>2, TermsDecrease
<1>3. Contribution(hits, hits[i].id) = a * p /\ Contribution(hits, hits[j].id) = b * q
  BY ContributionIs
<1> HIDE DEF a, b, p, q
<1>4. b * q < b * p /\ b * p <= a * p
  BY <1>1, <1>2
<1>5. b * q \in Nat /\ b * p \in Nat /\ a * p \in Nat
  BY <1>1, <1>2
<1> QED BY <1>3, <1>4, <1>5

---------------------------------------------------------------------------
(* Retrieval: the fused order *)

LegsOK(legs, S) == DOMAIN legs = 1..4 /\ \A l \in 1..4 : LegOK(legs[l], S)
InLeg(leg, e) == \E i \in 1..Len(leg) : leg[i].id = e

LEMMA ScoreOrder ==
    ASSUME NEW legs, LegsOK(legs, Episodes), NEW e, NEW f, Preferred(legs, e, f),
           NEW m \in 1..4, InLeg(legs[m], f)
    PROVE  /\ Score(legs, e) \in Nat /\ Score(legs, f) \in Nat
           /\ Score(legs, f) < Score(legs, e)
           /\ InLeg(legs[m], e)
<1>0. DOMAIN legs = 1..4 /\ \A l \in 1..4 : LegOK(legs[l], Episodes)
  BY DEF LegsOK
<1> DEFINE v == [l \in DOMAIN legs |-> Contribution(legs[l], f)]
           w == [l \in DOMAIN legs |-> Contribution(legs[l], e)]
<1>1. \A l \in 1..4 : v[l] = Contribution(legs[l], f) /\ w[l] = Contribution(legs[l], e)
  BY <1>0
<1>2. Score(legs, f) = Total(v, 1..4) /\ Score(legs, e) = Total(w, 1..4)
  BY <1>0 DEF Score
<1> HIDE DEF v, w
<1>3. \A l \in 1..4 : v[l] \in Nat /\ w[l] \in Nat
  BY <1>0, <1>1, ContributionCounts
<1>4. ASSUME NEW l \in 1..4, NEW j \in 1..Len(legs[l]), legs[l][j].id = f
      PROVE  v[l] < w[l] /\ InLeg(legs[l], e)
  <2> DEFINE leg == legs[l]
  <2>1. LegOK(leg, Episodes) /\ DOMAIN leg = 1..Len(leg) /\ Len(leg) \in Nat
    BY <1>0 DEF LegOK
  <2>2. PICK i \in 1..(j - 1) : leg[i].id = e /\ leg[i].weight >= leg[j].weight
    BY <1>4, <2>1 DEF Preferred
  <2>3. i \in 1..Len(leg) /\ i < j
    BY <2>1
  <2> HIDE DEF leg
  <2>4. j \in 1..Len(leg) /\ leg[j].id = f
    BY <1>4 DEF leg
  <2>5. Contribution(leg, leg[j].id) < Contribution(leg, leg[i].id)
    BY <2>1, <2>2, <2>3, <2>4, ContributionOrder
  <2>6. Contribution(leg, f) < Contribution(leg, e)
    BY <2>2, <2>4, <2>5
  <2> QED BY <1>1, <2>2, <2>3, <2>6 DEF leg, InLeg
<1>5. ASSUME NEW l \in 1..4 PROVE v[l] <= w[l]
  <2>1. CASE \E j \in 1..Len(legs[l]) : legs[l][j].id = f
    <3>1. PICK j \in 1..Len(legs[l]) : legs[l][j].id = f
      BY <2>1
    <3>2. v[l] < w[l]
      BY <1>4, <3>1
    <3>3. v[l] \in Nat /\ w[l] \in Nat
      BY <1>3
    <3> QED BY <3>2, <3>3
  <2>2. CASE \A j \in 1..Len(legs[l]) : legs[l][j].id # f
    <3>1. v[l] = 0
      BY <1>0, <1>1, <2>2, ContributionIs
    <3> QED BY <1>3, <3>1
  <2> QED BY <2>1, <2>2
<1>6. IsFiniteSet(1..4) /\ Below(v, w, 1..4)
  <2>1. Below(v, w, 1..4)
    BY <1>3, <1>5 DEF Below
  <2>2. \A a, b \in Int : IsFiniteSet(a..b)
    BY FS_Interval
  <2>3. 1 \in Int /\ 4 \in Int
    OBVIOUS
  <2>4. IsFiniteSet(1..4)
    BY <2>2, <2>3, Zenon
  <2> QED BY <2>1, <2>4
<1>7. v[m] < w[m] /\ InLeg(legs[m], e)
  BY <1>4 DEF InLeg
<1>8. Total(v, 1..4) < Total(w, 1..4)
  BY <1>6, <1>7, SumsBelowOnce
<1>9. Total(v, 1..4) \in Nat /\ Total(w, 1..4) \in Nat
  BY <1>6, SumsBelow
<1> QED BY <1>2, <1>7, <1>8, <1>9

\* What a set of pairs puts first comes first, unless it is in Gone.
Respects(s, R, Gone) ==
    \A j \in 1..Len(s) : \A e \in Episodes :
        <<e, s[j]>> \in R => (e \in Gone \/ \E i \in 1..(j - 1) : s[i] = e)

Preference(legs) == {p \in Episodes \X Episodes : Preferred(legs, p[1], p[2])}

LEMMA SeqsOfSet ==
    ASSUME NEW S, IsFiniteSet(S), NEW f \in SetToSeqs(S)
    PROVE  Enumerates(f, S)
<1> DEFINE n == Cardinality(S)
<1>1. n \in Nat /\ f \in [1..n -> S] /\ \A i, j \in 1..n : i # j => f[i] # f[j]
  BY FS_CardinalityType DEF SetToSeqs
<1>2. IsFiniteSet(1..n) /\ Cardinality(1..n) = n
  BY <1>1, FS_Interval
<1>3. f \in Injection(1..n, S)
  BY <1>1 DEF Injection, IsInjective
<1>4. f \in Surjection(1..n, S)
  BY <1>2, <1>3, FS_Injection
<1>5. \A i \in S : \E k \in 1..n : f[k] = i
  BY <1>4 DEF Surjection
<1>6. f \in Seq(S) /\ Len(f) = n
  BY <1>1
<1> QED BY <1>1, <1>5, <1>6 DEF Enumerates

LEMMA FusionIs ==
    ASSUME NEW legs, NEW Known, Known \subseteq Episodes, LegsOK(legs, Known),
           NEW fused \in Fusions(legs)
    PROVE  /\ fused \in Seq(Known)
           /\ Respects(fused, Preference(legs), {})
           /\ \A x : (\E l \in 1..4 : InLeg(legs[l], x)) =>
                  \E k \in 1..Len(fused) : fused[k] = x
<1> DEFINE ids == UNION {Ids(legs[l]) : l \in DOMAIN legs}
           score == [e \in ids |-> Score(legs, e)]
<1>0. LegsOK(legs, Episodes) /\ DOMAIN legs = 1..4
  BY LegGrows DEF LegsOK
<1>1. \A l \in 1..4 : \A x : x \in Ids(legs[l]) <=> InLeg(legs[l], x)
  BY DEF LegsOK, LegOK, Ids, InLeg
<1>2. \A x : x \in ids <=> \E l \in 1..4 : InLeg(legs[l], x)
  BY <1>0, <1>1
<1>3. ids \subseteq Known
  <2>1. \A l \in 1..4 : \A x : InLeg(legs[l], x) => x \in Known
    <3> SUFFICES ASSUME NEW l \in 1..4, NEW x, InLeg(legs[l], x) PROVE x \in Known
      OBVIOUS
    <3>1. LegOK(legs[l], Known)
      BY DEF LegsOK
    <3> QED BY <3>1 DEF LegOK, InLeg
  <2> HIDE DEF ids
  <2> QED BY <1>2, <2>1
<1>4. IsFiniteSet(ids)
  BY <1>3, RetrievalAssumption, FS_Subset
<1>5. /\ fused \in SetToSeqs(ids)
      /\ \A i, j \in DOMAIN fused : i < j => score[fused[i]] >= score[fused[j]]
  BY DEF Fusions
<1>6. \A x \in ids : score[x] = Score(legs, x)
  OBVIOUS
<1> HIDE DEF ids, score
<1>7. Enumerates(fused, ids)
  BY <1>4, <1>5, SeqsOfSet
<1>8. /\ fused \in Seq(ids) /\ DOMAIN fused = 1..Len(fused) /\ Len(fused) \in Nat
      /\ \A x \in ids : \E k \in 1..Len(fused) : fused[k] = x
      /\ \A k \in 1..Len(fused) : fused[k] \in ids
  BY <1>7 DEF Enumerates
<1>9. ASSUME NEW j \in 1..Len(fused), NEW e \in Episodes, <<e, fused[j]>> \in Preference(legs)
      PROVE  \E i \in 1..(j - 1) : fused[i] = e
  <2> DEFINE f == fused[j]
  <2>1. Preferred(legs, e, f) /\ f \in ids
    BY <1>8, <1>9 DEF Preference
  <2>2. PICK m \in 1..4 : InLeg(legs[m], f)
    BY <1>2, <2>1
  <2> HIDE DEF f
  <2>4. /\ Score(legs, e) \in Nat /\ Score(legs, f) \in Nat
        /\ Score(legs, f) < Score(legs, e)
        /\ InLeg(legs[m], e)
    BY <1>0, <2>1, <2>2, ScoreOrder
  <2>5. e \in ids
    BY <1>2, <2>4
  <2>6. PICK i \in 1..Len(fused) : fused[i] = e
    BY <1>8, <2>5
  <2>7. score[fused[i]] = Score(legs, e) /\ score[fused[j]] = Score(legs, f)
    BY <1>6, <2>1, <2>5, <2>6 DEF f
  <2>8. i # j
    BY <2>4, <2>7
  <2>9. ~(j < i)
    <3>1. j < i => score[fused[j]] >= score[fused[i]]
      BY <1>5, <1>8
    <3>2. ~(Score(legs, f) >= Score(legs, e))
      BY <2>4
    <3> QED BY <2>7, <3>1, <3>2
  <2>10. i \in 1..(j - 1)
    BY <1>8, <2>8, <2>9
  <2> QED BY <2>6, <2>10
<1>10. fused \in Seq(Known)
  BY <1>3, <1>8
<1>11. Respects(fused, Preference(legs), {})
  BY <1>9 DEF Respects
<1>12. \A x : (\E l \in 1..4 : InLeg(legs[l], x)) => \E k \in 1..Len(fused) : fused[k] = x
  BY <1>2, <1>8
<1> QED BY <1>10, <1>11, <1>12

---------------------------------------------------------------------------
(* Retrieval: what cutting and filtering keep *)

LEMMA HeadIs ==
    ASSUME NEW S, NEW s \in Seq(S), NEW n \in Nat
    PROVE  /\ FirstOf(s, n) \in Seq(S) /\ Len(FirstOf(s, n)) \in Nat
           /\ Len(FirstOf(s, n)) <= Len(s) /\ Len(FirstOf(s, n)) <= n
           /\ n > 0 /\ Len(s) > 0 => Len(FirstOf(s, n)) > 0
           /\ \A i \in 1..Len(FirstOf(s, n)) : i \in 1..Len(s) /\ FirstOf(s, n)[i] = s[i]
<1> DEFINE m == IF Len(s) < n THEN Len(s) ELSE n
           t == SubSeq(s, 1, m)
<1>1. Len(s) \in Nat /\ m \in 0..Len(s) /\ m <= n /\ (n > 0 /\ Len(s) > 0 => m > 0)
  OBVIOUS
<1> HIDE DEF m
<1>2. t \in Seq(S) /\ Len(t) = m /\ \A i \in 1..m : i \in 1..Len(s) /\ t[i] = s[i]
  BY <1>1
<1>3. FirstOf(s, n) = t
  BY DEF FirstOf, m
<1> HIDE DEF t
<1> QED BY <1>1, <1>2, <1>3

LEMMA HeadRespects ==
    ASSUME NEW S, NEW s \in Seq(S), NEW n \in Nat, NEW R, NEW Gone, Respects(s, R, Gone)
    PROVE  Respects(FirstOf(s, n), R, Gone)
<1> DEFINE t == FirstOf(s, n)
<1>1. Len(s) \in Nat /\ Len(t) \in Nat /\ \A i \in 1..Len(t) : i \in 1..Len(s) /\ t[i] = s[i]
  BY HeadIs
<1> HIDE DEF t
<1>2. ASSUME NEW j \in 1..Len(t), NEW e \in Episodes, <<e, t[j]>> \in R, e \notin Gone
      PROVE  \E i \in 1..(j - 1) : t[i] = e
  <2>1. PICK i \in 1..(j - 1) : s[i] = e
    BY <1>1, <1>2 DEF Respects
  <2>2. i \in 1..Len(t)
    BY <1>1
  <2> QED BY <1>1, <2>1, <2>2
<1>3. Respects(t, R, Gone)
  BY <1>2 DEF Respects
<1> QED BY <1>3 DEF t

LEMMA AmongIs ==
    ASSUME NEW S, NEW s \in Seq(S), NEW T
    PROVE  /\ Among(s, T) \in Seq(S) /\ Len(Among(s, T)) \in Nat
           /\ \A i \in 1..Len(Among(s, T)) : Among(s, T)[i] \in S \cap T
           /\ \A i \in 1..Len(s) : s[i] \in T => \E k \in 1..Len(Among(s, T)) : Among(s, T)[k] = s[i]
           /\ (\A i, j \in 1..Len(s) : s[i] = s[j] => i = j) =>
                 \A i, j \in 1..Len(Among(s, T)) : Among(s, T)[i] = Among(s, T)[j] => i = j
           /\ \A R, Gone : Respects(s, R, Gone) =>
                 Respects(Among(s, T), R, Gone \union (S \ T))
<1> DEFINE P == {i \in DOMAIN s : s[i] \in T}
           t == Among(s, T)
           at == Ascending(P)
           n == Len(t)
<1>1. P \subseteq DOMAIN s /\ DOMAIN s = 1..Len(s) /\ Len(s) \in Nat /\ \A i \in 1..Len(s) : s[i] \in S
  OBVIOUS
<1>2. \A i : i \in P <=> (i \in 1..Len(s) /\ s[i] \in T)
  BY <1>1
<1>3. t = PartAt(s, P)
  BY DEF Among
<1> HIDE DEF P, t, at
<1>4. t \in Seq(S) /\ PartBy(t, Ascending(P), s, P)
  BY <1>1, <1>3, PartType
<1>5. Lists(at, n, P) /\ \A k \in 1..n : at[k] \in P /\ t[k] = s[at[k]]
  BY <1>4 DEF PartBy, at
<1>6. n \in Nat /\ at \in [1..n -> P]
  BY <1>5, ListFacts
<1>7. \A k, l \in 1..n : at[k] = at[l] => k = l
  BY <1>5, ListFacts
<1>8. \A k, l \in 1..n : at[k] < at[l] <=> k < l
  BY <1>5, ListFacts
<1>9. \A i \in P : \E k \in 1..n : at[k] = i
  BY <1>5, ListFacts
<1> HIDE DEF n
<1>10. \A i \in 1..n : t[i] \in S \cap T
  BY <1>1, <1>2, <1>5
<1>11. \A i \in 1..Len(s) : s[i] \in T => \E k \in 1..n : t[k] = s[i]
  BY <1>2, <1>5, <1>9
<1>12. ASSUME \A i, j \in 1..Len(s) : s[i] = s[j] => i = j
       PROVE  \A i, j \in 1..n : t[i] = t[j] => i = j
  BY <1>2, <1>5, <1>7, <1>12
<1>13. ASSUME NEW R, NEW Gone, Respects(s, R, Gone),
              NEW j \in 1..n, NEW e \in Episodes, <<e, t[j]>> \in R, e \notin Gone \union (S \ T)
       PROVE  \E i \in 1..(j - 1) : t[i] = e
  <2> DEFINE a == at[j]
  <2>1. a \in 1..Len(s) /\ t[j] = s[a]
    BY <1>2, <1>5
  <2>2. PICK i \in 1..(a - 1) : s[i] = e
    BY <1>13, <2>1 DEF Respects
  <2>3. i \in 1..Len(s) /\ i < a
    BY <1>1, <2>1
  <2>4. e \in T
    BY <1>1, <1>13, <2>2, <2>3
  <2>5. PICK k \in 1..n : at[k] = i
    BY <1>2, <1>9, <2>2, <2>3, <2>4
  <2>6. k < j
    BY <1>8, <2>3, <2>5
  <2>7. k \in 1..(j - 1) /\ t[k] = e
    BY <1>5, <1>6, <2>2, <2>5, <2>6
  <2> QED BY <2>7
<1>14. \A R, Gone : Respects(s, R, Gone) => Respects(t, R, Gone \union (S \ T))
  <2> SUFFICES ASSUME NEW R, NEW Gone, Respects(s, R, Gone)
               PROVE  Respects(t, R, Gone \union (S \ T))
    OBVIOUS
  <2>1. \A j \in 1..n : \A e \in Episodes :
            (<<e, t[j]>> \in R /\ e \notin Gone \union (S \ T)) => \E i \in 1..(j - 1) : t[i] = e
    BY <1>13
  <2>2. n = Len(t)
    BY DEF n
  <2> HIDE DEF n
  <2> QED BY <2>1, <2>2 DEF Respects
<1> QED BY <1>4, <1>6, <1>10, <1>11, <1>12, <1>14 DEF t, n

---------------------------------------------------------------------------
(* Retrieval: what each leg finds *)

LEMMA WeightsCount ==
    /\ \A e \in Episodes : Weight[e] \in Nat \ {0}
    /\ Untyped \in Nat \ {0}
<1>1. \A x \in {"task", "priority", "procedural", "episodic", "semantic"} : Weights[x] \in Nat \ {0}
  BY DEF Weights
<1>2. \A found : Classify(found) \in {"task", "priority", "procedural", "episodic", "semantic"}
  BY DEF Classify
<1>3. ASSUME NEW e \in Episodes PROVE Weight[e] \in Nat \ {0}
  <2>1. Weight[e] = Weights[Classify(Signals[e])]
    BY DEF Weight
  <2> QED BY <1>1, <1>2, <2>1
<1> QED BY <1>1, <1>3 DEF Untyped

Weighing(w, S) == \A e \in S : w[e] \in Nat \ {0}

LEMMA HitsAreLeg ==
    ASSUME NEW S, NEW order \in Seq(S), NEW w, Weighing(w, S),
           \A i, j \in 1..Len(order) : order[i] = order[j] => i = j
    PROVE  /\ LegOK(Hits(order, w), S)
           /\ Len(Hits(order, w)) = Len(order)
<1> DEFINE hits == Hits(order, w)
<1>1. DOMAIN order = 1..Len(order) /\ Len(order) \in Nat /\ \A i \in 1..Len(order) : order[i] \in S
  OBVIOUS
<1>2. hits = [i \in 1..Len(order) |-> [id |-> order[i], weight |-> w[order[i]]]]
  BY <1>1 DEF Hits
<1> HIDE DEF hits
<1>3. DOMAIN hits = 1..Len(order) /\ Len(hits) = Len(order)
  BY <1>1, <1>2
<1>4. \A i \in 1..Len(order) : hits[i].id = order[i] /\ hits[i].weight = w[order[i]]
  BY <1>2
<1>5. \A i \in 1..Len(order) : hits[i] \in [id : S, weight : Nat]
  BY <1>1, <1>2 DEF Weighing
<1>6. hits \in Seq([id : S, weight : Nat])
  <2> DEFINE H == [id : S, weight : Nat]
  <2>1. (\A i \in 1..Len(order) : hits[i] \in H) /\ hits = [i \in 1..Len(order) |-> hits[i]]
    BY <1>2, <1>5
  <2> HIDE DEF H
  <2>2. hits \in Seq(H)
    BY <1>1, <2>1
  <2> QED BY <2>2 DEF H
<1>7. LegOK(hits, S)
  <2>1. \A i \in 1..Len(hits) : hits[i].id \in S /\ hits[i].weight \in Nat \ {0}
    BY <1>1, <1>3, <1>4 DEF Weighing
  <2>2. \A i, j \in 1..Len(hits) : hits[i].id = hits[j].id => i = j
    BY <1>3, <1>4
  <2>3. DOMAIN hits = 1..Len(hits) /\ Len(hits) \in Nat
    BY <1>1, <1>3
  <2> QED BY <1>6, <2>1, <2>2, <2>3 DEF LegOK
<1> QED BY <1>3, <1>7 DEF hits

LEMMA NoLeg == \A S : LegOK(<<>>, S)
BY DEF LegOK

\* The first of a sequence without repetitions make a leg.
LEMMA HeadIsLeg ==
    ASSUME NEW S, NEW s \in Seq(S), NEW n \in Nat, NEW w, Weighing(w, S),
           \A i, j \in 1..Len(s) : s[i] = s[j] => i = j
    PROVE  /\ LegOK(Hits(FirstOf(s, n), w), S)
           /\ n > 0 /\ Len(s) > 0 => Len(Hits(FirstOf(s, n), w)) > 0
<1> DEFINE t == FirstOf(s, n)
<1>1. t \in Seq(S) /\ Len(t) \in Nat /\ (n > 0 /\ Len(s) > 0 => Len(t) > 0)
  BY HeadIs
<1>2. \A i \in 1..Len(t) : i \in 1..Len(s) /\ t[i] = s[i]
  BY HeadIs
<1> HIDE DEF t
<1>3. \A i, j \in 1..Len(t) : t[i] = t[j] => i = j
  BY <1>2
<1>4. LegOK(Hits(t, w), S) /\ Len(Hits(t, w)) = Len(t)
  BY <1>1, <1>3, HitsAreLeg
<1> QED BY <1>1, <1>4 DEF t

LEMMA QueriesAre ==
    ASSUME NEW q \in Queries
    PROVE  /\ q \in Query
           /\ q.near \in Seq(Episodes) /\ q.match \in Seq(Episodes)
           /\ \A i, j \in 1..Len(q.near) : q.near[i] = q.near[j] => i = j
           /\ \A i, j \in 1..Len(q.match) : q.match[i] = q.match[j] => i = j
           /\ \A e \in Episodes : \E i \in 1..Len(q.near) : q.near[i] = e
<1>1. q \in Query /\ IsInjective(q.near) /\ ToSet(q.near) = Episodes /\ IsInjective(q.match)
  BY RetrievalAssumption
<1>2. q.near \in Seq(Episodes) /\ q.match \in Seq(Episodes)
  BY <1>1 DEF Query
<1>3. DOMAIN q.near = 1..Len(q.near) /\ DOMAIN q.match = 1..Len(q.match)
  BY <1>2
<1> QED BY <1>1, <1>2, <1>3 DEF IsInjective, ToSet

LEMMA NearestIsLeg ==
    ASSUME NEW q \in Queries, vec \subseteq Episodes
    PROVE  /\ LegOK(Nearest(q), vec)
           /\ VectorK > 0 /\ vec # {} => Len(Nearest(q)) > 0
<1> DEFINE near == q.near
           s == Among(near, vec)
<1>1. /\ near \in Seq(Episodes) /\ \A i, j \in 1..Len(near) : near[i] = near[j] => i = j
      /\ \A e \in Episodes : \E i \in 1..Len(near) : near[i] = e
  BY QueriesAre
<1>2. Nearest(q) = Hits(FirstOf(s, VectorK), Weight)
  BY DEF Nearest
<1> HIDE DEF near
<1>3. s \in Seq(Episodes) /\ Len(s) \in Nat /\ \A i \in 1..Len(s) : s[i] \in Episodes \cap vec
  BY <1>1, AmongIs
<1>4. \A i, j \in 1..Len(s) : s[i] = s[j] => i = j
  BY <1>1, AmongIs
<1>5. \A i \in 1..Len(near) : near[i] \in vec => \E k \in 1..Len(s) : s[k] = near[i]
  BY <1>1, AmongIs
<1> HIDE DEF s
<1>6. ASSUME vec # {} PROVE Len(s) > 0
  <2>1. PICK e \in vec : e \in Episodes
    BY <1>6
  <2>2. PICK i \in 1..Len(near) : near[i] = e
    BY <1>1, <2>1
  <2>3. PICK k \in 1..Len(s) : s[k] = e
    BY <1>5, <2>1, <2>2
  <2> QED BY <1>3, <2>3
<1>7. s \in Seq(vec) /\ VectorK \in Nat /\ Weighing(Weight, vec)
  <2>1. s \in Seq(vec)
    BY <1>3
  <2>2. VectorK \in Nat
    BY RetrievalAssumption
  <2>3. Weighing(Weight, vec)
    BY WeightsCount DEF Weighing
  <2> QED BY <2>1, <2>2, <2>3
<1>8. /\ LegOK(Hits(FirstOf(s, VectorK), Weight), vec)
      /\ VectorK > 0 /\ Len(s) > 0 => Len(Hits(FirstOf(s, VectorK), Weight)) > 0
  BY <1>4, <1>7, HeadIsLeg
<1> QED BY <1>2, <1>6, <1>8

LEMMA MatchingIsLeg ==
    ASSUME NEW q \in Queries, rows \subseteq Episodes
    PROVE  LegOK(Matching(q), rows)
<1> DEFINE match == q.match
           s == Among(match, rows)
           w == [e \in Episodes |-> IF e \in typed THEN Weight[e] ELSE Untyped]
<1>1. match \in Seq(Episodes) /\ \A i, j \in 1..Len(match) : match[i] = match[j] => i = j
  BY QueriesAre
<1>2. Matching(q) = Hits(FirstOf(s, LexicalK), w)
  BY DEF Matching
<1>3. Weighing(w, rows)
  BY WeightsCount DEF Weighing
<1> HIDE DEF match, w
<1>4. /\ s \in Seq(Episodes) /\ Len(s) \in Nat /\ \A i \in 1..Len(s) : s[i] \in Episodes \cap rows
      /\ (\A i, j \in 1..Len(match) : match[i] = match[j] => i = j) =>
            \A i, j \in 1..Len(s) : s[i] = s[j] => i = j
  <2>1. match \in Seq(Episodes)
    BY <1>1
  <2> QED BY <2>1, AmongIs
<1>5. \A i, j \in 1..Len(s) : s[i] = s[j] => i = j
  BY <1>1, <1>4
<1> HIDE DEF s
<1>6. s \in Seq(rows) /\ LexicalK \in Nat
  <2>1. s \in Seq(rows)
    BY <1>4
  <2>2. LexicalK \in Nat
    BY RetrievalAssumption
  <2> QED BY <2>1, <2>2
<1>7. LegOK(Hits(FirstOf(s, LexicalK), w), rows)
  BY <1>3, <1>5, <1>6, HeadIsLeg
<1> QED BY <1>2, <1>7

\* Two sets of episodes, one behind the other, each in any order.
LEMMA PairIsLeg ==
    ASSUME NEW S, NEW A, NEW B, IsFiniteSet(S), A \subseteq S, B \subseteq S,
           A \cap B = {}, NEW s \in InTurn(A, B),
           NEW n \in Nat, NEW w, Weighing(w, S)
    PROVE  LegOK(Hits(FirstOf(s, n), w), S)
<1>1. IsFiniteSet(A) /\ IsFiniteSet(B)
  BY FS_Subset
<1>2. PICK p \in SetToSeqs(A) \X SetToSeqs(B) : s = p[1] \o p[2]
  BY DEF InTurn
<1> DEFINE one == p[1]
           two == p[2]
<1>3. one \in SetToSeqs(A) /\ two \in SetToSeqs(B) /\ s = one \o two
  BY <1>2
<1> HIDE DEF one, two
<1>4. Enumerates(one, A) /\ Enumerates(two, B)
  BY <1>1, <1>3, SeqsOfSet
<1>5. Enumerates(s, A \union B)
  BY <1>3, <1>4, JoinEnumerates
<1>6. s \in Seq(S) /\ \A i, j \in 1..Len(s) : s[i] = s[j] => i = j
  <2>1. s \in Seq(A \union B) /\ A \union B \subseteq S
    BY <1>5 DEF Enumerates
  <2>2. s \in Seq(S)
    BY <2>1
  <2> QED BY <1>5, <2>2 DEF Enumerates
<1> QED BY <1>6, HeadIsLeg

LEMMA WalksAreLegs ==
    ASSUME NEW q, NEW hits \in Walks(q), nodes \subseteq Episodes
    PROVE  LegOK(hits, nodes)
<1> DEFINE one == Limited(Naming(q), [e \in nodes |-> Cardinality(NamedBy(q, e))], GraphK)
           two == Limited(Beside(q), [e \in nodes |-> 1], GraphK)
           W(first, second) == {Hits(FirstOf(s, GraphK), Weight) : s \in InTurn(first, second \ first)}
<1>1. \A T \in one \union two : T \subseteq nodes
  BY DEF Limited, Naming, Beside
<1>2. Walks(q) = UNION {W(first, second) : first \in one, second \in two}
  BY DEF Walks
<1>3. PICK first \in one, second \in two : hits \in W(first, second)
  <2> HIDE DEF one, two, W
  <2> QED BY <1>2
<1> DEFINE rest == second \ first
<1>5. first \subseteq nodes /\ rest \subseteq nodes /\ first \cap rest = {}
  <2> HIDE DEF one, two
  <2> QED BY <1>1
<1>6. PICK s \in InTurn(first, rest) : hits = Hits(FirstOf(s, GraphK), Weight)
  BY <1>3
<1> HIDE DEF one, two, W, rest
<1>4. IsFiniteSet(nodes) /\ GraphK \in Nat /\ Weighing(Weight, nodes)
  BY WeightsCount, RetrievalAssumption, FS_Subset DEF Weighing
<1> QED BY <1>4, <1>5, <1>6, PairIsLeg

LEMMA ChainsAreLegs ==
    ASSUME NEW seeds, NEW edges, edges \subseteq after, after \subseteq nodes \X nodes,
           nodes \subseteq Episodes, NEW hits \in Chains(seeds, edges)
    PROVE  LegOK(hits, nodes)
<1> DEFINE one == NextTo(seeds, edges) \ seeds
           two == NextTo(one, edges) \ (seeds \union one)
           w == [e \in Episodes |-> Untyped]
<1>1. PICK s \in InTurn(one, two) : hits = Hits(FirstOf(s, ChainK), w)
  BY DEF Chains
<1>2. \A S : NextTo(S, edges) \subseteq nodes
  BY DEF NextTo
<1>3. one \subseteq nodes /\ two \subseteq nodes /\ one \cap two = {}
  BY <1>2
<1>4. Weighing(w, nodes)
  BY WeightsCount DEF Weighing
<1> HIDE DEF one, two, w
<1>5. IsFiniteSet(nodes) /\ ChainK \in Nat
  BY RetrievalAssumption, FS_Subset
<1> QED BY <1>1, <1>3, <1>4, <1>5, PairIsLeg

---------------------------------------------------------------------------
(* Retrieval: what fits *)

LEMMA LargestOf ==
    ASSUME NEW b \in Nat, NEW S, S \subseteq 0..b, S # {}
    PROVE  Max(S) \in S /\ \A k \in S : k <= Max(S)
<1> DEFINE T == {b - k : k \in S}
<1>1. T \subseteq Nat /\ T # {}
  <2>1. \A k \in S : b - k \in Nat
    OBVIOUS
  <2> QED BY <2>1
<1>2. PICK n \in T : \A k \in T : ~(k < n)
  <2> HIDE DEF T
  <2> QED BY <1>1, LeastNumber
<1>3. PICK m \in S : n = b - m
  BY <1>2
<1>4. \A k \in S : k <= m
  <2> SUFFICES ASSUME NEW k \in S PROVE k <= m
    OBVIOUS
  <2>1. ~(b - k < n) /\ k \in 0..b /\ m \in 0..b
    BY <1>2
  <2> QED BY <1>3, <2>1
<1>5. \A k \in S : m >= k
  BY <1>4
<1> DEFINE l == Max(S)
<1>6. l \in S /\ \A k \in S : l >= k
  BY <1>5 DEF Max
<1> HIDE DEF l
<1>7. l \in S /\ \A k \in S : k <= l
  BY <1>6
<1> QED BY <1>7 DEF l

LEMMA FittingIs ==
    ASSUME NEW s \in Seq(Episodes)
    PROVE  /\ \E n \in Nat : Fitting(s) = FirstOf(s, n)
           /\ (Len(s) > 0 /\ Tokens[s[1]] <= Budget) => Len(Fitting(s)) > 0
<1> DEFINE Fit == {n \in 0..Len(s) : SizeOf(FirstOf(s, n)) <= Budget}
<1>1. Len(s) \in Nat /\ Budget \in Nat
  BY RetrievalAssumption
<1>2. \A n \in Nat : FirstOf(s, n) \in Seq(Episodes) /\ Len(FirstOf(s, n)) \in Nat
  BY HeadIs
<1>3. 0 \in Fit
  <2> DEFINE t == FirstOf(s, 0)
             w == [i \in DOMAIN t |-> Tokens[t[i]]]
  <2>1. Len(t) <= 0 /\ t \in Seq(Episodes) /\ Len(t) \in Nat
    BY HeadIs
  <2> HIDE DEF t
  <2>2. DOMAIN t = {}
    BY <2>1
  <2>3. SizeOf(t) = Total(w, DOMAIN t)
    BY DEF SizeOf
  <2> HIDE DEF w
  <2>4. SizeOf(t) = 0
    BY <2>2, <2>3, SumOfNone
  <2> QED BY <1>1, <2>4 DEF t
<1>4. Fit \subseteq 0..Len(s) /\ Fit # {}
  BY <1>3
<1> DEFINE m == Max(Fit)
<1>5. Fitting(s) = FirstOf(s, m)
  BY DEF Fitting
<1>6. ASSUME Len(s) > 0, Tokens[s[1]] <= Budget PROVE 1 \in Fit
  <2> DEFINE t == FirstOf(s, 1)
             w == [i \in DOMAIN t |-> Tokens[t[i]]]
  <2>1. /\ Len(t) <= 1 /\ t \in Seq(Episodes) /\ Len(t) \in Nat /\ Len(t) > 0
        /\ \A i \in 1..Len(t) : t[i] = s[i]
    BY <1>1, <1>6, HeadIs
  <2> HIDE DEF t
  <2>2. Len(t) = 1 /\ DOMAIN t = {1} /\ t[1] = s[1] /\ s[1] \in Episodes
    <3>1. Len(t) = 1
      <4>1. \A n \in Nat : n <= 1 /\ n > 0 => n = 1
        OBVIOUS
      <4> QED BY <2>1, <4>1
    <3>2. DOMAIN t = 1..Len(t) /\ 1 \in 1..Len(t) /\ 1..1 = {1} /\ 1 \in 1..Len(s)
      BY <1>1, <1>6, <2>1, <3>1
    <3>3. s[1] \in Episodes
      BY <3>2
    <3> QED BY <2>1, <3>1, <3>2, <3>3
  <2>3. SizeOf(t) = Total(w, DOMAIN t)
    BY DEF SizeOf
  <2>4. w[1] = Tokens[s[1]]
    BY <2>2
  <2>5. Tokens[s[1]] \in Nat
    BY <2>2, RetrievalAssumption
  <2> HIDE DEF w
  <2>6. Total(w, {1}) = w[1]
    BY <2>4, <2>5, SumOfOne
  <2>7. SizeOf(t) <= Budget
    BY <1>6, <2>2, <2>3, <2>4, <2>6
  <2> QED BY <1>1, <1>6, <2>7 DEF t
<1> HIDE DEF Fit
<1>7. m \in Fit /\ \A k \in Fit : k <= m
  BY <1>1, <1>4, LargestOf
<1> HIDE DEF m
<1>8. m \in Nat
  BY <1>1, <1>4, <1>7
<1>9. ASSUME Len(s) > 0, Tokens[s[1]] <= Budget PROVE Len(Fitting(s)) > 0
  <2>1. m > 0
    BY <1>6, <1>7, <1>8, <1>9
  <2>2. m > 0 /\ Len(s) > 0 => Len(FirstOf(s, m)) > 0
    BY <1>8, HeadIs
  <2> QED BY <1>5, <1>9, <2>1, <2>2
<1> QED BY <1>5, <1>8, <1>9

---------------------------------------------------------------------------
(* Retrieval: the invariant *)

\* Every episode there has been.
Seen == rows \union deleted

StoreOK ==
    /\ rows \subseteq Episodes /\ deleted \subseteq Episodes /\ rows \cap deleted = {}
    /\ vec \subseteq Seen /\ nodes \subseteq Seen /\ after \subseteq nodes \X nodes
    /\ worker \in [at : {"get", "insert", "type", "graph"}, episode : Episodes \union {NoEpisode}]
    /\ worker.at # "get" => worker.episode \in Seen

\* The legs lead to what there was; what is kept and shown of them respects
\* their order, but for what is gone.
RequestOK ==
    /\ req.pc \notin {"idle", "done"} => req.query \in Queries
    /\ LegsOK(Legs(req), Seen)
    /\ req.kept \in Seq(Seen) /\ req.block \in Seq(Seen)
    /\ req.pc \notin {"render", "done"} => req.kept = <<>>
    /\ req.pc # "done" => req.block = <<>>
    /\ Respects(req.kept, Preference(Legs(req)), deleted)
    /\ Respects(req.block, Preference(Legs(req)), deleted)

Favourable ==
    /\ req.found /\ req.calm /\ deleted = {} /\ VectorK > 0 /\ TopK > 0
    /\ \A e \in rows : Tokens[e] <= Budget

\* How far a request that finds something has got.
FoundSoFar ==
    /\ req.pc = "vector" /\ req.found /\ req.calm => vec # {}
    /\ req.pc \in {"graph", "lexical", "causal", "trim"} /\ Favourable => req.v # <<>>
    /\ req.pc = "render" /\ Favourable => req.kept # <<>>
    /\ req.pc = "done" /\ Favourable => req.block # <<>>

RetrievalInv == req \in Requests /\ StoreOK /\ RequestOK /\ FoundSoFar

LEMMA RespectsNothing == \A R, Gone : Respects(<<>>, R, Gone)
BY DEF Respects

LEMMA RespectsMore ==
    ASSUME NEW s, NEW R, NEW Gone, NEW More, Gone \subseteq More, Respects(s, R, Gone)
    PROVE  Respects(s, R, More)
BY DEF Respects

LEMMA LegsGrow ==
    ASSUME NEW legs, NEW S, NEW T, LegsOK(legs, S), S \subseteq T
    PROVE  LegsOK(legs, T)
BY LegGrows DEF LegsOK

LEMMA EmptyLegs == \A S : LegsOK(<<<<>>, <<>>, <<>>, <<>>>>, S)
<1> SUFFICES ASSUME NEW S PROVE LegsOK(<<<<>>, <<>>, <<>>, <<>>>>, S)
  OBVIOUS
<1> DEFINE legs == <<<<>>, <<>>, <<>>, <<>>>>
<1>1. DOMAIN legs = 1..4 /\ \A l \in 1..4 : legs[l] = <<>>
  OBVIOUS
<1> HIDE DEF legs
<1>2. LegsOK(legs, S)
  BY <1>1, NoLeg DEF LegsOK
<1> QED BY <1>2 DEF legs

\* No episode is ever forgotten, and what is deleted stays so.
Grows == Seen \subseteq Seen' /\ deleted \subseteq deleted'

\* The other actors leave the request alone, but for what it knows of them.
Quiet ==
    /\ req' \in Requests
    /\ req'.pc = req.pc /\ req'.query = req.query /\ Legs(req') = Legs(req) /\ req'.v = req.v
    /\ req'.kept = req.kept /\ req'.block = req.block /\ req'.found = req.found
    /\ req'.calm => (req.calm /\ (vec # {} => vec' # {}))

LEMMA QuietStep ==
    ASSUME RetrievalInv, StoreOK', Grows, Quiet
    PROVE  RetrievalInv'
<1>1. req'.pc \notin {"idle", "done"} => req'.query \in Queries
  BY DEF RetrievalInv, RequestOK, Quiet
<1>2. LegsOK(Legs(req'), Seen')
  BY LegsGrow DEF RetrievalInv, RequestOK, Quiet, Grows
<1>3. req'.kept \in Seq(Seen') /\ req'.block \in Seq(Seen')
  BY SeqGrows DEF RetrievalInv, RequestOK, Quiet, Grows
<1>4. /\ req'.pc \notin {"render", "done"} => req'.kept = <<>>
      /\ req'.pc # "done" => req'.block = <<>>
  BY DEF RetrievalInv, RequestOK, Quiet
<1>5. /\ Respects(req'.kept, Preference(Legs(req')), deleted')
      /\ Respects(req'.block, Preference(Legs(req')), deleted')
  BY RespectsMore DEF RetrievalInv, RequestOK, Quiet, Grows
<1>6. RequestOK'
  BY <1>1, <1>2, <1>3, <1>4, <1>5 DEF RequestOK
<1>7. Favourable' => Favourable
  <2> SUFFICES ASSUME Favourable' PROVE Favourable
    OBVIOUS
  <2>1. req'.found /\ req'.calm /\ deleted' = {} /\ VectorK > 0 /\ TopK > 0
        /\ \A e \in rows' : Tokens[e] <= Budget
    BY DEF Favourable
  <2>2. deleted = {} /\ rows \subseteq rows'
    BY <2>1 DEF Grows, Seen
  <2>3. req.found /\ req.calm
    BY <2>1 DEF Quiet
  <2> QED BY <2>1, <2>2, <2>3 DEF Favourable
<1>8. req'.pc = "vector" /\ req'.found /\ req'.calm => vec' # {}
  BY DEF RetrievalInv, FoundSoFar, Quiet
<1>9. /\ req'.pc \in {"graph", "lexical", "causal", "trim"} /\ Favourable' => req'.v # <<>>
      /\ req'.pc = "render" /\ Favourable' => req'.kept # <<>>
      /\ req'.pc = "done" /\ Favourable' => req'.block # <<>>
  BY <1>7 DEF RetrievalInv, FoundSoFar, Quiet
<1>10. FoundSoFar'
  BY <1>8, <1>9 DEF FoundSoFar
<1> QED BY <1>6, <1>10 DEF RetrievalInv, Quiet

LEMMA QuietIfSame ==
    ASSUME RetrievalInv, req' = req, vec # {} => vec' # {}
    PROVE  Quiet
<1>1. req' \in Requests /\ req'.pc = req.pc /\ req'.query = req.query /\ Legs(req') = Legs(req)
  BY DEF RetrievalInv
<1>2. /\ req'.v = req.v /\ req'.kept = req.kept /\ req'.block = req.block /\ req'.found = req.found
      /\ req'.calm = req.calm
  OBVIOUS
<1> QED BY <1>1, <1>2 DEF Quiet

LEMMA QuietIfCalmer ==
    ASSUME RetrievalInv, NEW calm \in BOOLEAN, req' = [req EXCEPT !.calm = calm],
           calm => (req.calm /\ (vec # {} => vec' # {}))
    PROVE  Quiet
<1>1. req' \in Requests
  BY DEF RetrievalInv, Requests
<1>2. /\ req'.pc = req.pc /\ req'.query = req.query
      /\ req'.v = req.v /\ req'.g = req.g /\ req'.b = req.b /\ req'.c = req.c
      /\ req'.kept = req.kept /\ req'.block = req.block /\ req'.found = req.found
      /\ req'.calm = calm
  BY DEF RetrievalInv, Requests
<1>3. Legs(req') = Legs(req)
  BY <1>2 DEF Legs
<1> QED BY <1>1, <1>2, <1>3 DEF Quiet

---------------------------------------------------------------------------
(* Retrieval: the other actors *)

LEMMA ArchiveStep ==
    ASSUME RetrievalInv, NEW e \in Episodes, Archive(e)
    PROVE  RetrievalInv'
<1>1. /\ e \notin rows \union deleted /\ rows' = rows \union {e}
      /\ deleted' = deleted /\ vec' = vec /\ nodes' = nodes /\ after' = after
      /\ worker' = worker /\ req' = req
  BY DEF Archive
<1>2. StoreOK'
  BY <1>1 DEF RetrievalInv, StoreOK, Seen
<1>3. Grows
  BY <1>1 DEF Grows, Seen
<1>4. Quiet
  BY <1>1, QuietIfSame
<1> QED BY <1>2, <1>3, <1>4, QuietStep

LEMMA DeleteVecStep ==
    ASSUME RetrievalInv, NEW e \in Episodes, DeleteVec(e)
    PROVE  RetrievalInv'
<1>1. /\ e \in rows /\ rows' = rows /\ deleted' = deleted /\ nodes' = nodes /\ after' = after
      /\ worker' = [at |-> "insert", episode |-> e] /\ vec' = vec \ {e}
      /\ req' = [req EXCEPT !.calm = req.calm /\ e \notin vec]
  BY DEF DeleteVec
<1>2. StoreOK'
  BY <1>1 DEF RetrievalInv, StoreOK, Seen
<1>3. Grows
  BY <1>1 DEF Grows, Seen
<1> DEFINE calm == req.calm /\ e \notin vec
<1>4. calm \in BOOLEAN /\ (calm => (req.calm /\ (vec # {} => vec' # {})))
  <2>1. e \notin vec => vec' = vec
    BY <1>1
  <2> QED BY <2>1
<1>5. req' = [req EXCEPT !.calm = calm]
  BY <1>1
<1> HIDE DEF calm
<1>6. Quiet
  BY <1>4, <1>5, QuietIfCalmer
<1> QED BY <1>2, <1>3, <1>6, QuietStep

LEMMA InsertVecStep ==
    ASSUME RetrievalInv, InsertVec
    PROVE  RetrievalInv'
<1>1. /\ worker.at = "insert" /\ vec' = vec \union {worker.episode}
      /\ worker' = [worker EXCEPT !.at = "type"]
      /\ rows' = rows /\ deleted' = deleted /\ nodes' = nodes /\ after' = after /\ req' = req
  BY DEF InsertVec
<1>2. worker.episode \in Seen
  BY <1>1 DEF RetrievalInv, StoreOK
<1>3. StoreOK'
  BY <1>1, <1>2 DEF RetrievalInv, StoreOK, Seen
<1>4. Grows
  BY <1>1 DEF Grows, Seen
<1>5. Quiet
  BY <1>1, QuietIfSame
<1> QED BY <1>3, <1>4, <1>5, QuietStep

LEMMA UpdateEpisodeStep ==
    ASSUME RetrievalInv, UpdateEpisode
    PROVE  RetrievalInv'
<1>1. /\ worker.at = "type" /\ worker' = [worker EXCEPT !.at = "graph"] /\ vec' = vec
      /\ rows' = rows /\ deleted' = deleted /\ nodes' = nodes /\ after' = after /\ req' = req
  BY DEF UpdateEpisode
<1>2. StoreOK'
  BY <1>1 DEF RetrievalInv, StoreOK, Seen
<1>3. Grows
  BY <1>1 DEF Grows, Seen
<1>4. Quiet
  BY <1>1, QuietIfSame
<1> QED BY <1>2, <1>3, <1>4, QuietStep

LEMMA LinkNodeStep ==
    ASSUME RetrievalInv, LinkNode
    PROVE  RetrievalInv'
<1> DEFINE e == worker.episode
           earlier == {n \in nodes : n < e}
<1>1. /\ worker.at = "graph" /\ nodes' = nodes \union {e} /\ worker' = NoEvent
      /\ after' = IF earlier = {} THEN after ELSE after \union {<<Max(earlier), e>>}
      /\ rows' = rows /\ deleted' = deleted /\ vec' = vec /\ req' = req
  BY DEF LinkNode
<1>2. e \in Seen /\ nodes \subseteq Nat /\ e \in Nat
  BY <1>1, RetrievalAssumption DEF RetrievalInv, StoreOK, Seen
<1>3. earlier # {} => Max(earlier) \in nodes
  <2>1. earlier \subseteq 0..e /\ earlier \subseteq nodes
    <3>1. ASSUME NEW n \in earlier PROVE n \in 0..e /\ n \in nodes
      <4>1. n \in nodes /\ n < e
        OBVIOUS
      <4>2. n \in Nat
        BY <1>2, <4>1
      <4> HIDE DEF e
      <4> QED BY <1>2, <4>1, <4>2
    <3> QED BY <3>1
  <2> HIDE DEF earlier, e
  <2>2. earlier # {} => Max(earlier) \in earlier
    BY <1>2, <2>1, LargestOf
  <2> QED BY <2>1, <2>2
<1> HIDE DEF earlier, e
<1>4. after' \subseteq nodes' \X nodes'
  BY <1>1, <1>3 DEF RetrievalInv, StoreOK
<1>5. worker' \in [at : {"get", "insert", "type", "graph"}, episode : Episodes \union {NoEpisode}]
      /\ worker'.at = "get"
  BY <1>1 DEF NoEvent
<1>6. StoreOK'
  BY <1>1, <1>2, <1>4, <1>5 DEF RetrievalInv, StoreOK, Seen
<1>7. Grows
  BY <1>1 DEF Grows, Seen
<1>8. Quiet
  BY <1>1, QuietIfSame
<1> QED BY <1>6, <1>7, <1>8, QuietStep

LEMMA PurgeStep ==
    ASSUME RetrievalInv, Purge
    PROVE  RetrievalInv'
<1>0. worker' = worker /\ nodes' = nodes /\ after' = after
  BY DEF Purge
<1>1. ASSUME NEW S \in SUBSET Episodes, DeleteRows(S), vec' = vec
      PROVE  StoreOK' /\ Grows
  <2>1. rows' = rows \ S /\ deleted' = deleted \union (rows \intersect S)
    BY <1>1 DEF DeleteRows
  <2>2. Seen' = Seen
    BY <2>1 DEF Seen
  <2> QED BY <1>0, <1>1, <2>1, <2>2 DEF RetrievalInv, StoreOK, Grows
<1>2. ASSUME rows' = rows, deleted' = deleted, vec' \subseteq vec
      PROVE  StoreOK' /\ Grows
  BY <1>0, <1>2 DEF RetrievalInv, StoreOK, Grows, Seen
<1>3. ASSUME req' = [req EXCEPT !.calm = FALSE] PROVE Quiet
  BY <1>3, QuietIfCalmer
<1>4. CASE DeleteRows(rows) /\ UNCHANGED <<vec, req>>
  <2>1. rows \in SUBSET Episodes
    BY DEF RetrievalInv, StoreOK
  <2>2. StoreOK' /\ Grows
    BY <1>1, <1>4, <2>1
  <2>3. Quiet
    BY <1>4, QuietIfSame
  <2> QED BY <2>2, <2>3, QuietStep
<1>5. CASE vec' \subseteq vec /\ req' = [req EXCEPT !.calm = FALSE] /\ UNCHANGED <<rows, deleted>>
  <2>1. StoreOK' /\ Grows
    BY <1>2, <1>5
  <2>2. Quiet
    BY <1>3, <1>5
  <2> QED BY <2>1, <2>2, QuietStep
<1>6. CASE DeleteRows(Rescued) /\ UNCHANGED <<vec, req>>
  <2>1. Rescued \in SUBSET Episodes
    BY RetrievalAssumption
  <2>2. StoreOK' /\ Grows
    BY <1>1, <1>6, <2>1
  <2>3. Quiet
    BY <1>6, QuietIfSame
  <2> QED BY <2>2, <2>3, QuietStep
<1>7. \/ DeleteRows(rows) /\ UNCHANGED <<vec, req>>
      \/ vec' \subseteq vec /\ req' = [req EXCEPT !.calm = FALSE] /\ UNCHANGED <<rows, deleted>>
      \/ DeleteRows(Rescued) /\ UNCHANGED <<vec, req>>
  BY DEF Purge
<1> QED BY <1>4, <1>5, <1>6, <1>7

---------------------------------------------------------------------------
(* Retrieval: the request *)

LEMMA StoreSame ==
    ASSUME RetrievalInv, UNCHANGED store
    PROVE  /\ StoreOK' /\ Seen' = Seen /\ deleted' = deleted /\ vec' = vec /\ rows' = rows
           /\ nodes' = nodes /\ after' = after
<1>1. /\ rows' = rows /\ deleted' = deleted /\ vec' = vec /\ nodes' = nodes /\ after' = after
      /\ worker' = worker
  BY DEF store
<1> QED BY <1>1 DEF RetrievalInv, StoreOK, Seen

Fresh == req.kept = <<>> /\ req.block = <<>>

\* The request goes on to next with these legs, nothing being kept or shown yet.
Early(next, v, g, b, c, found) ==
    /\ req' = [req EXCEPT !.pc = next, !.v = v, !.g = g, !.b = b, !.c = c, !.found = found]
    /\ UNCHANGED store

\* What these legs are, and what is known of them if vectors were found.
EarlyOK(next, v, g, b, c, found) ==
    /\ next \in {"vector", "graph", "lexical", "causal", "trim"} /\ found \in BOOLEAN
    /\ LegOK(v, Seen) /\ LegOK(g, Seen) /\ LegOK(b, Seen) /\ LegOK(c, Seen)
    /\ (next = "vector" /\ found /\ req.calm) => vec # {}
    /\ (next # "vector") => (found = req.found /\ (Favourable => v # <<>>))

LEMMA EarlyStep ==
    ASSUME RetrievalInv, Fresh, req.query \in Queries,
           NEW next, NEW v, NEW g, NEW b, NEW c, NEW found,
           Early(next, v, g, b, c, found), EarlyOK(next, v, g, b, c, found)
    PROVE  RetrievalInv'
<1>a. /\ req' = [req EXCEPT !.pc = next, !.v = v, !.g = g, !.b = b, !.c = c, !.found = found]
      /\ UNCHANGED store
  BY DEF Early
<1>b. /\ next \in {"vector", "graph", "lexical", "causal", "trim"} /\ found \in BOOLEAN
      /\ LegOK(v, Seen) /\ LegOK(g, Seen) /\ LegOK(b, Seen) /\ LegOK(c, Seen)
      /\ (next = "vector" /\ found /\ req.calm) => vec # {}
      /\ (next # "vector") => (found = req.found /\ (Favourable => v # <<>>))
  BY DEF EarlyOK
<1>c. Seen \subseteq Episodes
  BY DEF RetrievalInv, StoreOK, Seen
<1>1. v \in Seq(Hit) /\ g \in Seq(Hit) /\ b \in Seq(Hit) /\ c \in Seq(Hit)
  <2>1. \A hits : LegOK(hits, Seen) => LegOK(hits, Episodes)
    BY <1>c, LegGrows
  <2>2. \A hits : LegOK(hits, Episodes) => hits \in Seq(Hit)
    BY DEF LegOK, Hit
  <2> QED BY <1>b, <2>1, <2>2
<1>2. req' \in Requests
  BY <1>a, <1>b, <1>1 DEF RetrievalInv, Requests
<1>3. /\ req'.pc = next /\ req'.query = req.query /\ req'.v = v /\ req'.g = g /\ req'.b = b
      /\ req'.c = c /\ req'.kept = <<>> /\ req'.block = <<>> /\ req'.found = found
      /\ req'.calm = req.calm
  BY <1>a DEF RetrievalInv, Requests, Fresh
<1> DEFINE legs == <<v, g, b, c>>
<1>4. Legs(req') = legs
  BY <1>3 DEF Legs
<1>5. LegsOK(legs, Seen)
  <2>1. DOMAIN legs = 1..4 /\ legs[1] = v /\ legs[2] = g /\ legs[3] = b /\ legs[4] = c
    OBVIOUS
  <2>2. \A l \in 1..4 : l = 1 \/ l = 2 \/ l = 3 \/ l = 4
    OBVIOUS
  <2> HIDE DEF legs
  <2> QED BY <1>b, <2>1, <2>2 DEF LegsOK
<1>6. StoreOK' /\ Seen' = Seen /\ deleted' = deleted /\ vec' = vec /\ rows' = rows
  BY <1>a, StoreSame
<1>7. <<>> \in Seq(Seen)
  OBVIOUS
<1>8. RequestOK'
  BY <1>b, <1>3, <1>4, <1>5, <1>6, <1>7, RespectsNothing DEF RequestOK
<1>9. FoundSoFar'
  <2>1. req'.pc = "vector" /\ req'.found /\ req'.calm => vec' # {}
    BY <1>b, <1>3, <1>6
  <2>2. req'.pc \in {"graph", "lexical", "causal", "trim"} /\ Favourable' => req'.v # <<>>
    <3>1. Favourable' => (found /\ req.calm /\ deleted = {} /\ VectorK > 0 /\ TopK > 0
                           /\ \A e \in rows : Tokens[e] <= Budget)
      BY <1>3, <1>6 DEF Favourable
    <3>2. (found = req.found /\ Favourable') => Favourable
      BY <3>1 DEF Favourable
    <3> QED BY <1>b, <1>3, <3>2
  <2>3. req'.pc # "render" /\ req'.pc # "done"
    BY <1>b, <1>3
  <2> QED BY <2>1, <2>2, <2>3 DEF FoundSoFar
<1> QED BY <1>2, <1>6, <1>8, <1>9 DEF RetrievalInv

LEMMA StillFresh ==
    ASSUME RetrievalInv, req.pc \in {"count", "vector", "graph", "lexical", "causal", "trim"}
    PROVE  /\ Fresh /\ req.query \in Queries /\ req.found \in BOOLEAN /\ req.calm \in BOOLEAN
           /\ LegOK(req.v, Seen) /\ LegOK(req.g, Seen) /\ LegOK(req.b, Seen) /\ LegOK(req.c, Seen)
<1>1. Fresh /\ req.query \in Queries
  BY DEF RetrievalInv, RequestOK, Fresh
<1>2. req.found \in BOOLEAN /\ req.calm \in BOOLEAN
  BY DEF RetrievalInv, Requests
<1>3. \A l \in 1..4 : LegOK(Legs(req)[l], Seen)
  BY DEF RetrievalInv, RequestOK, LegsOK
<1>4. Legs(req)[1] = req.v /\ Legs(req)[2] = req.g /\ Legs(req)[3] = req.b /\ Legs(req)[4] = req.c
  BY DEF Legs
<1> QED BY <1>1, <1>2, <1>3, <1>4

\* A request that is over: nothing is shown, or the block is.
LEMMA EndStep ==
    ASSUME RetrievalInv, UNCHANGED store, req' \in Requests, req'.pc = "done",
           req'.kept = req.kept, Legs(req') = Legs(req),
           req'.block \in Seq(Seen),
           Respects(req'.block, Preference(Legs(req)), deleted),
           req'.found /\ req'.calm /\ Favourable => req'.block # <<>>,
           req'.found => req.found, req'.calm => req.calm
    PROVE  RetrievalInv'
<1>1. StoreOK' /\ Seen' = Seen /\ deleted' = deleted /\ vec' = vec /\ rows' = rows
  BY StoreSame
<1>2. RequestOK'
  BY <1>1 DEF RetrievalInv, RequestOK
<1>3. Favourable' => req'.block # <<>>
  BY <1>1 DEF Favourable
<1>4. FoundSoFar'
  BY <1>3 DEF FoundSoFar
<1> QED BY <1>1, <1>2, <1>4 DEF RetrievalInv

LEMMA BeginStep ==
    ASSUME RetrievalInv, NEW q \in Queries, Begin(q)
    PROVE  RetrievalInv'
<1>1. req' = [NoRequest EXCEPT !.pc = "count", !.query = q] /\ UNCHANGED store
  BY DEF Begin, Go
<1>2. q \in Query
  BY QueriesAre
<1>3. req' = [pc |-> "count", query |-> q, v |-> <<>>, g |-> <<>>, b |-> <<>>, c |-> <<>>,
              kept |-> <<>>, block |-> <<>>, found |-> FALSE, calm |-> TRUE]
  BY <1>1 DEF NoRequest
<1>4. req' \in Requests
  BY <1>2, <1>3 DEF Requests
<1>5. /\ req'.pc = "count" /\ req'.query = q /\ req'.kept = <<>> /\ req'.block = <<>>
      /\ Legs(req') = <<<<>>, <<>>, <<>>, <<>>>>
  BY <1>3 DEF Legs
<1>6. StoreOK' /\ Seen' = Seen
  BY <1>1, StoreSame
<1>7. LegsOK(Legs(req'), Seen')
  BY <1>5, EmptyLegs
<1>8. <<>> \in Seq(Seen')
  OBVIOUS
<1>9. RequestOK'
  BY <1>5, <1>7, <1>8, RespectsNothing DEF RequestOK
<1>10. FoundSoFar'
  BY <1>5 DEF FoundSoFar
<1> QED BY <1>4, <1>6, <1>9, <1>10 DEF RetrievalInv

LEMMA LeaveStep ==
    ASSUME RetrievalInv, Leave
    PROVE  RetrievalInv'
<1>1. req' = NoRequest /\ UNCHANGED store
  BY DEF Leave, Go
<1>3. req' = [pc |-> "idle", query |-> [near |-> <<>>, match |-> <<>>, entities |-> <<>>],
              v |-> <<>>, g |-> <<>>, b |-> <<>>, c |-> <<>>,
              kept |-> <<>>, block |-> <<>>, found |-> FALSE, calm |-> TRUE]
  BY <1>1 DEF NoRequest
<1>4. req' \in Requests
  BY <1>3 DEF Requests, Query
<1>5. /\ req'.pc = "idle" /\ req'.kept = <<>> /\ req'.block = <<>>
      /\ Legs(req') = <<<<>>, <<>>, <<>>, <<>>>>
  BY <1>3 DEF Legs
<1>6. StoreOK' /\ Seen' = Seen
  BY <1>1, StoreSame
<1>7. LegsOK(Legs(req'), Seen')
  BY <1>5, EmptyLegs
<1>8. <<>> \in Seq(Seen')
  OBVIOUS
<1>9. RequestOK'
  BY <1>5, <1>7, <1>8, RespectsNothing DEF RequestOK
<1>10. FoundSoFar'
  BY <1>5 DEF FoundSoFar
<1> QED BY <1>4, <1>6, <1>9, <1>10 DEF RetrievalInv

LEMMA CountStep ==
    ASSUME RetrievalInv, Count
    PROVE  RetrievalInv'
<1> DEFINE full == vec # {}
<1>1. /\ req.pc = "count" /\ UNCHANGED store
      /\ req' = [req EXCEPT !.pc = IF vec = {} THEN "done" ELSE "vector", !.found = full]
  BY DEF Count, Go
<1>2. /\ Fresh /\ req.query \in Queries /\ req.found \in BOOLEAN /\ req.calm \in BOOLEAN
      /\ LegOK(req.v, Seen) /\ LegOK(req.g, Seen) /\ LegOK(req.b, Seen) /\ LegOK(req.c, Seen)
  BY <1>1, StillFresh
<1>3. CASE vec # {}
  <2>1. full = TRUE
    BY <1>3
  <2>2. req' = [req EXCEPT !.pc = "vector", !.v = req.v, !.g = req.g, !.b = req.b, !.c = req.c,
                           !.found = TRUE]
    BY <1>1, <1>3, <2>1 DEF RetrievalInv, Requests
  <2>3. Early("vector", req.v, req.g, req.b, req.c, TRUE)
    BY <1>1, <2>2 DEF Early
  <2>4. EarlyOK("vector", req.v, req.g, req.b, req.c, TRUE)
    BY <1>2, <1>3 DEF EarlyOK
  <2> QED BY <1>2, <2>3, <2>4, EarlyStep
<1>4. CASE vec = {}
  <2>1. full = FALSE
    BY <1>4
  <2>2. req' = [req EXCEPT !.pc = "done", !.found = FALSE]
    BY <1>1, <1>4, <2>1
  <2>3. req' \in Requests
    BY <2>2 DEF RetrievalInv, Requests
  <2>4. /\ req'.pc = "done" /\ req'.kept = req.kept /\ req'.block = req.block
        /\ req'.found = FALSE /\ req'.calm = req.calm
        /\ req'.v = req.v /\ req'.g = req.g /\ req'.b = req.b /\ req'.c = req.c
    BY <2>2 DEF RetrievalInv, Requests
  <2>5. Legs(req') = Legs(req)
    BY <2>4 DEF Legs
  <2>6. req'.block \in Seq(Seen) /\ Respects(req'.block, Preference(Legs(req)), deleted)
    BY <2>4 DEF RetrievalInv, RequestOK
  <2> QED BY <1>1, <2>3, <2>4, <2>5, <2>6, EndStep
<1> QED BY <1>3, <1>4

LEMMA VectorStep ==
    ASSUME RetrievalInv, Vector
    PROVE  RetrievalInv'
<1> DEFINE hits == Nearest(req.query)
<1>1. /\ req.pc = "vector" /\ UNCHANGED store
      /\ req' = [req EXCEPT !.pc = "graph", !.v = hits]
  BY DEF Vector, Go
<1>2. /\ Fresh /\ req.query \in Queries /\ req.found \in BOOLEAN /\ req.calm \in BOOLEAN
      /\ LegOK(req.v, Seen) /\ LegOK(req.g, Seen) /\ LegOK(req.b, Seen) /\ LegOK(req.c, Seen)
  BY <1>1, StillFresh
<1>3. vec \subseteq Seen /\ vec \subseteq Episodes
  BY DEF RetrievalInv, StoreOK, Seen
<1>4. LegOK(hits, vec) /\ (VectorK > 0 /\ vec # {} => Len(hits) > 0)
  BY <1>2, <1>3, NearestIsLeg
<1>5. LegOK(hits, Seen)
  BY <1>3, <1>4, LegGrows
<1>6. req.found /\ req.calm => vec # {}
  BY <1>1 DEF RetrievalInv, FoundSoFar
<1>7. Favourable => hits # <<>>
  <2>1. Len(<<>>) = 0
    OBVIOUS
  <2> HIDE DEF hits
  <2>2. Len(hits) > 0 => hits # <<>>
    BY <2>1
  <2> QED BY <1>4, <1>6, <2>2 DEF Favourable
<1> HIDE DEF hits
<1>8. req' = [req EXCEPT !.pc = "graph", !.v = hits, !.g = req.g, !.b = req.b, !.c = req.c,
                         !.found = req.found]
  BY <1>1 DEF RetrievalInv, Requests
<1>9. Early("graph", hits, req.g, req.b, req.c, req.found)
  BY <1>1, <1>8 DEF Early
<1>10. EarlyOK("graph", hits, req.g, req.b, req.c, req.found)
  BY <1>2, <1>5, <1>7 DEF EarlyOK
<1> QED BY <1>2, <1>9, <1>10, EarlyStep

LEMMA GraphStep ==
    ASSUME RetrievalInv, Graph
    PROVE  RetrievalInv'
<1>1. PICK hits \in IF Names(req.query) = {} THEN {<<>>} ELSE Walks(req.query) :
          Go("graph", [req EXCEPT !.pc = "lexical", !.g = hits])
  BY DEF Graph
<1>2. req.pc = "graph" /\ UNCHANGED store /\ req' = [req EXCEPT !.pc = "lexical", !.g = hits]
  BY <1>1 DEF Go
<1>3. /\ Fresh /\ req.query \in Queries /\ req.found \in BOOLEAN
      /\ LegOK(req.v, Seen) /\ LegOK(req.b, Seen) /\ LegOK(req.c, Seen)
  BY <1>2, StillFresh
<1>4. nodes \subseteq Seen /\ nodes \subseteq Episodes
  BY DEF RetrievalInv, StoreOK, Seen
<1>5. LegOK(hits, Seen)
  <2>1. CASE hits = <<>>
    BY <2>1, NoLeg
  <2>2. CASE hits \in Walks(req.query)
    BY <1>4, <2>2, WalksAreLegs, LegGrows
  <2> QED BY <2>1, <2>2
<1>6. Favourable => req.v # <<>>
  BY <1>2 DEF RetrievalInv, FoundSoFar
<1>7. req' = [req EXCEPT !.pc = "lexical", !.v = req.v, !.g = hits, !.b = req.b, !.c = req.c,
                         !.found = req.found]
  BY <1>2 DEF RetrievalInv, Requests
<1>8. Early("lexical", req.v, hits, req.b, req.c, req.found)
  BY <1>2, <1>7 DEF Early
<1>9. EarlyOK("lexical", req.v, hits, req.b, req.c, req.found)
  BY <1>3, <1>5, <1>6 DEF EarlyOK
<1> QED BY <1>3, <1>8, <1>9, EarlyStep

LEMMA GraphFailsStep ==
    ASSUME RetrievalInv, GraphFails
    PROVE  RetrievalInv'
<1>2. req.pc = "graph" /\ UNCHANGED store /\ req' = [req EXCEPT !.pc = "lexical"]
  BY DEF GraphFails, Go
<1>3. /\ Fresh /\ req.query \in Queries /\ req.found \in BOOLEAN
      /\ LegOK(req.v, Seen) /\ LegOK(req.g, Seen) /\ LegOK(req.b, Seen) /\ LegOK(req.c, Seen)
  BY <1>2, StillFresh
<1>4. Favourable => req.v # <<>>
  BY <1>2 DEF RetrievalInv, FoundSoFar
<1>5. req' = [req EXCEPT !.pc = "lexical", !.v = req.v, !.g = req.g, !.b = req.b, !.c = req.c,
                         !.found = req.found]
  BY <1>2 DEF RetrievalInv, Requests
<1>6. Early("lexical", req.v, req.g, req.b, req.c, req.found)
  BY <1>2, <1>5 DEF Early
<1>7. EarlyOK("lexical", req.v, req.g, req.b, req.c, req.found)
  BY <1>3, <1>4 DEF EarlyOK
<1> QED BY <1>3, <1>6, <1>7, EarlyStep

\* The lexical leg, or none when its statement fails.
LEMMA LexicalEitherStep ==
    ASSUME RetrievalInv, Lexical \/ LexicalFails
    PROVE  RetrievalInv'
<1>1. PICK hits \in {Matching(req.query), req.b} :
          req.pc = "lexical" /\ UNCHANGED store /\ req' = [req EXCEPT !.pc = "causal", !.b = hits]
  <2>1. CASE Lexical
    BY <2>1 DEF Lexical, Go
  <2>2. CASE LexicalFails
    <3>1. req.pc = "lexical" /\ UNCHANGED store /\ req' = [req EXCEPT !.pc = "causal"]
      BY <2>2 DEF LexicalFails, Go
    <3>2. req' = [req EXCEPT !.pc = "causal", !.b = req.b]
      BY <3>1 DEF RetrievalInv, Requests
    <3> QED BY <3>1, <3>2
  <2> QED BY <2>1, <2>2
<1>3. /\ Fresh /\ req.query \in Queries /\ req.found \in BOOLEAN
      /\ LegOK(req.v, Seen) /\ LegOK(req.g, Seen) /\ LegOK(req.b, Seen) /\ LegOK(req.c, Seen)
  BY <1>1, StillFresh
<1>4. rows \subseteq Seen /\ rows \subseteq Episodes
  BY DEF RetrievalInv, StoreOK, Seen
<1>5. LegOK(hits, Seen)
  <2>1. CASE hits = req.b
    BY <1>3, <2>1
  <2>2. CASE hits = Matching(req.query)
    BY <1>3, <1>4, <2>2, MatchingIsLeg, LegGrows
  <2> QED BY <2>1, <2>2
<1>6. Favourable => req.v # <<>>
  BY <1>1 DEF RetrievalInv, FoundSoFar
<1>7. req' = [req EXCEPT !.pc = "causal", !.v = req.v, !.g = req.g, !.b = hits, !.c = req.c,
                         !.found = req.found]
  BY <1>1 DEF RetrievalInv, Requests
<1>8. Early("causal", req.v, req.g, hits, req.c, req.found)
  BY <1>1, <1>7 DEF Early
<1>9. EarlyOK("causal", req.v, req.g, hits, req.c, req.found)
  BY <1>3, <1>5, <1>6 DEF EarlyOK
<1> QED BY <1>3, <1>8, <1>9, EarlyStep

\* The chain over all the edges, or over those that were answered.
LEMMA CausalEitherStep ==
    ASSUME RetrievalInv, Causal \/ CausalFails
    PROVE  RetrievalInv'
<1>0. \E edges \in SUBSET after : \E hits \in Chains(Seeds, edges) :
          Go("causal", [req EXCEPT !.pc = "trim", !.c = hits])
  BY DEF Causal, CausalFails
<1>a. PICK edges \in SUBSET after : \E hits \in Chains(Seeds, edges) :
          Go("causal", [req EXCEPT !.pc = "trim", !.c = hits])
  BY <1>0
<1>1. PICK hits \in Chains(Seeds, edges) :
          Go("causal", [req EXCEPT !.pc = "trim", !.c = hits])
  BY <1>a
<1>2. req.pc = "causal" /\ UNCHANGED store /\ req' = [req EXCEPT !.pc = "trim", !.c = hits]
  BY <1>1 DEF Go
<1>3. /\ Fresh /\ req.query \in Queries /\ req.found \in BOOLEAN
      /\ LegOK(req.v, Seen) /\ LegOK(req.g, Seen) /\ LegOK(req.b, Seen)
  BY <1>2, StillFresh
<1>4. nodes \subseteq Seen /\ nodes \subseteq Episodes /\ after \subseteq nodes \X nodes
  BY DEF RetrievalInv, StoreOK, Seen
<1>5. LegOK(hits, Seen)
  <2>1. LegOK(hits, nodes)
    <3> DEFINE s == Seeds
    <3>1. hits \in Chains(s, edges) /\ edges \subseteq after
      OBVIOUS
    <3> HIDE DEF s
    <3> QED BY <1>4, <3>1, ChainsAreLegs
  <2> QED BY <1>4, <2>1, LegGrows
<1>6. Favourable => req.v # <<>>
  BY <1>2 DEF RetrievalInv, FoundSoFar
<1>7. req' = [req EXCEPT !.pc = "trim", !.v = req.v, !.g = req.g, !.b = req.b, !.c = hits,
                         !.found = req.found]
  BY <1>2 DEF RetrievalInv, Requests
<1>8. Early("trim", req.v, req.g, req.b, hits, req.found)
  BY <1>2, <1>7 DEF Early
<1>9. EarlyOK("trim", req.v, req.g, req.b, hits, req.found)
  BY <1>3, <1>5, <1>6 DEF EarlyOK
<1> QED BY <1>3, <1>8, <1>9, EarlyStep

LEMMA RaiseStep ==
    ASSUME RetrievalInv, Raise
    PROVE  RetrievalInv'
<1>1. PICK at \in {"count", "vector", "trim", "render"} :
          Go(at, [req EXCEPT !.pc = "done", !.calm = FALSE]) /\ Fails
  BY DEF Raise
<1>2. /\ req.pc # "done" /\ UNCHANGED store
      /\ req' = [req EXCEPT !.pc = "done", !.calm = FALSE]
  BY <1>1 DEF Go
<1>3. req' \in Requests
  BY <1>2 DEF RetrievalInv, Requests
<1>4. /\ req'.pc = "done" /\ req'.kept = req.kept /\ req'.block = req.block
      /\ req'.found = req.found /\ req'.calm = FALSE
      /\ req'.v = req.v /\ req'.g = req.g /\ req'.b = req.b /\ req'.c = req.c
  BY <1>2 DEF RetrievalInv, Requests
<1>5. Legs(req') = Legs(req)
  BY <1>4 DEF Legs
<1>6. req'.block \in Seq(Seen) /\ Respects(req'.block, Preference(Legs(req)), deleted)
  BY <1>4 DEF RetrievalInv, RequestOK
<1> QED BY <1>2, <1>3, <1>4, <1>5, <1>6, EndStep

\* What one more look at the rows leaves of a list that respects R.
LEMMA LookAgain ==
    ASSUME RetrievalInv, NEW s \in Seq(Seen), NEW R, Respects(s, R, deleted)
    PROVE  /\ Among(s, rows) \in Seq(Seen)
           /\ Respects(Among(s, rows), R, deleted)
           /\ (deleted = {} /\ s # <<>>) => Len(Among(s, rows)) > 0
           /\ \A i \in 1..Len(Among(s, rows)) : Among(s, rows)[i] \in rows
<1> DEFINE t == Among(s, rows)
<1>1. /\ t \in Seq(Seen) /\ Len(t) \in Nat
      /\ \A i \in 1..Len(t) : t[i] \in Seen \cap rows
      /\ \A i \in 1..Len(s) : s[i] \in rows => \E k \in 1..Len(t) : t[k] = s[i]
      /\ Respects(t, R, deleted \union (Seen \ rows))
  BY AmongIs
<1> HIDE DEF t
<1>2. deleted \union (Seen \ rows) = deleted
  BY DEF Seen
<1>3. ASSUME deleted = {}, s # <<>> PROVE Len(t) > 0
  <2>1. Len(s) \in Nat /\ Len(s) # 0 /\ DOMAIN s = 1..Len(s)
    BY <1>3
  <2>2. 1 \in 1..Len(s)
    BY <2>1
  <2>3. s[1] \in rows
    BY <1>3, <2>1, <2>2 DEF Seen
  <2>4. PICK k \in 1..Len(t) : t[k] = s[1]
    BY <1>1, <2>2, <2>3
  <2> QED BY <1>1, <2>4
<1> QED BY <1>1, <1>2, <1>3 DEF t

LEMMA RenderStep ==
    ASSUME RetrievalInv, Render
    PROVE  RetrievalInv'
<1> DEFINE shown == Among(req.kept, rows)
<1>1. /\ req.pc = "render" /\ UNCHANGED store
      /\ req' = [req EXCEPT !.pc = "done", !.block = shown]
  BY DEF Render, Go
<1>2. req.kept \in Seq(Seen) /\ Respects(req.kept, Preference(Legs(req)), deleted)
  BY DEF RetrievalInv, RequestOK
<1>3. /\ shown \in Seq(Seen) /\ Respects(shown, Preference(Legs(req)), deleted)
      /\ (deleted = {} /\ req.kept # <<>>) => Len(shown) > 0
  BY <1>2, LookAgain
<1> HIDE DEF shown
<1>4. Seen \subseteq Episodes
  BY DEF RetrievalInv, StoreOK, Seen
<1>5. shown \in Seq(Episodes)
  BY <1>3, <1>4, SeqGrows
<1>6. req' \in Requests
  BY <1>1, <1>5 DEF RetrievalInv, Requests
<1>7. /\ req'.pc = "done" /\ req'.kept = req.kept /\ req'.block = shown
      /\ req'.found = req.found /\ req'.calm = req.calm
      /\ req'.v = req.v /\ req'.g = req.g /\ req'.b = req.b /\ req'.c = req.c
  BY <1>1 DEF RetrievalInv, Requests
<1>8. Legs(req') = Legs(req)
  BY <1>7 DEF Legs
<1>9. Favourable => shown # <<>>
  <2>1. Favourable => (deleted = {} /\ req.kept # <<>>)
    BY <1>1 DEF RetrievalInv, FoundSoFar, Favourable
  <2>2. Len(shown) > 0 => shown # <<>>
    OBVIOUS
  <2> QED BY <1>3, <2>1, <2>2
<1> QED BY <1>1, <1>3, <1>6, <1>7, <1>8, <1>9, EndStep

LEMMA TrimStep ==
    ASSUME RetrievalInv, Trim
    PROVE  RetrievalInv'
<1> DEFINE legs == Legs(req)
<1>1. PICK fused \in Fusions(legs) :
          Go("trim", [req EXCEPT !.pc = "render",
                                 !.kept = Fitting(Among(FirstOf(fused, TopK), rows))])
  BY DEF Trim
<1> DEFINE best == FirstOf(fused, TopK)
           there == Among(best, rows)
           kept == Fitting(there)
           R == Preference(legs)
<1>2. req.pc = "trim" /\ UNCHANGED store /\ req' = [req EXCEPT !.pc = "render", !.kept = kept]
  BY <1>1 DEF Go
<1>3. Seen \subseteq Episodes /\ LegsOK(legs, Seen)
  BY DEF RetrievalInv, StoreOK, RequestOK, Seen
<1>4. req.query \in Queries /\ req.block = <<>> /\ legs[1] = req.v
  BY <1>2, StillFresh DEF Fresh, Legs
<1>5. Favourable => req.v # <<>>
  BY <1>2 DEF RetrievalInv, FoundSoFar
<1> HIDE DEF legs, R
<1>6. /\ fused \in Seq(Seen) /\ Respects(fused, R, {})
      /\ \A x : (\E l \in 1..4 : InLeg(legs[l], x)) => \E k \in 1..Len(fused) : fused[k] = x
  BY <1>3, FusionIs DEF R
<1>7. TopK \in Nat
  BY RetrievalAssumption
<1>8. /\ best \in Seq(Seen) /\ Respects(best, R, deleted)
      /\ TopK > 0 /\ Len(fused) > 0 => Len(best) > 0
  <2>1. Respects(best, R, {})
    BY <1>6, <1>7, HeadRespects
  <2>2. best \in Seq(Seen) /\ (TopK > 0 /\ Len(fused) > 0 => Len(best) > 0)
    BY <1>6, <1>7, HeadIs
  <2> HIDE DEF best
  <2>3. Respects(best, R, deleted)
    BY <2>1, RespectsMore
  <2> QED BY <2>2, <2>3
<1> HIDE DEF best
<1>9. /\ there \in Seq(Seen) /\ Respects(there, R, deleted)
      /\ (deleted = {} /\ best # <<>>) => Len(there) > 0
      /\ \A i \in 1..Len(there) : there[i] \in rows
  BY <1>8, LookAgain
<1> HIDE DEF there
<1>10. there \in Seq(Episodes)
  BY <1>3, <1>9, SeqGrows
<1>11. PICK n \in Nat : kept = FirstOf(there, n)
  BY <1>10, FittingIs
<1>12. (Len(there) > 0 /\ Tokens[there[1]] <= Budget) => Len(kept) > 0
  BY <1>10, FittingIs
<1> HIDE DEF kept
<1>13. kept \in Seq(Seen) /\ Respects(kept, R, deleted)
  <2>1. kept \in Seq(Seen)
    BY <1>9, <1>11, HeadIs
  <2>2. Respects(kept, R, deleted)
    BY <1>9, <1>11, HeadRespects
  <2> QED BY <2>1, <2>2
<1>14. Favourable => kept # <<>>
  <2> SUFFICES ASSUME Favourable PROVE kept # <<>>
    OBVIOUS
  <2>1. TopK > 0 /\ deleted = {} /\ \A e \in rows : Tokens[e] <= Budget
    BY DEF Favourable
  <2>2. InLeg(legs[1], legs[1][1].id)
    <3>1. LegOK(req.v, Seen) /\ req.v # <<>>
      BY <1>3, <1>4, <1>5 DEF LegsOK
    <3>2. req.v \in Seq([id : Seen, weight : Nat])
      BY <3>1 DEF LegOK
    <3>3. 1 \in 1..Len(req.v)
      BY <3>1, <3>2
    <3> QED BY <1>4, <3>3 DEF InLeg
  <2>3. PICK k \in 1..Len(fused) : fused[k] = legs[1][1].id
    BY <1>6, <2>2
  <2>4. Len(fused) > 0
    BY <1>6, <2>3
  <2>5. Len(best) > 0
    BY <1>8, <2>1, <2>4
  <2>6. best # <<>>
    BY <2>5
  <2>7. Len(there) > 0
    BY <1>9, <2>1, <2>6
  <2>8. there[1] \in rows
    <3>1. 1 \in 1..Len(there)
      BY <1>9, <2>7
    <3> QED BY <1>9, <3>1
  <2>9. Len(kept) > 0
    BY <1>12, <2>1, <2>7, <2>8
  <2> QED BY <2>9
<1>15. kept \in Seq(Episodes)
  BY <1>3, <1>13, SeqGrows
<1>16. req' \in Requests
  BY <1>2, <1>15 DEF RetrievalInv, Requests
<1>17. /\ req'.pc = "render" /\ req'.query = req.query /\ req'.kept = kept /\ req'.block = <<>>
       /\ req'.v = req.v /\ req'.g = req.g /\ req'.b = req.b /\ req'.c = req.c
       /\ req'.found = req.found /\ req'.calm = req.calm
  BY <1>2, <1>4 DEF RetrievalInv, Requests
<1>18. Legs(req') = legs
  BY <1>17 DEF Legs, legs
<1>19. StoreOK' /\ Seen' = Seen /\ deleted' = deleted /\ rows' = rows
  BY <1>2, StoreSame
<1>20. Respects(req'.kept, Preference(Legs(req')), deleted')
  BY <1>13, <1>17, <1>18, <1>19 DEF R
<1>21. RequestOK'
  <2>1. <<>> \in Seq(Seen)
    OBVIOUS
  <2>2. Respects(req'.block, Preference(Legs(req')), deleted')
    BY <1>17, RespectsNothing
  <2>3. LegsOK(Legs(req'), Seen')
    BY <1>3, <1>18, <1>19
  <2> QED BY <1>4, <1>13, <1>17, <1>19, <1>20, <2>1, <2>2, <2>3 DEF RequestOK
<1>22. FoundSoFar'
  <2>1. Favourable' => Favourable
    BY <1>17, <1>19 DEF Favourable
  <2> QED BY <1>14, <1>17, <2>1 DEF FoundSoFar
<1> QED BY <1>16, <1>19, <1>21, <1>22 DEF RetrievalInv

---------------------------------------------------------------------------
(* Retrieval: the theorems *)

LEMMA RetrievalInvInit ==
    ASSUME RetrievalInit
    PROVE  RetrievalInv
<1>1. /\ rows = {} /\ vec = {} /\ nodes = {} /\ after = {} /\ deleted = {}
      /\ worker = [at |-> "get", episode |-> NoEpisode]
      /\ req = [pc |-> "idle", query |-> [near |-> <<>>, match |-> <<>>, entities |-> <<>>],
                v |-> <<>>, g |-> <<>>, b |-> <<>>, c |-> <<>>,
                kept |-> <<>>, block |-> <<>>, found |-> FALSE, calm |-> TRUE]
  BY DEF RetrievalInit, NoEvent, NoRequest
<1>2. req \in Requests
  BY <1>1 DEF Requests, Query
<1>3. StoreOK
  BY <1>1 DEF StoreOK, Seen
<1>4. /\ req.pc = "idle" /\ req.kept = <<>> /\ req.block = <<>>
      /\ Legs(req) = <<<<>>, <<>>, <<>>, <<>>>>
  BY <1>1 DEF Legs
<1>5. LegsOK(Legs(req), Seen)
  BY <1>4, EmptyLegs
<1>6. <<>> \in Seq(Seen)
  OBVIOUS
<1>7. RequestOK
  BY <1>4, <1>5, <1>6, RespectsNothing DEF RequestOK
<1>8. FoundSoFar
  BY <1>4 DEF FoundSoFar
<1> QED BY <1>2, <1>3, <1>7, <1>8 DEF RetrievalInv

LEMMA RetrievalInvStep ==
    ASSUME RetrievalInv, [RetrievalNext]_retrievalVars
    PROVE  RetrievalInv'
<1>1. ASSUME NEW e \in Episodes, Archive(e) PROVE RetrievalInv'
  BY <1>1, ArchiveStep
<1>2. ASSUME NEW e \in Episodes, DeleteVec(e) PROVE RetrievalInv'
  BY <1>2, DeleteVecStep
<1>3. CASE InsertVec
  BY <1>3, InsertVecStep
<1>4. CASE UpdateEpisode
  BY <1>4, UpdateEpisodeStep
<1>5. CASE LinkNode
  BY <1>5, LinkNodeStep
<1>6. CASE Purge
  BY <1>6, PurgeStep
<1>7. ASSUME NEW q \in Queries, Begin(q) PROVE RetrievalInv'
  BY <1>7, BeginStep
<1>8. CASE Count
  BY <1>8, CountStep
<1>9. CASE Vector
  BY <1>9, VectorStep
<1>10. CASE Graph
  BY <1>10, GraphStep
<1>11. CASE GraphFails
  BY <1>11, GraphFailsStep
<1>12. CASE Lexical \/ LexicalFails
  BY <1>12, LexicalEitherStep
<1>13. CASE Causal \/ CausalFails
  BY <1>13, CausalEitherStep
<1>14. CASE Trim
  BY <1>14, TrimStep
<1>15. CASE Render
  BY <1>15, RenderStep
<1>16. CASE Raise
  BY <1>16, RaiseStep
<1>17. CASE Leave
  BY <1>17, LeaveStep
<1>18. CASE UNCHANGED retrievalVars
  <2>1. UNCHANGED store /\ req' = req
    BY <1>18 DEF retrievalVars
  <2>2. StoreOK' /\ Seen' = Seen /\ deleted' = deleted /\ vec' = vec
    BY <2>1, StoreSame
  <2>3. Grows
    BY <2>2 DEF Grows
  <2>4. Quiet
    BY <2>1, <2>2, QuietIfSame
  <2> QED BY <2>2, <2>3, <2>4, QuietStep
<1> QED BY <1>1, <1>2, <1>3, <1>4, <1>5, <1>6, <1>7, <1>8, <1>9, <1>10, <1>11, <1>12,
           <1>13, <1>14, <1>15, <1>16, <1>17, <1>18 DEF RetrievalNext

\* Whatever the request asks, the other actors do between two of its statements
\* and fails of them: what its legs found are episodes there were, and what it
\* keeps and shows of them respects the order of the legs, but for what has been
\* deleted (proxy/app.py, _retrieve_ltm_block).
THEOREM RetrievalInvariant == RetrievalSpec => []RetrievalInv
<1>1. RetrievalInit => RetrievalInv
  BY RetrievalInvInit
<1>2. RetrievalInv /\ [RetrievalNext]_retrievalVars => RetrievalInv'
  BY RetrievalInvStep
<1> QED BY <1>1, <1>2, PTL DEF RetrievalSpec

\* The rest of the type invariant: only rows are typed, and the bounds.
Bounded ==
    /\ typed \subseteq rows /\ purge \in {"idle", "vectors", "rows"}
    /\ events \in 0..MaxEvents /\ purges \in 0..MaxPurges /\ errors \in 0..MaxErrors

LEMMA BoundedStep ==
    ASSUME Bounded, [RetrievalNext]_retrievalVars
    PROVE  Bounded'
<1>0. MaxEvents \in Nat /\ MaxPurges \in Nat /\ MaxErrors \in Nat
  BY RetrievalAssumption
<1>1. ASSUME NEW e \in Episodes, Archive(e) PROVE Bounded'
  BY <1>1 DEF Archive, Bounded
<1>2. ASSUME NEW e \in Episodes, DeleteVec(e) PROVE Bounded'
  BY <1>0, <1>2 DEF DeleteVec, Bounded
<1>3. CASE InsertVec
  BY <1>3 DEF InsertVec, Bounded
<1>4. CASE UpdateEpisode
  BY <1>4 DEF UpdateEpisode, Bounded
<1>5. CASE LinkNode
  BY <1>5 DEF LinkNode, Bounded
<1>6. CASE Purge
  BY <1>0, <1>6 DEF Purge, DeleteRows, Bounded
<1>7. ASSUME UNCHANGED store, Works \/ Fails PROVE Bounded'
  BY <1>0, <1>7 DEF store, Works, Fails, Bounded
<1>8. ASSUME NEW q \in Queries, Begin(q) PROVE Bounded'
  BY <1>7, <1>8 DEF Begin, Go
<1>9. CASE Count \/ Vector \/ Lexical \/ LexicalFails \/ Render \/ Leave \/ GraphFails
  BY <1>7, <1>9 DEF Count, Vector, Lexical, LexicalFails, Render, Leave, GraphFails, Go
<1>10. CASE Graph
  BY <1>7, <1>10 DEF Graph, Go
<1>11. CASE Causal \/ CausalFails
  BY <1>7, <1>11 DEF Causal, CausalFails, Go
<1>12. CASE Trim \/ Raise
  BY <1>7, <1>12 DEF Trim, Raise, Go
<1>13. CASE UNCHANGED retrievalVars
  BY <1>13 DEF retrievalVars, store, Bounded
<1> QED BY <1>1, <1>2, <1>3, <1>4, <1>5, <1>6, <1>8, <1>9, <1>10, <1>11, <1>12, <1>13
        DEF RetrievalNext

\* Type correctness of the retrieval: the edges of the graph join its nodes and
\* what the facet worker holds is an episode, although purge deletes rows while
\* it works.
THEOREM RetrievalTypes == RetrievalSpec => []RetrievalTypeOK
<1>1. RetrievalInit => Bounded
  BY RetrievalAssumption DEF RetrievalInit, Bounded
<1>2. Bounded /\ [RetrievalNext]_retrievalVars => Bounded'
  BY BoundedStep
<1>3. RetrievalInv /\ Bounded => RetrievalTypeOK
  BY DEF RetrievalInv, StoreOK, Seen, Bounded, RetrievalTypeOK
<1> QED BY <1>1, <1>2, <1>3, RetrievalInvariant, PTL DEF RetrievalSpec

\* Fusing, cutting, trimming and rendering keep to what the legs agree on: an
\* episode is shown only after all those still there that every leg which has
\* it puts before it, with a type that counts as much (retriever/fusion.py,
\* retriever/budget.py, retriever/render.py).
THEOREM RetrievalOrder == RetrievalSpec => []PreferredComesFirst
<1>1. RetrievalInv => PreferredComesFirst
  <2> SUFFICES ASSUME RetrievalInv, NEW j \in DOMAIN req.block, NEW e \in rows,
                      Preferred(Legs(req), e, req.block[j])
               PROVE  \E i \in 1..(j - 1) : req.block[i] = e
    BY DEF PreferredComesFirst
  <2>1. /\ req.block \in Seq(Seen) /\ Respects(req.block, Preference(Legs(req)), deleted)
        /\ Seen \subseteq Episodes /\ rows \subseteq Episodes /\ rows \cap deleted = {}
    BY DEF RetrievalInv, RequestOK, StoreOK, Seen
  <2>2. j \in 1..Len(req.block) /\ req.block[j] \in Episodes /\ e \in Episodes
    BY <2>1
  <2>3. <<e, req.block[j]>> \in Preference(Legs(req))
    BY <2>2 DEF Preference
  <2>4. e \in deleted \/ \E i \in 1..(j - 1) : req.block[i] = e
    BY <2>1, <2>2, <2>3 DEF Respects
  <2> QED BY <2>1, <2>4
<1> QED BY <1>1, RetrievalInvariant, PTL

\* The graph and the full text may fail and episodes be archived and indexed
\* meanwhile: a request of a project with vectors, from which nothing was taken,
\* gets a block (proxy/app.py, _retrieve_ltm_block).
THEOREM RetrievalFinds == RetrievalSpec => []FoundIsShown
<1>1. RetrievalInv => FoundIsShown
  BY DEF RetrievalInv, FoundSoFar, Favourable, FoundIsShown
<1> QED BY <1>1, RetrievalInvariant, PTL

\* A block that is made has no episode that a purge had deleted by then, whatever
\* leg led to it (cli.py, purge; retriever/render.py).
THEOREM RetrievalForgets == RetrievalSpec => PurgedStaysOut
<1>1. RetrievalInv /\ [RetrievalNext]_retrievalVars
      => [req'.block # req.block => ToSet(req'.block) \intersect deleted = {}]_retrievalVars
  <2> SUFFICES ASSUME RetrievalInv, RetrievalNext, req'.block # req.block
               PROVE  ToSet(req'.block) \intersect deleted = {}
    OBVIOUS
  <2>1. req \in Requests
    BY DEF RetrievalInv
  <2>2. CASE Render
    <3> DEFINE shown == Among(req.kept, rows)
    <3>1. req' = [req EXCEPT !.block = shown, !.pc = "done"]
      BY <2>2, <2>1 DEF Render, Go, Requests
    <3>2. req'.block = shown
      BY <2>1, <3>1 DEF Requests
    <3>3. req.kept \in Seq(Seen) /\ Respects(req.kept, {}, deleted) /\ rows \cap deleted = {}
      BY DEF RetrievalInv, RequestOK, StoreOK, Respects
    <3>4. shown \in Seq(Seen) /\ \A i \in 1..Len(shown) : shown[i] \in rows
      BY <3>3, LookAgain
    <3> HIDE DEF shown
    <3>5. \A x \in ToSet(shown) : x \in rows
      BY <3>4 DEF ToSet
    <3> QED BY <3>2, <3>3, <3>5
  <2>3. ASSUME req'.block = <<>> PROVE ToSet(req'.block) \intersect deleted = {}
    BY <2>3 DEF ToSet
  <2>4. ASSUME NEW q \in Queries, Begin(q) PROVE req'.block = <<>>
    BY <2>4 DEF Begin, Go, NoRequest
  <2>5. CASE Leave
    <3>1. req'.block = <<>>
      BY <2>5 DEF Leave, Go, NoRequest
    <3> QED BY <2>3, <3>1
  <2>6. ASSUME NEW e \in Episodes, Archive(e) \/ DeleteVec(e) PROVE req'.block = req.block
    BY <2>1, <2>6 DEF Archive, DeleteVec, Requests
  <2>7. CASE InsertVec \/ UpdateEpisode \/ LinkNode \/ Purge
    <3>1. req' = req \/ req' = [req EXCEPT !.calm = FALSE]
      BY <2>7 DEF InsertVec, UpdateEpisode, LinkNode, Purge
    <3> QED BY <2>1, <3>1 DEF Requests
  <2>8. CASE Count \/ Vector \/ GraphFails \/ Lexical \/ LexicalFails
    BY <2>1, <2>8 DEF Count, Vector, GraphFails, Lexical, LexicalFails, Go, Requests
  <2>9. CASE Graph \/ Causal \/ CausalFails \/ Trim \/ Raise
    BY <2>1, <2>9 DEF Graph, Causal, CausalFails, Trim, Raise, Go, Requests
  <2> QED BY <2>2, <2>3, <2>4, <2>5, <2>6, <2>7, <2>8, <2>9 DEF RetrievalNext
<1> QED BY <1>1, RetrievalInvariant, PTL DEF RetrievalSpec, PurgedStaysOut
=============================================================================

------------------------------ MODULE Selector ------------------------------
(***************************************************************************)
(* select_for_eviction (eviction/selector.py): which turns of a            *)
(* conversation to evict to free a number of tokens.                       *)
(*                                                                         *)
(* A turn's index is its position, as _maybe_evict passes it.  `kind`      *)
(* stands for the fields the three passes test: "guarded" for is_system or *)
(* pinned, "priority" for memory_type = "priority", else "plain".          *)
(***************************************************************************)
EXTENDS SequencesExt, Orders

CONSTANTS
    TokenCounts,     \* token_count of a turn
    Densities,       \* density of a turn
    RecentBuffer,    \* recent_buffer (4)
    MaxTurns,        \* bound: turns in a conversation
    MaxNeed          \* bound: tokens_to_free

ASSUME SelectorAssumption ==
    /\ TokenCounts \subseteq Nat /\ Densities \subseteq Nat
    /\ RecentBuffer \in Nat /\ MaxTurns \in Nat /\ MaxNeed \in Nat

VARIABLES turns, need, result
selectorVars == <<turns, need, result>>

TurnKinds == {"plain", "priority", "guarded"}
ActiveTurn == [tokens : TokenCounts, density : Densities, kind : TurnKinds]
Conversations == UNION {[1..n -> ActiveTurn] : n \in 0..MaxTurns}
NoWork == [evicted |-> <<>>, freed |-> 0, pass |-> 0, pressure |-> FALSE]

---------------------------------------------------------------------------
(* The order of eviction *)

\* Positions before the recent buffer, of turns of the given kind.
Evictable(ts, kind) ==
    {i \in 1..(Len(ts) - RecentBuffer) : ts[i].kind = kind}

\* _weight, multiplied out: token_count / max(1, density).
Heavier(t, u) == t.tokens * Max({1, u.density}) > u.tokens * Max({1, t.density})

\* A mutation: the sort key has lost its minus sign.
OrderedLightest(ts, cands) ==
    Sorted(cands, {p \in cands \X cands :
                      \/ Heavier(ts[p[2]], ts[p[1]])
                      \/ ~Heavier(ts[p[1]], ts[p[2]]) /\ p[1] < p[2]})

\* The sort key: minus the weight, then the index.
EvictionOrder(ts, cands) ==
    {p \in cands \X cands :
        \/ Heavier(ts[p[1]], ts[p[2]])
        \/ ~Heavier(ts[p[2]], ts[p[1]]) /\ p[1] < p[2]}

\* _ordered_candidates: by weight if some candidate has a density, else FIFO.
Ordered(ts, cands) ==
    IF \E i \in cands : ts[i].density > 0
    THEN Sorted(cands, EvictionOrder(ts, cands)) ELSE Ascending(cands)

Pass1(ts) == Ordered(ts, Evictable(ts, "plain"))

\* A mutation: pass 2 sorts both kinds together.
Pass2Mixed(ts) == Ordered(ts, Evictable(ts, "plain") \union Evictable(ts, "priority"))

Pass2(ts) == Pass1(ts) \o Ordered(ts, Evictable(ts, "priority"))

---------------------------------------------------------------------------
(* The walk along it *)

\* What the first k turns of an order free, and with how many enough is freed.
Freed(ts, order, k) == Total([j \in DOMAIN order |-> ts[order[j]].tokens], 1..k)
Enough(ts, order, n) == {k \in DOMAIN order : Freed(ts, order, k) >= n}

Selection(ts, order, k, pass) ==
    [evicted |-> SubSeq(order, 1, k), freed |-> Freed(ts, order, k), pass |-> pass,
     pressure |-> pass = 3]

\* A mutation: freed is not reset before pass 2.
SelectCountingTwice(ts, n) ==
    LET first == Pass1(ts)
        second == Pass2(ts)
        left == n - Freed(ts, first, Len(first))
    IN  IF n <= 0 THEN NoWork
        ELSE IF Enough(ts, first, n) # {} THEN Selection(ts, first, Min(Enough(ts, first, n)), 1)
        ELSE IF Enough(ts, second, left) # {}
             THEN Selection(ts, second, Min(Enough(ts, second, left)), 2)
        ELSE Selection(ts, second, Len(second), 3)

\* The walk of a pass stops at the first turn with which enough is freed.
select_for_eviction(ts, n) ==
    LET first == Pass1(ts)
        second == Pass2(ts)
    IN  IF n <= 0 THEN NoWork
        ELSE IF Enough(ts, first, n) # {} THEN Selection(ts, first, Min(Enough(ts, first, n)), 1)
        ELSE IF Enough(ts, second, n) # {} THEN Selection(ts, second, Min(Enough(ts, second, n)), 2)
        ELSE Selection(ts, second, Len(second), 3)

SelectorInit == turns \in Conversations /\ need \in 0..MaxNeed /\ result = NoWork

Select ==
    /\ result' = select_for_eviction(turns, need)
    /\ UNCHANGED <<turns, need>>

SelectorSpec == SelectorInit /\ [][Select]_selectorVars

---------------------------------------------------------------------------
(* Properties.  Each speaks of a selection that has been made. *)

Made == result.pass > 0
Evicted == Range(result.evicted)
Available(kind) == Evictable(turns, kind)
TokensOf(S) == Total([i \in DOMAIN turns |-> turns[i].tokens], S)

\* The selection frees what was asked for, reports as much, and takes no turn
\* more: the last one taken was still missing.  If it does not free enough it
\* says so, and has taken every turn it may take.
FreesWhatIsNeeded ==
    Made =>
        /\ result.freed = TokensOf(Evicted)
        /\ result.pressure <=> TokensOf(Evicted) < need
        /\ IF result.pressure THEN Evicted = Available("plain") \union Available("priority")
           ELSE TokensOf(Evicted \ {Last(result.evicted)}) < need

\* Priority turns are the last resort (docs/architecture/06, pass 2): one goes
\* only if all the others that may go would not have been enough.
PriorityIsLastResort ==
    Evicted \intersect Available("priority") # {} =>
        /\ Available("plain") \subseteq Evicted
        /\ TokensOf(Available("plain")) < need

\* No kept turn is heavier than one of its kind that goes, once a density
\* counts among them.
KeepsDenseTurns ==
    \A kind \in {"plain", "priority"} :
        (\E i \in Available(kind) : turns[i].density > 0) =>
            \A gone \in Available(kind) \intersect Evicted,
               kept \in Available(kind) \ Evicted :
                ~Heavier(turns[kept], turns[gone])
=============================================================================

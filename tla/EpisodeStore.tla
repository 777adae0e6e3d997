---------------------------- MODULE EpisodeStore ----------------------------
(***************************************************************************)
(* What the archive promises its callers, without its SQL: archive_raw is  *)
(* one atomic, idempotent put.  Storing a turn gives the id it is already  *)
(* stored under, or stores it under an id nobody has heard of; the only    *)
(* way out of the store is to be forgotten, which a purge does.  The       *)
(* modules that use the archive take a put as one step on the strength of  *)
(* Archive implementing this specification.                                *)
(***************************************************************************)
CONSTANTS Writers, Turns, Ids

VARIABLES
    contents,    \* the stored pairs [turn, id]
    receipts     \* the pairs each caller has been given in its current call

vars == <<contents, receipts>>

Pair == [turn : Turns, id : Ids]

TypeOK ==
    /\ contents \subseteq Pair
    /\ receipts \in [Writers -> SUBSET Pair]

Init ==
    /\ contents = {}
    /\ receipts = [w \in Writers |-> {}]

Unheard(id) ==
    /\ \A c \in contents : c.id # id
    /\ \A w \in Writers : \A c \in receipts[w] : c.id # id

\* The turn is already stored.
Find(w) ==
    /\ \E c \in contents :
        receipts' = [receipts EXCEPT ![w] = @ \union {c}]
    /\ UNCHANGED contents

\* The turn is new.
Store(w) ==
    \E c \in Pair :
        /\ \A d \in contents : d.turn # c.turn
        /\ Unheard(c.id)
        /\ contents' = contents \union {c}
        /\ receipts' = [receipts EXCEPT ![w] = @ \union {c}]

\* A call ends, by returning or by an error; an error loses receipts.
Release(w) ==
    /\ \E kept \in SUBSET receipts[w] :
        receipts' = [receipts EXCEPT ![w] = kept]
    /\ UNCHANGED contents

Restart ==
    /\ receipts' = [w \in Writers |-> {}]
    /\ UNCHANGED contents

Forget ==
    /\ \E doomed \in SUBSET contents : contents' = contents \ doomed
    /\ UNCHANGED receipts

Next ==
    \/ \E w \in Writers : Find(w) \/ Store(w) \/ Release(w)
    \/ Restart
    \/ Forget

Spec == Init /\ [][Next]_vars
=============================================================================

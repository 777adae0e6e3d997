---------------------------- MODULE ArchiveProofs ----------------------------
(***************************************************************************)
(* Proofs about Archive for any number of threads, turns, ids, errors,     *)
(* crashes and purges.                                                     *)
(***************************************************************************)
EXTENDS Archive, SequenceTheorems, TLAPS

\* A call inside its loop has a turn at hand.
BusyHasTurn ==
    \A w \in Writers :
        pc[w] \in {"select", "insert", "fts", "reselect"} => todo[w] # <<>>

\* A call about to write the mirror row knows the id of its episode.
InsertedHasId == \A w \in Writers : pc[w] = "fts" => cand[w] \in Ids

TypeInv == TypeOK /\ BusyHasTurn /\ InsertedHasId

\* What an append of a receipt does to the thread's variables.
LEMMA ReturnType ==
    ASSUME TypeInv, NEW w \in Writers, NEW id \in Ids, todo[w] # <<>>,
           Return(w, id)
    PROVE  /\ pc' \in [Writers -> Statements \union {"idle"}]
           /\ kind' \in [Writers -> Kinds \union {"none"}]
           /\ todo' \in [Writers -> Seq(Turns)]
           /\ held' \in [Writers -> SUBSET Receipt]
           /\ cand' \in [Writers -> Ids \union {NoId}]
           /\ BusyHasTurn' /\ InsertedHasId'
<1>1. Head(todo[w]) \in Turns /\ Tail(todo[w]) \in Seq(Turns)
  BY HeadTailProperties DEF TypeInv, TypeOK
<1>2. [turn |-> Head(todo[w]), id |-> id] \in Receipt
  BY <1>1 DEF Receipt
<1>3. todo' \in [Writers -> Seq(Turns)] /\ held' \in [Writers -> SUBSET Receipt]
  BY <1>1, <1>2 DEF Return, TypeInv, TypeOK
<1>4. /\ pc' \in [Writers -> Statements \union {"idle"}]
      /\ kind' \in [Writers -> Kinds \union {"none"}]
      /\ cand' \in [Writers -> Ids \union {NoId}]
  BY DEF Return, TypeInv, TypeOK, Statements
<1>5. BusyHasTurn' /\ InsertedHasId'
  BY <1>4 DEF Return, TypeInv, TypeOK, BusyHasTurn, InsertedHasId, Statements
<1> QED BY <1>3, <1>4, <1>5

\* What an exception does to them.
LEMMA AbortType ==
    ASSUME TypeInv, NEW w \in Writers, Abort(w)
    PROVE  /\ pc' \in [Writers -> Statements \union {"idle"}]
           /\ kind' \in [Writers -> Kinds \union {"none"}]
           /\ todo' \in [Writers -> Seq(Turns)]
           /\ held' \in [Writers -> SUBSET Receipt]
           /\ cand' \in [Writers -> Ids \union {NoId}]
           /\ dropped' = dropped /\ purged' = purged
           /\ BusyHasTurn' /\ InsertedHasId'
<1>1. <<>> \in Seq(Turns)
  BY EmptySeq
<1>2. /\ todo' \in [Writers -> Seq(Turns)]
      /\ cand' \in [Writers -> Ids \union {NoId}]
      /\ dropped' = dropped /\ purged' = purged
  BY <1>1 DEF Abort, TypeInv, TypeOK
<1>3. /\ pc' \in [Writers -> Statements \union {"idle"}]
      /\ kind' \in [Writers -> Kinds \union {"none"}]
      /\ held' \in [Writers -> SUBSET Receipt]
  BY DEF Abort, Leave, TypeInv, TypeOK, Statements
<1>4. BusyHasTurn' /\ InsertedHasId'
  BY <1>3 DEF Abort, Leave, TypeInv, TypeOK, BusyHasTurn, InsertedHasId, Statements
<1> QED BY <1>2, <1>3, <1>4

LEMMA TypeInit == Init => TypeInv
BY ArchiveAssumption, EmptySeq DEF Init, TypeInv, TypeOK, BusyHasTurn, InsertedHasId, Statements

LEMMA TypeStep == TypeInv /\ [Next]_vars => TypeInv'
<1> SUFFICES ASSUME TypeInv, [Next]_vars PROVE TypeInv'
  OBVIOUS
<1> USE DEF TypeInv
<1>1. ASSUME NEW w \in Writers, Begin(w) PROVE TypeInv'
  <2>1. PICK k \in Kinds, batch \in Batches :
          /\ kind' = [kind EXCEPT ![w] = k]
          /\ todo' = [todo EXCEPT ![w] = batch]
    BY <1>1 DEF Begin
  <2>2. batch \in Seq(Turns) /\ batch # <<>>
    <3>1. PICK n \in 1..MaxBatch : batch \in [1..n -> Turns]
      BY DEF Batches
    <3>2. n \in Nat /\ n >= 1
      BY ArchiveAssumption
    <3>3. batch \in Seq(Turns) /\ Len(batch) = n
      BY <3>1, <3>2, SeqDef
    <3> QED BY <3>2, <3>3
  <2>3. TypeOK'
    BY <1>1, <2>1, <2>2 DEF Begin, TypeOK, Statements
  <2>4. BusyHasTurn' /\ InsertedHasId'
    BY <1>1, <2>1, <2>2 DEF Begin, TypeOK, BusyHasTurn, InsertedHasId
  <2> QED BY <2>3, <2>4
<1>2. ASSUME NEW w \in Writers, SelectEpisode(w) PROVE TypeInv'
  <2>1. todo[w] # <<>>
    BY <1>2 DEF SelectEpisode, BusyHasTurn
  <2>2. CASE \E r \in RowsFor(Head(todo[w])) : Return(w, r.id)
    <3>1. PICK r \in RowsFor(Head(todo[w])) : Return(w, r.id)
      BY <2>2
    <3>2. r.id \in Ids
      BY DEF RowsFor, TypeOK, Row
    <3> QED BY <1>2, <2>1, <3>1, <3>2, ReturnType DEF SelectEpisode, TypeOK
  <2>3. CASE /\ RowsFor(Head(todo[w])) = {}
             /\ pc' = [pc EXCEPT ![w] = "insert"]
             /\ UNCHANGED <<kind, todo, held, cand>>
    BY <1>2, <2>1, <2>3 DEF SelectEpisode, TypeOK, BusyHasTurn, InsertedHasId, Statements
  <2> QED BY <1>2, <2>2, <2>3 DEF SelectEpisode
<1>3. ASSUME NEW w \in Writers, InsertEpisode(w) PROVE TypeInv'
  <2>1. todo[w] # <<>>
    BY <1>3 DEF InsertEpisode, BusyHasTurn
  <2>2. Head(todo[w]) \in Turns
    BY <2>1, HeadTailProperties DEF TypeOK
  <2>3. ASSUME NEW id \in FreshIds PROVE NewRow(w, id) \in Row
    BY <2>2 DEF NewRow, Row, FreshIds
  <2>4. episodes' \subseteq Row /\ cand' \in [Writers -> Ids \union {NoId}]
    BY <1>3, <2>3 DEF InsertEpisode, TypeOK, FreshIds
  <2>5. pc' \in [Writers -> Statements \union {"idle"}] /\ BusyHasTurn' /\ InsertedHasId'
    BY <1>3, <2>1, <2>3 DEF FreshIds, InsertEpisode, TypeOK, BusyHasTurn, InsertedHasId, Statements
  <2> QED BY <1>3, <2>4, <2>5 DEF InsertEpisode, TypeOK
<1>4. ASSUME NEW w \in Writers, InsertFts(w) PROVE TypeInv'
  <2>1. todo[w] # <<>> /\ cand[w] \in Ids
    BY <1>4 DEF InsertFts, BusyHasTurn, InsertedHasId
  <2> QED BY <1>4, <2>1, ReturnType DEF InsertFts, TypeOK
<1>5. ASSUME NEW w \in Writers, Reselect(w) PROVE TypeInv'
  <2>1. todo[w] # <<>>
    BY <1>5 DEF Reselect, BusyHasTurn
  <2>2. CASE \E r \in RowsFor(Head(todo[w])) : Return(w, r.id) /\ UNCHANGED <<dropped, purged>>
    <3>1. PICK r \in RowsFor(Head(todo[w])) : Return(w, r.id)
      BY <2>2
    <3>2. r.id \in Ids
      BY DEF RowsFor, TypeOK, Row
    <3> QED BY <1>5, <2>1, <2>2, <3>1, <3>2, ReturnType DEF Reselect, TypeOK
  <2>3. CASE Abort(w)
    BY <1>5, <2>3, AbortType DEF Reselect, TypeOK
  <2> QED BY <1>5, <2>2, <2>3 DEF Reselect
<1>6. ASSUME NEW w \in Writers, Finish(w) PROVE TypeInv'
  <2>1. ASSUME NEW ids, NEW b \in BOOLEAN PROVE Mark(ids, b) \subseteq Row
    BY DEF Mark, Row, TypeOK
  <2>2. TurnsOf(held[w]) \subseteq Turns
    BY DEF TurnsOf, TypeOK, Receipt
  <2>3. episodes' \subseteq Row /\ dropped' \subseteq Turns
    BY <1>6, <2>1, <2>2 DEF Finish, TypeOK
  <2>4. /\ pc' \in [Writers -> Statements \union {"idle"}]
        /\ kind' \in [Writers -> Kinds \union {"none"}]
        /\ held' \in [Writers -> SUBSET Receipt]
    BY <1>6 DEF Finish, Leave, TypeOK, Statements
  <2>5. BusyHasTurn' /\ InsertedHasId'
    BY <1>6 DEF Finish, Leave, TypeOK, BusyHasTurn, InsertedHasId, Statements
  <2> QED BY <1>6, <2>3, <2>4, <2>5 DEF Finish, TypeOK
<1>7. ASSUME NEW w \in Writers, StatementError(w) PROVE TypeInv'
  <2>1. faults' \in 0..MaxFaults
    BY <1>7, ArchiveAssumption DEF StatementError, TypeOK
  <2> QED BY <1>7, <2>1, AbortType DEF StatementError, TypeOK
<1>8. CASE Crash
  <2>1. faults' \in 0..MaxFaults
    BY <1>8, ArchiveAssumption DEF Crash, TypeOK
  <2> QED BY <1>8, <2>1, EmptySeq DEF Crash, TypeOK, BusyHasTurn, InsertedHasId, Statements
<1>9. ASSUME NEW doomed \in SUBSET episodes, Purge(doomed) PROVE TypeInv'
  <2>1. purges' \in 0..MaxPurges
    BY <1>9, ArchiveAssumption DEF Purge, TypeOK
  <2>2. purged' \subseteq Turns
    BY <1>9 DEF Purge, TypeOK, Row
  <2> QED BY <1>9, <2>1, <2>2 DEF Purge, TypeOK, BusyHasTurn, InsertedHasId
<1>10. CASE UNCHANGED vars
  BY <1>10 DEF vars, TypeOK, BusyHasTurn, InsertedHasId
<1> QED
  BY <1>1, <1>2, <1>3, <1>4, <1>5, <1>6, <1>7, <1>8, <1>9, <1>10
     DEF Next, Step, PurgeAll, PurgeRescued

\* Every variable keeps its type under every interleaving.
THEOREM TypeCorrect == Spec => []TypeOK
<1>1. TypeInv => TypeOK
  BY DEF TypeInv
<1> QED BY <1>1, TypeInit, TypeStep, PTL DEF Spec

---------------------------------------------------------------------------
(* The safety invariants.  ReceiptsValid is not inductive by itself: the id  *)
(* a call is about to put into episodes_fts becomes a receipt one step       *)
(* later, so it has to be good already, and it has to be good against rows   *)
(* that other threads insert meanwhile.                                      *)

InsertedValid ==
    \A w \in Writers : pc[w] = "fts" => Names(cand[w], Head(todo[w]))

SafeInv ==
    /\ UniqueTurn
    /\ UniqueId
    /\ ReceiptsValid
    /\ InsertedValid
    /\ DroppedArchived

\* An id goes on naming its turn when rows leave only by a purge and no row
\* comes in under that id.
LEMMA NamesKept ==
    ASSUME NEW id, NEW t, Names(id, t),
           purged \subseteq purged',
           \A r \in episodes : \/ r.turn \in purged'
                               \/ \E s \in episodes' : s.id = r.id /\ s.turn = r.turn,
           \A s \in episodes' : s.id = id =>
               \E r \in episodes : r.id = s.id /\ r.turn = s.turn
    PROVE  Names(id, t)'
BY DEF Names

\* A stored turn is named by the id of its row.
LEMMA RowNames ==
    ASSUME UniqueId, NEW r \in episodes
    PROVE  Names(r.id, r.turn)
BY DEF UniqueId, Names

LEMMA ReturnSafe ==
    ASSUME TypeInv, SafeInv, NEW w \in Writers, NEW id \in Ids,
           Names(id, Head(todo[w])), Return(w, id),
           UNCHANGED <<episodes, dropped, purged>>
    PROVE  SafeInv'
<1>1. ASSUME NEW v \in Writers, NEW c \in held'[v] PROVE Names(c.id, c.turn)
  <2>1. CASE c \in held[v]
    BY <2>1 DEF SafeInv, ReceiptsValid
  <2>2. CASE c = [turn |-> Head(todo[w]), id |-> id]
    BY <2>2
  <2> QED BY <2>1, <2>2 DEF Return, TypeInv, TypeOK
<1>2. ReceiptsValid'
  BY <1>1 DEF ReceiptsValid, Names
<1>3. InsertedValid'
  BY DEF SafeInv, InsertedValid, Names, Return, TypeInv, TypeOK
<1> QED
  BY <1>2, <1>3 DEF SafeInv, UniqueTurn, UniqueId, DroppedArchived, RowsFor

LEMMA AbortSafe ==
    ASSUME TypeInv, SafeInv, NEW w \in Writers, Abort(w), UNCHANGED episodes
    PROVE  SafeInv'
<1>1. \A v \in Writers : held'[v] \subseteq held[v]
  BY DEF Abort, Leave, TypeInv, TypeOK
<1>2. ReceiptsValid'
  BY <1>1 DEF SafeInv, ReceiptsValid, Names, Abort
<1>3. InsertedValid'
  BY DEF SafeInv, InsertedValid, Names, Abort, Leave, TypeInv, TypeOK
<1> QED
  BY <1>2, <1>3 DEF Abort, SafeInv, UniqueTurn, UniqueId, DroppedArchived, RowsFor

LEMMA SafeInit == Init => SafeInv
BY DEF Init, SafeInv, UniqueTurn, UniqueId, ReceiptsValid, InsertedValid,
       DroppedArchived

LEMMA SafeStep == TypeInv /\ SafeInv /\ [Next]_vars => SafeInv'
<1> SUFFICES ASSUME TypeInv, SafeInv, [Next]_vars PROVE SafeInv'
  OBVIOUS
<1>1. ASSUME NEW w \in Writers, Begin(w) PROVE SafeInv'
  BY <1>1 DEF Begin, TypeInv, TypeOK, SafeInv, UniqueTurn, UniqueId, ReceiptsValid,
              InsertedValid, Names, DroppedArchived, RowsFor
<1>2. ASSUME NEW w \in Writers, SelectEpisode(w) PROVE SafeInv'
  <2>1. ASSUME NEW r \in RowsFor(Head(todo[w])), Return(w, r.id) PROVE SafeInv'
    <3>1. r \in episodes /\ r.turn = Head(todo[w]) /\ r.id \in Ids
      BY DEF RowsFor, TypeInv, TypeOK, Row
    <3>2. Names(r.id, Head(todo[w]))
      BY <3>1, RowNames DEF SafeInv
    <3> QED BY <1>2, <2>1, <3>1, <3>2, ReturnSafe DEF SelectEpisode
  <2>2. CASE /\ pc' = [pc EXCEPT ![w] = "insert"]
             /\ UNCHANGED <<kind, todo, held, cand>>
    BY <1>2, <2>2 DEF SelectEpisode, TypeInv, TypeOK, SafeInv, UniqueTurn, UniqueId,
                      ReceiptsValid, InsertedValid, Names, DroppedArchived, RowsFor
  <2> QED BY <1>2, <2>1, <2>2 DEF SelectEpisode
<1>3. ASSUME NEW w \in Writers, InsertEpisode(w) PROVE SafeInv'
  <2>1. ASSUME NEW id \in FreshIds, RowsFor(Head(todo[w])) = {},
               episodes' = episodes \union {NewRow(w, id)},
               cand' = [cand EXCEPT ![w] = id],
               pc' = [pc EXCEPT ![w] = "fts"]
        PROVE  SafeInv'
    <3> DEFINE n == NewRow(w, id)
    <3>1. n.id = id /\ n.turn = Head(todo[w])
      BY DEF NewRow
    <3>2. UNCHANGED <<held, todo, dropped, purged>>
      BY <1>3 DEF InsertEpisode
    <3>3. ASSUME NEW i, NEW t, Names(i, t), i # id PROVE Names(i, t)'
      BY <2>1, <3>1, <3>2, <3>3 DEF Names
    <3>4. UniqueTurn'
      BY <2>1, <3>1 DEF SafeInv, UniqueTurn, RowsFor
    <3>5. UniqueId'
      BY <2>1, <3>1 DEF SafeInv, UniqueId, FreshIds
    <3>6. ReceiptsValid'
      <4>1. ASSUME NEW v \in Writers, NEW c \in held[v] PROVE c.id # id
        BY <2>1 DEF FreshIds, IdsOf
      <4> QED BY <3>2, <3>3, <4>1 DEF SafeInv, ReceiptsValid
    <3>7. InsertedValid'
      <4>1. ASSUME NEW v \in Writers, v # w, pc[v] = "fts"
            PROVE  Names(cand[v], Head(todo[v]))'
        <5>1. cand[v] # id /\ cand'[v] = cand[v]
          BY <2>1, <4>1 DEF FreshIds, TypeInv, TypeOK
        <5>2. Names(cand[v], Head(todo[v]))
          BY <4>1 DEF SafeInv, InsertedValid
        <5>3. todo'[v] = todo[v]
          BY <3>2
        <5>4. \A i, t : Names(i, t) /\ i # id => Names(i, t)'
          BY <3>3
        <5>5. /\ \A r \in episodes' : r.id = cand[v] => r.turn = Head(todo[v])
              /\ Head(todo[v]) \notin purged' => \E r \in episodes' : r.id = cand[v]
          BY <5>1, <5>2, <5>4 DEF Names
        <5> QED BY <5>1, <5>3, <5>5 DEF Names
      <4>2. Names(cand[w], Head(todo[w]))'
        <5>1. cand'[w] = id /\ todo'[w] = todo[w]
          BY <2>1, <3>2 DEF TypeInv, TypeOK
        <5>2. \A r \in episodes : r.id # id
          BY DEF FreshIds
        <5> QED BY <2>1, <3>1, <5>1, <5>2 DEF Names
      <4> QED BY <2>1, <4>1, <4>2 DEF InsertedValid, TypeInv, TypeOK
    <3>8. DroppedArchived'
      BY <2>1, <3>2 DEF SafeInv, DroppedArchived, RowsFor
    <3> QED BY <3>4, <3>5, <3>6, <3>7, <3>8 DEF SafeInv
  <2>2. CASE /\ pc' = [pc EXCEPT ![w] = "reselect"]
             /\ UNCHANGED <<episodes, cand>>
    BY <1>3, <2>2 DEF InsertEpisode, TypeInv, TypeOK, SafeInv, UniqueTurn, UniqueId,
                      ReceiptsValid, InsertedValid, Names, DroppedArchived, RowsFor
  <2> QED BY <1>3, <2>1, <2>2 DEF InsertEpisode
<1>4. ASSUME NEW w \in Writers, InsertFts(w) PROVE SafeInv'
  <2>1. cand[w] \in Ids /\ Names(cand[w], Head(todo[w]))
    BY <1>4 DEF InsertFts, TypeInv, InsertedHasId, SafeInv, InsertedValid
  <2> QED BY <1>4, <2>1, ReturnSafe DEF InsertFts
<1>5. ASSUME NEW w \in Writers, Reselect(w) PROVE SafeInv'
  <2>1. ASSUME NEW r \in RowsFor(Head(todo[w])), Return(w, r.id),
               UNCHANGED <<dropped, purged>>
        PROVE  SafeInv'
    <3>1. r \in episodes /\ r.turn = Head(todo[w]) /\ r.id \in Ids
      BY DEF RowsFor, TypeInv, TypeOK, Row
    <3>2. Names(r.id, Head(todo[w]))
      BY <3>1, RowNames DEF SafeInv
    <3> QED BY <1>5, <2>1, <3>1, <3>2, ReturnSafe DEF Reselect
  <2>2. CASE Abort(w)
    BY <1>5, <2>2, AbortSafe DEF Reselect
  <2> QED BY <1>5, <2>1, <2>2 DEF Reselect
<1>6. ASSUME NEW w \in Writers, Finish(w) PROVE SafeInv'
  <2>1. \A v \in Writers : held'[v] \subseteq held[v]
    BY <1>6 DEF Finish, Leave, TypeInv, TypeOK
  <2>2. \A v \in Writers : pc'[v] = "fts" =>
            pc[v] = "fts" /\ cand'[v] = cand[v] /\ todo'[v] = todo[v]
    BY <1>6 DEF Finish, Leave, TypeInv, TypeOK
  <2>3. CASE UNCHANGED episodes /\ dropped' = dropped \union TurnsOf(held[w])
    <3>1. UNCHANGED purged
      BY <1>6 DEF Finish
    <3>2. ReceiptsValid' /\ InsertedValid'
      BY <2>1, <2>2, <2>3, <3>1 DEF SafeInv, ReceiptsValid, InsertedValid, Names
    <3>3. ASSUME NEW c \in held[w], c.turn \notin purged
          PROVE  RowsFor(c.turn) # {}
      BY <3>3 DEF SafeInv, ReceiptsValid, Names, RowsFor
    <3>4. DroppedArchived'
      BY <2>3, <3>1, <3>3 DEF SafeInv, DroppedArchived, RowsFor, TurnsOf
    <3> QED BY <2>3, <3>2, <3>4 DEF SafeInv, UniqueTurn, UniqueId
  <2>4. ASSUME NEW ids, NEW b \in BOOLEAN, episodes' = Mark(ids, b), UNCHANGED dropped
        PROVE  SafeInv'
    <3> DEFINE mark(r) == IF r.id \in ids
                          THEN [r EXCEPT !.evicted = TRUE, !.rescued = @ \/ b]
                          ELSE r
    <3>1. \A r \in episodes : mark(r).id = r.id /\ mark(r).turn = r.turn
      BY DEF TypeInv, TypeOK, Row
    <3>2. episodes' = {mark(r) : r \in episodes}
      BY <2>4 DEF Mark
    <3>3. UNCHANGED purged
      BY <1>6 DEF Finish
    <3> HIDE DEF mark
    <3>4. \A r \in episodes : \E s \in episodes' : s.id = r.id /\ s.turn = r.turn
      BY <3>1, <3>2
    <3>5. \A s \in episodes' : \E r \in episodes :
              s = mark(r) /\ r.id = s.id /\ r.turn = s.turn
      BY <3>1, <3>2
    <3>6. ASSUME NEW i, NEW t, Names(i, t) PROVE Names(i, t)'
      BY <3>3, <3>4, <3>5, <3>6 DEF Names
    <3>7. ReceiptsValid'
      BY <2>1, <3>6 DEF SafeInv, ReceiptsValid
    <3>8. InsertedValid'
      <4>1. ASSUME NEW v \in Writers, pc'[v] = "fts"
            PROVE  /\ \A r \in episodes' : r.id = cand[v] => r.turn = Head(todo[v])
                   /\ Head(todo[v]) \notin purged' => \E r \in episodes' : r.id = cand[v]
        <5>1. Names(cand[v], Head(todo[v]))
          BY <2>2, <4>1 DEF SafeInv, InsertedValid
        <5>2. \A i, t : Names(i, t) => Names(i, t)'
          BY <3>6
        <5> QED BY <5>1, <5>2 DEF Names
      <4> QED BY <2>2, <4>1 DEF InsertedValid, Names
    <3>9. UniqueTurn' /\ UniqueId'
      BY <3>5 DEF SafeInv, UniqueTurn, UniqueId
    <3>10. DroppedArchived'
      BY <2>4, <3>3, <3>4 DEF SafeInv, DroppedArchived, RowsFor
    <3> QED BY <3>7, <3>8, <3>9, <3>10 DEF SafeInv
  <2>5. (kind[w] = "rescue") \in BOOLEAN
    OBVIOUS
  <2> QED BY <1>6, <2>3, <2>4, <2>5 DEF Finish
<1>7. ASSUME NEW w \in Writers, StatementError(w) PROVE SafeInv'
  BY <1>7, AbortSafe DEF StatementError
<1>8. CASE Crash
  BY <1>8 DEF Crash, SafeInv, UniqueTurn, UniqueId, ReceiptsValid, InsertedValid,
              Names, DroppedArchived, RowsFor
<1>9. ASSUME NEW doomed \in SUBSET episodes, Purge(doomed) PROVE SafeInv'
  <2>1. /\ episodes' = episodes \ doomed
        /\ purged' = purged \union {r.turn : r \in doomed}
        /\ UNCHANGED <<pc, todo, held, cand, dropped>>
    BY <1>9 DEF Purge
  <2>2. ASSUME NEW i, NEW t, Names(i, t) PROVE Names(i, t)'
    BY <2>1, <2>2 DEF Names
  <2>3. ReceiptsValid' /\ InsertedValid'
    BY <2>1, <2>2 DEF SafeInv, ReceiptsValid, InsertedValid, Names
  <2>4. UniqueTurn' /\ UniqueId'
    BY <2>1 DEF SafeInv, UniqueTurn, UniqueId
  <2>5. DroppedArchived'
    BY <2>1 DEF SafeInv, DroppedArchived, RowsFor
  <2> QED BY <2>3, <2>4, <2>5 DEF SafeInv
<1>10. CASE UNCHANGED vars
  BY <1>10 DEF vars, SafeInv, UniqueTurn, UniqueId, ReceiptsValid, InsertedValid,
               Names, DroppedArchived, RowsFor
<1> QED
  BY <1>1, <1>2, <1>3, <1>4, <1>5, <1>6, <1>7, <1>8, <1>9, <1>10
     DEF Next, Step, PurgeAll, PurgeRescued

LEMMA SafeAlways == Spec => [](TypeInv /\ SafeInv)
BY TypeInit, TypeStep, SafeInit, SafeStep, PTL DEF Spec

\* archive_raw deduplicates whatever the race: the archive never holds two
\* rows for one turn.
THEOREM TurnsStayUnique == Spec => []UniqueTurn
<1>1. SafeInv => UniqueTurn
  BY DEF SafeInv
<1> QED BY <1>1, SafeAlways, PTL

\* Rows never share an id.
THEOREM IdsStayUnique == Spec => []UniqueId
<1>1. SafeInv => UniqueId
  BY DEF SafeInv
<1> QED BY <1>1, SafeAlways, PTL

\* Every id archive_raw has returned to a running call names the turn it was
\* returned for, purges excepted.
THEOREM ReceiptsStayValid == Spec => []ReceiptsValid
<1>1. SafeInv => ReceiptsValid
  BY DEF SafeInv
<1> QED BY <1>1, SafeAlways, PTL

\* A turn leaves a payload only for the archive.
THEOREM NothingDroppedUnarchived == Spec => []DroppedArchived
<1>1. SafeInv => DroppedArchived
  BY DEF SafeInv
<1> QED BY <1>1, SafeAlways, PTL

---------------------------------------------------------------------------
(* Statements on rows *)

\* r is still there, under its turn, with the flags it had.
Persists(r) ==
    \E s \in episodes' :
        /\ s.id = r.id /\ s.turn = r.turn
        /\ r.evicted => s.evicted
        /\ r.rescued => s.rescued

\* An UPDATE keeps ids and turns, and only sets flags.
LEMMA Marked ==
    ASSUME TypeInv, NEW ids, NEW b \in BOOLEAN, episodes' = Mark(ids, b)
    PROVE  /\ \A r \in episodes : Persists(r)
           /\ \A s \in episodes' : \E r \in episodes : r.id = s.id /\ r.turn = s.turn
<1> DEFINE mark(r) == IF r.id \in ids
                      THEN [r EXCEPT !.evicted = TRUE, !.rescued = @ \/ b]
                      ELSE r
<1>1. ASSUME NEW r \in episodes
      PROVE  /\ mark(r).id = r.id /\ mark(r).turn = r.turn
             /\ r.evicted => mark(r).evicted
             /\ r.rescued => mark(r).rescued
  BY DEF TypeInv, TypeOK, Row
<1>2. episodes' = {mark(r) : r \in episodes}
  BY DEF Mark
<1> HIDE DEF mark
<1> QED BY <1>1, <1>2 DEF Persists

---------------------------------------------------------------------------
(* The lexical mirror *)

LEMMA MirrorInit == Init => FtsMirror
BY DEF Init, FtsMirror

\* A row that waits for its mirror row goes on waiting while other threads move.
LEMMA MirrorKept ==
    ASSUME FtsMirror, faults' = 0 => faults = 0, fts \subseteq fts',
           \A r \in episodes' : \E q \in episodes : q.id = r.id,
           \A w \in Writers : pc[w] = "fts" =>
               \/ cand[w] \in fts'
               \/ pc'[w] = "fts" /\ cand'[w] = cand[w]
    PROVE  FtsMirror'
BY DEF FtsMirror

LEMMA MirrorStep == TypeInv /\ FtsMirror /\ [Next]_vars => FtsMirror'
<1> SUFFICES ASSUME TypeInv, FtsMirror, [Next]_vars PROVE FtsMirror'
  OBVIOUS
<1> USE DEF TypeInv
<1>1. ASSUME NEW w \in Writers, Begin(w) PROVE FtsMirror'
  BY <1>1, MirrorKept DEF Begin, TypeOK
<1>2. ASSUME NEW w \in Writers, SelectEpisode(w) PROVE FtsMirror'
  BY <1>2, MirrorKept DEF SelectEpisode, Return, TypeOK
<1>3. ASSUME NEW w \in Writers, InsertEpisode(w) PROVE FtsMirror'
  <2>1. CASE UNCHANGED episodes
    BY <1>3, <2>1, MirrorKept DEF InsertEpisode, TypeOK
  <2>2. ASSUME NEW id \in FreshIds,
               episodes' = episodes \union {NewRow(w, id)},
               cand' = [cand EXCEPT ![w] = id], pc' = [pc EXCEPT ![w] = "fts"]
        PROVE  FtsMirror'
    <3>1. pc'[w] = "fts" /\ cand'[w] = id /\ NewRow(w, id).id = id
      BY <2>2 DEF TypeOK, NewRow
    <3>2. UNCHANGED <<faults, fts>> /\ pc[w] = "insert"
      BY <1>3 DEF InsertEpisode
    <3>3. \A v \in Writers : pc[v] = "fts" => pc'[v] = "fts" /\ cand'[v] = cand[v]
      BY <2>2, <3>2 DEF TypeOK
    <3> QED BY <2>2, <3>1, <3>2, <3>3 DEF FtsMirror
  <2> QED BY <1>3, <2>1, <2>2 DEF InsertEpisode
<1>4. ASSUME NEW w \in Writers, InsertFts(w) PROVE FtsMirror'
  <2>1. \A v \in Writers \ {w} : pc'[v] = pc[v] /\ cand'[v] = cand[v]
    BY <1>4 DEF InsertFts, Return, TypeOK
  <2>2. cand[w] \in fts'
    BY <1>4 DEF InsertFts
  <2> QED BY <1>4, <2>1, <2>2, MirrorKept DEF InsertFts
<1>5. ASSUME NEW w \in Writers, Reselect(w) PROVE FtsMirror'
  <2>1. \A v \in Writers \ {w} : pc'[v] = pc[v] /\ cand'[v] = cand[v]
    BY <1>5 DEF Reselect, Return, Abort, Leave, TypeOK
  <2>2. pc[w] = "reselect" /\ UNCHANGED <<episodes, fts, faults>>
    BY <1>5 DEF Reselect
  <2> QED BY <2>1, <2>2, MirrorKept
<1>6. ASSUME NEW w \in Writers, Finish(w) PROVE FtsMirror'
  <2>1. \A v \in Writers \ {w} : pc'[v] = pc[v] /\ cand'[v] = cand[v]
    BY <1>6 DEF Finish, Leave, TypeOK
  <2>2. pc[w] = "finish" /\ UNCHANGED <<fts, faults>>
    BY <1>6 DEF Finish
  <2>3. \A r \in episodes' : \E q \in episodes : q.id = r.id
    BY <1>6, Marked DEF Finish
  <2> QED BY <2>1, <2>2, <2>3, MirrorKept
<1>7. ASSUME NEW w \in Writers, StatementError(w) PROVE FtsMirror'
  <2>1. faults' # 0
    BY <1>7, ArchiveAssumption DEF StatementError, TypeOK
  <2> QED BY <2>1 DEF FtsMirror
<1>8. CASE Crash
  <2>1. faults' # 0
    BY <1>8, ArchiveAssumption DEF Crash, TypeOK
  <2> QED BY <2>1 DEF FtsMirror
<1>9. ASSUME NEW doomed \in SUBSET episodes, Purge(doomed) PROVE FtsMirror'
  BY <1>9, MirrorKept DEF Purge
<1>10. CASE UNCHANGED vars
  BY <1>10 DEF vars, FtsMirror
<1> QED
  BY <1>1, <1>2, <1>3, <1>4, <1>5, <1>6, <1>7, <1>8, <1>9, <1>10
     DEF Next, Step, PurgeAll, PurgeRescued

\* While nothing fails, every stored turn can be found by its words, but for
\* one whose thread is about to see to it (INSERT INTO episodes_fts).
THEOREM MirrorIsComplete == Spec => []FtsMirror
BY TypeInit, TypeStep, MirrorInit, MirrorStep, PTL DEF Spec

---------------------------------------------------------------------------
(* Rows stay *)

LEMMA RowsPersistStep ==
    ASSUME TypeInv, Next, NEW r \in episodes
    PROVE  (r.turn \in purged' /\ purges' = purges + 1) \/ Persists(r)
<1>1. ASSUME NEW w \in Writers, Finish(w) PROVE Persists(r)
  <2>1. CASE UNCHANGED episodes
    BY <2>1 DEF Persists
  <2> QED BY <1>1, <2>1, Marked DEF Finish
<1>2. ASSUME NEW w \in Writers,
             Begin(w) \/ SelectEpisode(w) \/ InsertEpisode(w) \/ InsertFts(w)
             \/ Reselect(w) \/ StatementError(w)
      PROVE  Persists(r)
  <2>1. r \in episodes'
    BY <1>2 DEF Begin, SelectEpisode, InsertEpisode, InsertFts, Reselect, StatementError
  <2> QED BY <2>1 DEF Persists
<1>3. CASE Crash
  BY <1>3 DEF Crash, Persists
<1>4. ASSUME NEW doomed \in SUBSET episodes, Purge(doomed)
      PROVE  (r.turn \in purged' /\ purges' = purges + 1) \/ Persists(r)
  BY <1>4 DEF Purge, Persists
<1> QED BY <1>1, <1>2, <1>3, <1>4 DEF Next, Step, PurgeAll, PurgeRescued

\* No thread takes a row out of the archive, renames it or clears one of its
\* flags: only a purge does, and it notes the turn.
THEOREM OnlyPurgesRemove == Spec => RowsPersist
<1>1. TypeInv /\ [Next]_vars =>
      [\A r \in episodes : (r.turn \in purged' /\ purges' = purges + 1) \/ Persists(r)]_vars
  BY RowsPersistStep
<1>2. [\A r \in episodes : (r.turn \in purged' /\ purges' = purges + 1) \/ Persists(r)]_vars =>
      [\A r \in episodes :
        \/ r.turn \in purged' /\ purges' = purges + 1
        \/ \E s \in episodes' :
            /\ s.id = r.id /\ s.turn = r.turn
            /\ r.evicted => s.evicted
            /\ r.rescued => s.rescued]_vars
  BY DEF Persists
<1> QED BY <1>1, <1>2, TypeInit, TypeStep, PTL DEF Spec, RowsPersist

---------------------------------------------------------------------------
(* The archive implements EpisodeStore *)

Receipts == [w \in Writers |-> HandedOut(w)]

\* Threads that do not move keep what they have been handed out.
LEMMA HandsKept ==
    ASSUME NEW w \in Writers,
           \A v \in Writers \ {w} : /\ pc'[v] = pc[v] /\ todo'[v] = todo[v]
                                    /\ held'[v] = held[v] /\ cand'[v] = cand[v]
    PROVE  Receipts' = [Receipts EXCEPT ![w] = HandedOut(w)']
<1>1. \A v \in Writers \ {w} : HandedOut(v)' = HandedOut(v)
  BY DEF HandedOut
<1> QED BY <1>1 DEF Receipts

\* archive_raw returns: its thread has one more receipt.
LEMMA ReturnHands ==
    ASSUME TypeInv, NEW w \in Writers, NEW id, Return(w, id)
    PROVE  Receipts' = [Receipts EXCEPT
                          ![w] = held[w] \union {[turn |-> Head(todo[w]), id |-> id]}]
<1>1. \A v \in Writers \ {w} : /\ pc'[v] = pc[v] /\ todo'[v] = todo[v]
                               /\ held'[v] = held[v] /\ cand'[v] = cand[v]
  BY DEF Return, TypeInv, TypeOK
<1>2. /\ held'[w] = held[w] \union {[turn |-> Head(todo[w]), id |-> id]}
      /\ pc'[w] # "fts"
  BY DEF Return, TypeInv, TypeOK
<1>3. HandedOut(w)' = held[w] \union {[turn |-> Head(todo[w]), id |-> id]}
  BY <1>2 DEF HandedOut
<1> QED BY <1>1, <1>3, HandsKept

\* A call ends, or its loop does: it keeps some of its receipts.
LEMMA ReleaseHands ==
    ASSUME NEW w \in Writers, UNCHANGED Contents, pc'[w] # "fts", held'[w] \subseteq held[w],
           \A v \in Writers \ {w} : /\ pc'[v] = pc[v] /\ todo'[v] = todo[v]
                                    /\ held'[v] = held[v] /\ cand'[v] = cand[v]
    PROVE  Store!Release(w)
<1>1. HandedOut(w)' = held'[w] /\ held'[w] \subseteq HandedOut(w)
  BY DEF HandedOut
<1>2. held'[w] \in SUBSET Receipts[w]
  BY <1>1 DEF Receipts
<1>3. Receipts' = [Receipts EXCEPT ![w] = held'[w]]
  BY <1>1, HandsKept
<1> QED BY <1>2, <1>3 DEF Store!Release, Receipts

\* archive_raw finds the turn, at first or after losing a race.
LEMMA FindHands ==
    ASSUME TypeInv, NEW w \in Writers, NEW r \in RowsFor(Head(todo[w])),
           Return(w, r.id), pc[w] # "fts", UNCHANGED episodes
    PROVE  Store!Find(w)
<1> DEFINE c == [turn |-> r.turn, id |-> r.id]
<1>1. r \in episodes /\ r.turn = Head(todo[w])
  BY DEF RowsFor
<1>2. c \in Contents
  BY <1>1 DEF Contents
<1>3. Receipts[w] = held[w]
  BY DEF Receipts, HandedOut
<1>4. Receipts' = [Receipts EXCEPT ![w] = Receipts[w] \union {c}]
  BY <1>1, <1>3, ReturnHands
<1>5. UNCHANGED Contents
  BY DEF Contents
<1> QED BY <1>2, <1>4, <1>5 DEF Store!Find, Receipts

\* The abstract put: what INSERT INTO episodes does when no row has the hash.
LEMMA StoreHands ==
    ASSUME TypeInv, NEW w \in Writers, NEW id \in FreshIds,
           pc[w] = "insert", RowsFor(Head(todo[w])) = {},
           episodes' = episodes \union {NewRow(w, id)},
           cand' = [cand EXCEPT ![w] = id],
           pc' = [pc EXCEPT ![w] = "fts"],
           UNCHANGED <<todo, held>>
    PROVE  Store!Store(w)
<1> DEFINE c == [turn |-> Head(todo[w]), id |-> id]
<1>1. Head(todo[w]) \in Turns /\ id \in Ids
  BY HeadTailProperties DEF TypeInv, TypeOK, BusyHasTurn, FreshIds
<1>2. c \in Store!Pair
  BY <1>1 DEF Store!Pair
<1>3. \A d \in Contents : d.turn # c.turn /\ d.id # c.id
  BY DEF Contents, RowsFor, FreshIds
<1>4. ASSUME NEW v \in Writers, NEW d \in Receipts[v] PROVE d.id # c.id
  BY DEF Receipts, HandedOut, FreshIds, IdsOf
<1>5. Store!Unheard(c.id)
  BY <1>3, <1>4 DEF Store!Unheard, Receipts
<1>6. Contents' = Contents \union {c}
  <2>1. NewRow(w, id).turn = c.turn /\ NewRow(w, id).id = c.id
    BY DEF NewRow
  <2>2. Contents' = Contents \union {[turn |-> NewRow(w, id).turn, id |-> NewRow(w, id).id]}
    BY DEF Contents
  <2> QED BY <2>1, <2>2
<1>7. HandedOut(w)' = Receipts[w] \union {c}
  BY DEF HandedOut, Receipts, TypeInv, TypeOK
<1>8. Receipts' = [Receipts EXCEPT ![w] = Receipts[w] \union {c}]
  BY <1>7, HandsKept DEF TypeInv, TypeOK
<1> HIDE DEF c
<1> QED BY <1>2, <1>3, <1>5, <1>6, <1>8 DEF Store!Store, Receipts

\* The mirror row: the put has taken effect already.
LEMMA MirrorHands ==
    ASSUME TypeInv, NEW w \in Writers, InsertFts(w)
    PROVE  UNCHANGED <<Contents, Receipts>>
<1>1. HandedOut(w) = held[w] \union {[turn |-> Head(todo[w]), id |-> cand[w]]}
  BY DEF InsertFts, HandedOut
<1>2. Receipts' = [Receipts EXCEPT ![w] = HandedOut(w)]
  BY <1>1, ReturnHands DEF InsertFts
<1>3. Receipts' = Receipts
  BY <1>2 DEF Receipts
<1> QED BY <1>3 DEF InsertFts, Contents

LEMMA StoreInit == Init => Store!Init
BY DEF Init, Store!Init, Contents, HandedOut

LEMMA StoreStep == TypeInv /\ [Next]_vars => [Store!Next]_<<Contents, Receipts>>
<1> SUFFICES ASSUME TypeInv, [Next]_vars
             PROVE  Store!Next \/ UNCHANGED <<Contents, Receipts>>
  OBVIOUS
<1>1. ASSUME NEW w \in Writers, Begin(w) PROVE UNCHANGED <<Contents, Receipts>>
  <2>1. \A v \in Writers : HandedOut(v)' = HandedOut(v)
    BY <1>1 DEF Begin, HandedOut, TypeInv, TypeOK
  <2> QED BY <1>1, <2>1 DEF Begin, Contents, Receipts
<1>2. ASSUME NEW w \in Writers, SelectEpisode(w)
      PROVE  Store!Next \/ UNCHANGED <<Contents, Receipts>>
  <2>1. CASE \E r \in RowsFor(Head(todo[w])) : Return(w, r.id)
    BY <1>2, <2>1, FindHands DEF SelectEpisode, Store!Next
  <2>2. CASE pc' = [pc EXCEPT ![w] = "insert"] /\ UNCHANGED <<kind, todo, held, cand>>
    <3>1. \A v \in Writers : HandedOut(v)' = HandedOut(v)
      BY <1>2, <2>2 DEF SelectEpisode, HandedOut, TypeInv, TypeOK
    <3> QED BY <1>2, <3>1 DEF SelectEpisode, Contents, Receipts
  <2> QED BY <1>2, <2>1, <2>2 DEF SelectEpisode
<1>3. ASSUME NEW w \in Writers, InsertEpisode(w)
      PROVE  Store!Next \/ UNCHANGED <<Contents, Receipts>>
  <2>1. CASE RowsFor(Head(todo[w])) = {}
    BY <1>3, <2>1, StoreHands DEF InsertEpisode, Store!Next
  <2>2. CASE pc' = [pc EXCEPT ![w] = "reselect"] /\ UNCHANGED <<episodes, cand>>
    <3>1. \A v \in Writers : HandedOut(v)' = HandedOut(v)
      BY <1>3, <2>2 DEF InsertEpisode, HandedOut, TypeInv, TypeOK
    <3> QED BY <2>2, <3>1 DEF Contents, Receipts
  <2> QED BY <1>3, <2>1, <2>2 DEF InsertEpisode
<1>4. ASSUME NEW w \in Writers, InsertFts(w) PROVE UNCHANGED <<Contents, Receipts>>
  BY <1>4, MirrorHands
<1>5. ASSUME NEW w \in Writers, Abort(w), UNCHANGED episodes PROVE Store!Next
  <2>1. /\ pc'[w] # "fts" /\ held'[w] \subseteq held[w]
        /\ \A v \in Writers \ {w} : /\ pc'[v] = pc[v] /\ todo'[v] = todo[v]
                                    /\ held'[v] = held[v] /\ cand'[v] = cand[v]
    BY <1>5 DEF Abort, Leave, TypeInv, TypeOK
  <2> QED BY <1>5, <2>1, ReleaseHands DEF Store!Next, Contents
<1>6. ASSUME NEW w \in Writers, Reselect(w) PROVE Store!Next
  BY <1>5, <1>6, FindHands DEF Reselect, Store!Next
<1>7. ASSUME NEW w \in Writers, Finish(w) PROVE Store!Next
  <2>1. UNCHANGED Contents
    <3>1. (kind[w] = "rescue") \in BOOLEAN
      OBVIOUS
    <3>2. ASSUME episodes' = Mark(IdsOf(held[w]), kind[w] = "rescue")
          PROVE  /\ \A r \in episodes : \E s \in episodes' : s.id = r.id /\ s.turn = r.turn
                 /\ \A s \in episodes' : \E r \in episodes : r.id = s.id /\ r.turn = s.turn
      BY <3>1, <3>2, Marked DEF Persists
    <3> QED BY <1>7, <3>2 DEF Finish, Contents
  <2>2. /\ pc'[w] # "fts" /\ held'[w] \subseteq held[w]
        /\ \A v \in Writers \ {w} : /\ pc'[v] = pc[v] /\ todo'[v] = todo[v]
                                    /\ held'[v] = held[v] /\ cand'[v] = cand[v]
    BY <1>7 DEF Finish, Leave, TypeInv, TypeOK
  <2> QED BY <2>1, <2>2, ReleaseHands DEF Store!Next
<1>8. ASSUME NEW w \in Writers, StatementError(w) PROVE Store!Next
  BY <1>5, <1>8 DEF StatementError
<1>9. CASE Crash
  <2>1. Receipts' = [w \in Writers |-> {}]
    BY <1>9 DEF Crash, Receipts, HandedOut
  <2> QED BY <1>9, <2>1 DEF Crash, Store!Next, Store!Restart, Receipts, Contents
<1>10. ASSUME NEW doomed \in SUBSET episodes, Purge(doomed) PROVE Store!Next
  <2>1. Contents' \subseteq Contents
    BY <1>10 DEF Purge, Contents
  <2>2. Contents' = Contents \ (Contents \ Contents')
    BY <2>1
  <2>3. UNCHANGED Receipts
    BY <1>10 DEF Purge, Receipts, HandedOut
  <2> QED BY <2>2, <2>3 DEF Store!Next, Store!Forget, Receipts
<1>11. CASE UNCHANGED vars
  BY <1>11 DEF vars, Contents, Receipts, HandedOut
<1> QED
  BY <1>1, <1>2, <1>3, <1>4, <1>6, <1>7, <1>8, <1>9, <1>10, <1>11
     DEF Next, Step, PurgeAll, PurgeRescued

\* Whatever the interleaving of statements, errors, crashes and purges, the
\* four statements of archive_raw and what its callers do with them are puts,
\* releases, restarts and forgettings of EpisodeStore.
THEOREM ArchiveImplementsStore == Spec => ArchiveIsStore
<1>1. TypeInv /\ [Next]_vars => [Store!Next]_Store!vars
  BY StoreStep DEF Store!vars, Receipts
<1> QED BY <1>1, TypeInit, TypeStep, StoreInit, PTL DEF Spec, ArchiveIsStore, Store!Spec
=============================================================================

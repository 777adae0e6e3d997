------------------------------ MODULE Archive ------------------------------
(***************************************************************************)
(* The episode archive of one project: archive_raw (archive/writer.py) and *)
(* the three calls of the proxy that write through it from executor        *)
(* threads (_detect_and_rescue, _maybe_evict and                           *)
(* _evict_inbound_to_ceiling in proxy/app.py), with `spillover purge`      *)
(* running in another process.                                             *)
(*                                                                         *)
(* Connections are opened with isolation_level=None, so each SQL statement *)
(* commits by itself: one action here is one statement, and the statements *)
(* of two threads interleave freely.  A turn is identified with its        *)
(* _hash_turn: two turns with the same role, content and tool calls are    *)
(* the same element of Turns.                                              *)
(***************************************************************************)
EXTENDS Naturals, Sequences, FiniteSets

CONSTANTS
    Writers,     \* executor threads that run an archiving call
    Turns,       \* turns up to _hash_turn
    Ids,         \* the values uuid.uuid4() may return
    NoId,        \* no id has been drawn
    MaxBatch,    \* bound: turns archived by one call
    MaxFaults,   \* bound: statement errors and process crashes
    MaxPurges    \* bound: runs of `spillover purge`

ASSUME ArchiveAssumption ==
    /\ NoId \notin Ids
    /\ MaxBatch \in Nat \ {0}
    /\ MaxFaults \in Nat
    /\ MaxPurges \in Nat

VARIABLES
    episodes,    \* rows of table episodes
    fts,         \* episode ids that have a row in episodes_fts
    pc,          \* the next statement of each thread
    kind,        \* the call each thread is running
    todo,        \* turns the call has still to archive
    held,        \* receipts: the ids archive_raw returned to the call
    cand,        \* the id of the row just inserted, not yet in episodes_fts
    dropped,     \* turns pre-forward eviction removed from a payload
    purged,      \* turns some purge has deleted from the archive
    faults,      \* statement errors and crashes so far
    purges       \* purges so far

tables == <<episodes, fts>>
threads == <<pc, kind, todo, held, cand>>
vars == <<episodes, fts, pc, kind, todo, held, cand,
          dropped, purged, faults, purges>>

Kinds == {"rescue", "post_evict", "pre_forward"}
Statements == {"select", "insert", "fts", "reselect", "finish"}
Row == [id : Ids, turn : Turns, evicted : BOOLEAN, rescued : BOOLEAN]
Receipt == [turn : Turns, id : Ids]
Batches == UNION {[1..n -> Turns] : n \in 1..MaxBatch}

TypeOK ==
    /\ episodes \subseteq Row
    /\ fts \subseteq Ids
    /\ pc \in [Writers -> Statements \union {"idle"}]
    /\ kind \in [Writers -> Kinds \union {"none"}]
    /\ todo \in [Writers -> Seq(Turns)]
    /\ held \in [Writers -> SUBSET Receipt]
    /\ cand \in [Writers -> Ids \union {NoId}]
    /\ dropped \subseteq Turns
    /\ purged \subseteq Turns
    /\ faults \in 0..MaxFaults
    /\ purges \in 0..MaxPurges

---------------------------------------------------------------------------
(* Queries *)

\* SELECT id FROM episodes WHERE hash = ?
RowsFor(t) == {r \in episodes : r.turn = t}

IdsOf(receipts) == {c.id : c \in receipts}
TurnsOf(receipts) == {c.turn : c \in receipts}

\* uuid4() never returns an id that the tables or a running call still name.
FreshIds ==
    {id \in Ids : /\ \A r \in episodes : r.id # id
                  /\ id \notin fts
                  /\ \A w \in Writers : id # cand[w] /\ id \notin IdsOf(held[w])}

---------------------------------------------------------------------------
(* The archiving calls *)

Init ==
    /\ episodes = {}
    /\ fts = {}
    /\ pc = [w \in Writers |-> "idle"]
    /\ kind = [w \in Writers |-> "none"]
    /\ todo = [w \in Writers |-> <<>>]
    /\ held = [w \in Writers |-> {}]
    /\ cand = [w \in Writers |-> NoId]
    /\ dropped = {}
    /\ purged = {}
    /\ faults = 0
    /\ purges = 0

\* A handler submits a call with the turns it decided to archive.
Begin(w) ==
    /\ pc[w] = "idle"
    /\ \E k \in Kinds, batch \in Batches :
        /\ kind' = [kind EXCEPT ![w] = k]
        /\ todo' = [todo EXCEPT ![w] = batch]
    /\ pc' = [pc EXCEPT ![w] = "select"]
    /\ UNCHANGED <<episodes, fts, held, cand, dropped, purged, faults, purges>>

\* archive_raw returns id for the turn at hand; the caller appends it to its
\* list and goes on with the next turn, or with what follows its loop.
Return(w, id) ==
    /\ held' = [held EXCEPT ![w] = @ \union {[turn |-> Head(todo[w]), id |-> id]}]
    /\ todo' = [todo EXCEPT ![w] = Tail(@)]
    /\ pc' = [pc EXCEPT ![w] = IF Tail(todo[w]) = <<>> THEN "finish" ELSE "select"]
    /\ cand' = [cand EXCEPT ![w] = NoId]
    /\ UNCHANGED kind

\* The call is over, and its list of ids goes with it.
Leave(w) ==
    /\ pc' = [pc EXCEPT ![w] = "idle"]
    /\ kind' = [kind EXCEPT ![w] = "none"]
    /\ held' = [held EXCEPT ![w] = {}]

\* A mutation: the turn that failed has already left the payload.
AbortDroppingTurn(w) ==
    /\ cand' = [cand EXCEPT ![w] = NoId]
    /\ todo' = [todo EXCEPT ![w] = <<>>]
    /\ IF kind[w] = "pre_forward"
       THEN /\ pc' = [pc EXCEPT ![w] = "finish"]
            /\ dropped' = dropped \union (IF todo[w] = <<>> THEN {} ELSE {Head(todo[w])})
            /\ UNCHANGED <<kind, held>>
       ELSE /\ Leave(w)
            /\ UNCHANGED dropped
    /\ UNCHANGED purged

\* An exception leaves archive_raw.  Pre-forward eviction catches it, breaks
\* out of its loop and keeps what it archived; the other two calls propagate
\* it, and the ids they hold are lost with them.
Abort(w) ==
    /\ cand' = [cand EXCEPT ![w] = NoId]
    /\ todo' = [todo EXCEPT ![w] = <<>>]
    /\ IF kind[w] = "pre_forward"
       THEN /\ pc' = [pc EXCEPT ![w] = "finish"]
            /\ UNCHANGED <<kind, held>>
       ELSE Leave(w)
    /\ UNCHANGED <<dropped, purged>>

SelectEpisode(w) ==
    /\ pc[w] = "select"
    /\ \/ \E r \in RowsFor(Head(todo[w])) : Return(w, r.id)
       \/ /\ RowsFor(Head(todo[w])) = {}
          /\ pc' = [pc EXCEPT ![w] = "insert"]
          /\ UNCHANGED <<kind, todo, held, cand>>
    /\ UNCHANGED <<episodes, fts, dropped, purged, faults, purges>>

NewRow(w, id) ==
    [id |-> id, turn |-> Head(todo[w]), evicted |-> FALSE,
     rescued |-> (kind[w] = "rescue")]

\* A mutation: the hash column has an index, but not a UNIQUE one.
InsertEpisodeNotUnique(w) ==
    /\ pc[w] = "insert"
    /\ \E id \in FreshIds :
        /\ episodes' = episodes \union {NewRow(w, id)}
        /\ cand' = [cand EXCEPT ![w] = id]
    /\ pc' = [pc EXCEPT ![w] = "fts"]
    /\ UNCHANGED <<fts, kind, todo, held, dropped, purged, faults, purges>>

\* A mutation: INSERT OR REPLACE INTO episodes.
InsertEpisodeOrReplace(w) ==
    /\ pc[w] = "insert"
    /\ \E id \in FreshIds :
        /\ episodes' = (episodes \ RowsFor(Head(todo[w]))) \union {NewRow(w, id)}
        /\ cand' = [cand EXCEPT ![w] = id]
    /\ pc' = [pc EXCEPT ![w] = "fts"]
    /\ UNCHANGED <<fts, kind, todo, held, dropped, purged, faults, purges>>

\* INSERT INTO episodes under the UNIQUE index on hash.
InsertEpisode(w) ==
    /\ pc[w] = "insert"
    /\ \/ /\ RowsFor(Head(todo[w])) = {}
          /\ \E id \in FreshIds :
              /\ episodes' = episodes \union {NewRow(w, id)}
              /\ cand' = [cand EXCEPT ![w] = id]
          /\ pc' = [pc EXCEPT ![w] = "fts"]
       \/ /\ RowsFor(Head(todo[w])) # {}
          /\ pc' = [pc EXCEPT ![w] = "reselect"]
          /\ UNCHANGED <<episodes, cand>>
    /\ UNCHANGED <<fts, kind, todo, held, dropped, purged, faults, purges>>

\* A mutation: the mirror row is never written.
InsertFtsSkipped(w) ==
    /\ pc[w] = "fts"
    /\ Return(w, cand[w])
    /\ UNCHANGED <<episodes, fts, dropped, purged, faults, purges>>

\* INSERT INTO episodes_fts: a statement, and a commit, of its own.
InsertFts(w) ==
    /\ pc[w] = "fts"
    /\ fts' = fts \union {cand[w]}
    /\ Return(w, cand[w])
    /\ UNCHANGED <<episodes, dropped, purged, faults, purges>>

\* A mutation: existing["id"] without the test for None.
ReselectUnguarded(w) ==
    /\ pc[w] = "reselect"
    /\ \/ \E r \in RowsFor(Head(todo[w])) : Return(w, r.id)
       \/ RowsFor(Head(todo[w])) = {} /\ Return(w, NoId)
    /\ UNCHANGED <<episodes, fts, dropped, purged, faults, purges>>

\* A mutation: the second SELECT has lost its WHERE clause.
ReselectAnyRow(w) ==
    /\ pc[w] = "reselect"
    /\ \/ \E r \in episodes : Return(w, r.id) /\ UNCHANGED <<dropped, purged>>
       \/ episodes = {} /\ Abort(w)
    /\ UNCHANGED <<episodes, fts, faults, purges>>

\* After IntegrityError: the row of the thread that won the race, or, when a
\* purge has deleted it meanwhile, the exception is raised again.
Reselect(w) ==
    /\ pc[w] = "reselect"
    /\ \/ \E r \in RowsFor(Head(todo[w])) : Return(w, r.id) /\ UNCHANGED <<dropped, purged>>
       \/ RowsFor(Head(todo[w])) = {} /\ Abort(w)
    /\ UNCHANGED <<episodes, fts, faults, purges>>

\* UPDATE episodes SET ... WHERE id IN (...)
Mark(ids, rescued) ==
    {IF r.id \in ids
     THEN [r EXCEPT !.evicted = TRUE, !.rescued = @ \/ rescued]
     ELSE r : r \in episodes}

\* What follows the loop: the two calls that keep the payload mark the rows;
\* pre-forward eviction takes the archived turns out of the payload.
Finish(w) ==
    /\ pc[w] = "finish"
    /\ \/ /\ kind[w] = "pre_forward"
          /\ dropped' = dropped \union TurnsOf(held[w])
          /\ UNCHANGED episodes
       \/ /\ kind[w] # "pre_forward"
          /\ episodes' = Mark(IdsOf(held[w]), kind[w] = "rescue")
          /\ UNCHANGED dropped
    /\ Leave(w)
    /\ UNCHANGED <<fts, todo, cand, purged, faults, purges>>

\* Any statement may raise OperationalError (database is locked, disk full).
\* The payload edit at the end of pre-forward eviction is not a statement.
StatementError(w) ==
    /\ pc[w] # "idle"
    /\ ~(pc[w] = "finish" /\ kind[w] = "pre_forward")
    /\ faults < MaxFaults
    /\ faults' = faults + 1
    /\ Abort(w)
    /\ UNCHANGED <<episodes, fts, purges>>

---------------------------------------------------------------------------
(* The environment *)

\* The proxy process dies and starts again: the tables survive, calls do not.
Crash ==
    /\ faults < MaxFaults
    /\ faults' = faults + 1
    /\ pc' = [w \in Writers |-> "idle"]
    /\ todo' = [w \in Writers |-> <<>>]
    /\ kind' = [w \in Writers |-> "none"]
    /\ held' = [w \in Writers |-> {}]
    /\ cand' = [w \in Writers |-> NoId]
    /\ UNCHANGED <<episodes, fts, dropped, purged, purges>>

\* `spillover purge`: episodes_fts keeps the rows of what is deleted.
Purge(doomed) ==
    /\ purges < MaxPurges
    /\ purges' = purges + 1
    /\ episodes' = episodes \ doomed
    /\ purged' = purged \union {r.turn : r \in doomed}
    /\ UNCHANGED <<fts, pc, kind, todo, held, cand, dropped, faults>>

PurgeAll == Purge(episodes)
PurgeRescued == Purge({r \in episodes : r.rescued})

Step(w) ==
    \/ SelectEpisode(w)
    \/ InsertEpisode(w)
    \/ InsertFts(w)
    \/ Reselect(w)
    \/ Finish(w)

Next ==
    \/ \E w \in Writers : Begin(w) \/ Step(w) \/ StatementError(w)
    \/ Crash
    \/ PurgeAll
    \/ PurgeRescued

Spec == Init /\ [][Next]_vars

---------------------------------------------------------------------------
(* Properties *)

\* Dedup is race-safe (docs/architecture/06, archive contract): two threads
\* that archive the same turn at once never leave two rows for it.
UniqueTurn == \A r, s \in episodes : r.turn = s.turn => r = s

\* An id names one turn: rows never share an id, and no id is recycled while
\* a call still holds it.
UniqueId == \A r, s \in episodes : r.id = s.id => r = s

\* A receipt is good: the id archive_raw returned names a row with exactly
\* that turn, whichever of its three paths returned it, unless a purge has
\* deleted the turn; and a purged id never comes back as another turn's row.
Names(id, t) ==
    /\ \A r \in episodes : r.id = id => r.turn = t
    /\ t \notin purged => \E r \in episodes : r.id = id

ReceiptsValid == \A w \in Writers : \A c \in held[w] : Names(c.id, c.turn)

\* Nothing is lost silently: a turn that pre-forward eviction has taken out of
\* a payload is in the archive, unless the user purged it, however statement
\* errors, the early break and the crash of other calls fell.
DroppedArchived ==
    \A t \in dropped : t \in purged \/ RowsFor(t) # {}

\* The lexical mirror: as long as no statement failed and the process did not
\* die, an episode without its episodes_fts row belongs to a call that is just
\* about to write it.
FtsMirror ==
    faults = 0 =>
        \A r \in episodes :
            r.id \in fts \/ \E w \in Writers : pc[w] = "fts" /\ cand[w] = r.id

\* No step of a thread removes or renames a stored turn or clears one of its
\* flags; a purge is the only way out of the archive.
RowsPersist ==
    [][\A r \in episodes :
        \/ r.turn \in purged' /\ purges' = purges + 1
        \/ \E s \in episodes' :
            /\ s.id = r.id /\ s.turn = r.turn
            /\ r.evicted => s.evicted
            /\ r.rescued => s.rescued]_vars

---------------------------------------------------------------------------
(* The archive implements EpisodeStore.  The put takes effect when the row  *)
(* is inserted, one statement before archive_raw returns, so a row waiting  *)
(* for its mirror row already counts as handed out.                         *)

Contents == {[turn |-> r.turn, id |-> r.id] : r \in episodes}

HandedOut(w) ==
    held[w] \union
        (IF pc[w] = "fts" THEN {[turn |-> Head(todo[w]), id |-> cand[w]]} ELSE {})

Store == INSTANCE EpisodeStore
    WITH contents <- Contents, receipts <- [w \in Writers |-> HandedOut(w)]

\* Seen from the outside, archive_raw is atomic and idempotent: whatever the
\* interleaving of its statements with those of other threads, with errors,
\* crashes and purges, each call behaves as one put of EpisodeStore.
ArchiveIsStore == Store!Spec

=============================================================================

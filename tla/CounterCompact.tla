--------------------------- MODULE CounterCompact ---------------------------
(***************************************************************************)
(* Detection of client-side compaction and the rescue of what it dropped:  *)
(* detect_compaction, record_seen_turns and prune_old_seen_turns           *)
(* (counter_compact/detection.py) as _detect_and_rescue and the passive    *)
(* branch of _handle_request (proxy/app.py) call them, for the sessions    *)
(* that share one project, with the pruning of the decay scheduler and     *)
(* `spillover purge` next to them.                                         *)
(*                                                                         *)
(* Only assistant messages are hashed, so a payload is the sequence of its *)
(* assistant turns; a turn is identified with _hash_assistant_message.     *)
(* Each SQL statement commits by itself.  A put into the archive is one    *)
(* step, as Archive implements EpisodeStore.                               *)
(***************************************************************************)
EXTENDS Integers, Sequences, FiniteSets

CONSTANTS
    Sessions,     \* clients of the project; each has one request at a time
    Turns,        \* assistant turns up to _hash_assistant_message
    Never,        \* a turn nobody has recorded
    Window,       \* window_seconds (600) of detect_compaction
    TTL,          \* ttl_hours (72) of prune_old_seen_turns
    MaxRescue,    \* max_rescue (20) of detect_compaction
    MaxLen,       \* bound: assistant turns in a payload
    MaxTime       \* bound: the clock

ASSUME CompactAssumption ==
    /\ Never \notin Int
    /\ Window \in Nat /\ TTL \in Nat /\ TTL >= Window
    /\ MaxRescue \in Nat \ {0}
    /\ MaxLen \in Nat \ {0} /\ MaxTime \in Nat

VARIABLES
    seen,         \* rows of table seen_turns
    archived,     \* turns with an episode that has compaction_rescued = 1
    clock,
    pc,           \* the next step of each session's request
    passive,      \* SPILLOVER_PASSIVE when the request came
    msgs,         \* the assistant turns of the request's payload
    pos,          \* the message record_seen_turns is at
    now,          \* its reading of the clock
    missing,      \* what detect_compaction returned
    due,          \* what it should have returned: see DueNow
    witnessed,    \* history: the newest time a request recorded each turn with
    behind,       \* history: turns whose last record was by an older time
    purging       \* `spillover purge` has still to delete seen_turns

request == <<pc, passive, msgs, pos, now, missing, due>>
vars == <<seen, archived, clock, pc, passive, msgs, pos, now, missing, due,
          witnessed, behind, purging>>

Time == 0..MaxTime
Row == [turn : Turns, index : 1..MaxLen, last : Time]
Payloads == UNION {[1..n -> Turns] : n \in 0..MaxLen}
PCs == {"idle", "detect", "begin", "select", "insert", "update", "archive", "forward"}

TablesOK ==
    /\ seen \subseteq Row
    /\ archived \subseteq Turns
    /\ witnessed \in [Turns -> Time \union {Never}]
    /\ behind \subseteq Turns
    /\ clock \in Time /\ purging \in BOOLEAN

RequestsOK ==
    /\ pc \in [Sessions -> PCs]
    /\ passive \in [Sessions -> BOOLEAN]
    /\ msgs \in [Sessions -> Payloads]
    /\ pos \in [Sessions -> 0..MaxLen]
    /\ \A s \in Sessions : pc[s] \in {"select", "insert", "update"} => pos[s] \in DOMAIN msgs[s]
    /\ now \in [Sessions -> Time]
    /\ missing \in [Sessions -> SUBSET Turns]
    /\ due \in [Sessions -> SUBSET Turns]

TypeOK == TablesOK /\ RequestsOK

Elements(s) == {s[i] : i \in DOMAIN s}
RowsFor(t) == {r \in seen : r.turn = t}
InWindow(time) == time # Never /\ time >= clock - Window

Init ==
    /\ seen = {} /\ archived = {} /\ clock = 0
    /\ pc = [s \in Sessions |-> "idle"]
    /\ passive = [s \in Sessions |-> FALSE]
    /\ msgs = [s \in Sessions |-> <<>>]
    /\ pos = [s \in Sessions |-> 0]
    /\ now = [s \in Sessions |-> 0]
    /\ missing = [s \in Sessions |-> {}]
    /\ due = [s \in Sessions |-> {}]
    /\ witnessed = [t \in Turns |-> Never]
    /\ behind = {}
    /\ purging = FALSE

---------------------------------------------------------------------------
(* A request *)

GoTo(s, label) == pc' = [pc EXCEPT ![s] = label]

Arrive(s) ==
    /\ pc[s] = "idle"
    /\ \E payload \in Payloads, mode \in BOOLEAN :
        /\ msgs' = [msgs EXCEPT ![s] = payload]
        /\ passive' = [passive EXCEPT ![s] = mode]
        /\ GoTo(s, IF mode THEN "begin" ELSE "detect")
    /\ UNCHANGED <<seen, archived, clock, pos, now, missing, due, witnessed, behind, purging>>

\* ORDER BY turn_index ASC LIMIT max_rescue
Limited(rows) ==
    {first \in SUBSET rows :
        /\ Cardinality(first) =
              IF Cardinality(rows) <= MaxRescue THEN Cardinality(rows) ELSE MaxRescue
        /\ \A r \in first, other \in rows \ first : r.index <= other.index}

\* The other rows that may come before a turn's own under the limit.
Before(t) ==
    {r \in seen : InWindow(r.last) /\ \E own \in RowsFor(t) : r # own /\ r.index <= own.index}

\* The turns recorded within the window, and not put back since, that this
\* payload lacks and that the limit has room for.
DueNow(s) ==
    {t \in Turns \ (behind \union Elements(msgs[s])) :
        InWindow(witnessed[t]) /\ Cardinality(Before(t)) < MaxRescue}

DetectWith(s, rows) ==
    /\ \E first \in Limited(rows) :
        missing' = [missing EXCEPT ![s] = {r.turn : r \in first} \ Elements(msgs[s])]
    /\ due' = [due EXCEPT ![s] = DueNow(s)]
    /\ GoTo(s, "begin")
    /\ UNCHANGED <<seen, archived, clock, passive, msgs, pos, now, witnessed, behind, purging>>

\* A mutation: the window of detect_compaction is lost.
DetectAllHistory(s) == pc[s] = "detect" /\ DetectWith(s, seen)

\* detect_compaction: one SELECT; the limit applies to the rows in the window,
\* and only then those the payload still has are left out.
Detect(s) == pc[s] = "detect" /\ DetectWith(s, {r \in seen : InWindow(r.last)})

\* What follows record_seen_turns: rescue in the active mode, if there is
\* anything to rescue.
AfterRecord(s) == IF missing[s] = {} THEN "forward" ELSE "archive"

\* record_seen_turns reads the clock once, for all its messages.
Begin(s) ==
    /\ pc[s] = "begin"
    /\ IF msgs[s] = <<>>
       THEN GoTo(s, AfterRecord(s)) /\ UNCHANGED <<pos, now>>
       ELSE /\ now' = [now EXCEPT ![s] = clock]
            /\ pos' = [pos EXCEPT ![s] = 1]
            /\ GoTo(s, "select")
    /\ UNCHANGED <<seen, archived, clock, passive, msgs, missing, due, witnessed, behind, purging>>

Turn(s) == msgs[s][pos[s]]

Select(s) ==
    /\ pc[s] = "select"
    /\ GoTo(s, IF RowsFor(Turn(s)) = {} THEN "insert" ELSE "update")
    /\ UNCHANGED <<seen, archived, clock, passive, msgs, pos, now, missing, due,
                   witnessed, behind, purging>>

NextMessage(s) ==
    IF pos[s] = Len(msgs[s])
    THEN /\ GoTo(s, AfterRecord(s))
         /\ pos' = [pos EXCEPT ![s] = 0]
         /\ now' = [now EXCEPT ![s] = 0]
    ELSE /\ GoTo(s, "select")
         /\ pos' = [pos EXCEPT ![s] = @ + 1]
         /\ UNCHANGED now

\* A slow request writes the time it started at over the newer one of another.
PutsBack(s) == witnessed[Turn(s)] # Never /\ now[s] < witnessed[Turn(s)]

Witness(s) ==
    IF PutsBack(s)
    THEN behind' = behind \union {Turn(s)} /\ UNCHANGED witnessed
    ELSE /\ behind' = behind \ {Turn(s)}
         /\ witnessed' = [witnessed EXCEPT ![Turn(s)] = now[s]]

\* An exception: the active branch answers 500 and what it detected is lost
\* with it; the passive branch logs it and forwards the request.
Raise(s) ==
    /\ GoTo(s, IF passive[s] THEN "forward" ELSE "idle")
    /\ missing' = [missing EXCEPT ![s] = {}]
    /\ due' = [due EXCEPT ![s] = {}]
    /\ pos' = [pos EXCEPT ![s] = 0]
    /\ now' = [now EXCEPT ![s] = 0]
    /\ msgs' = [msgs EXCEPT ![s] = <<>>]
    /\ UNCHANGED <<witnessed, behind>>

\* INSERT under PRIMARY KEY (project_id, turn_hash), without ON CONFLICT.
Insert(s) ==
    /\ pc[s] = "insert"
    /\ \/ /\ RowsFor(Turn(s)) = {}
          /\ seen' = seen \union
                {[turn |-> Turn(s), index |-> pos[s], last |-> now[s]]}
          /\ NextMessage(s) /\ Witness(s)
          /\ UNCHANGED <<msgs, missing, due>>
       \/ /\ RowsFor(Turn(s)) # {}
          /\ Raise(s)
          /\ UNCHANGED seen
    /\ UNCHANGED <<archived, clock, passive, purging>>

\* A mutation: the UPDATE forgets last_seen_ts.
UpdateNothing(s) ==
    /\ pc[s] = "update"
    /\ NextMessage(s) /\ Witness(s)
    /\ UNCHANGED <<seen, archived, clock, passive, msgs, missing, due, purging>>

\* UPDATE ... SET last_seen_ts: no effect on a row deleted since the SELECT.
Update(s) ==
    /\ pc[s] = "update"
    /\ seen' = {IF r.turn = Turn(s) THEN [r EXCEPT !.last = now[s]] ELSE r : r \in seen}
    /\ IF RowsFor(Turn(s)) = {} THEN UNCHANGED <<witnessed, behind>> ELSE Witness(s)
    /\ NextMessage(s)
    /\ UNCHANGED <<archived, clock, passive, msgs, missing, due, purging>>

\* archive_raw for each rescued turn, and the UPDATE that flags them.
ArchiveRescued(s) ==
    /\ pc[s] = "archive"
    /\ archived' = archived \union missing[s]
    /\ GoTo(s, "forward")
    /\ UNCHANGED <<seen, clock, passive, msgs, pos, now, missing, due, witnessed, behind, purging>>

\* Any statement may raise (database is locked).
StatementError(s) ==
    /\ pc[s] \in {"detect", "select", "insert", "update", "archive"}
    /\ Raise(s)
    /\ UNCHANGED <<seen, archived, clock, passive, purging>>

\* The request is forwarded and answered.
End(s) ==
    /\ pc[s] = "forward"
    /\ GoTo(s, "idle")
    /\ passive' = [passive EXCEPT ![s] = FALSE]
    /\ msgs' = [msgs EXCEPT ![s] = <<>>]
    /\ pos' = [pos EXCEPT ![s] = 0]
    /\ now' = [now EXCEPT ![s] = 0]
    /\ missing' = [missing EXCEPT ![s] = {}]
    /\ due' = [due EXCEPT ![s] = {}]
    /\ UNCHANGED <<seen, archived, clock, witnessed, behind, purging>>

---------------------------------------------------------------------------
(* The environment *)

\* Also while a request records its turns by an older reading.
Tick ==
    /\ clock < MaxTime
    /\ clock' = clock + 1
    /\ UNCHANGED <<seen, archived, request, witnessed, behind, purging>>

\* prune_old_seen_turns, from the decay scheduler.
Prune ==
    /\ seen' = {r \in seen : r.last >= clock - TTL}
    /\ UNCHANGED <<archived, clock, request, witnessed, behind, purging>>

\* The user gives up what the project remembers: nothing is due any more.
Forget ==
    /\ witnessed' = [t \in Turns |-> Never]
    /\ behind' = {}
    /\ due' = [s \in Sessions |-> {}]
    /\ UNCHANGED <<clock, pc, passive, msgs, pos, now, missing>>

\* `spillover purge` deletes the rescued episodes, and then seen_turns.
PurgeEpisodes ==
    /\ ~purging
    /\ archived' = {}
    /\ purging' = TRUE
    /\ Forget
    /\ UNCHANGED seen

PurgeSeen ==
    /\ purging
    /\ seen' = {}
    /\ purging' = FALSE
    /\ Forget
    /\ UNCHANGED archived

Next ==
    \/ \E s \in Sessions :
        \/ Arrive(s) \/ Detect(s) \/ Begin(s) \/ Select(s) \/ Insert(s) \/ Update(s)
        \/ ArchiveRescued(s) \/ StatementError(s) \/ End(s)
    \/ Tick \/ Prune \/ PurgeEpisodes \/ PurgeSeen

Spec == Init /\ [][Next]_vars

---------------------------------------------------------------------------
(* Properties *)

\* A request that gets as far as being forwarded has rescued every turn it had
\* to, whatever records, prunes, failed requests and purges were interleaved
\* with it: all that its payload lacks, that some session recorded within the
\* window by the newest time anyone recorded it with, and that fewer than
\* max_rescue rows of the window precede.  A turn a slower request put back to
\* an older time (detection.py:88, :107) may be missed, and one behind the
\* limit (detection.py:143) is: see LostTurnsComeBack.
RescueIsComplete ==
    \A s \in Sessions : pc[s] = "forward" => due[s] \subseteq archived

\* What docs/architecture/08-counter-compaction.md:87 says: the lost turns are
\* recovered automatically with the next request.  It does not hold of the
\* code: the rows that come first under the limit, those of turns the payload
\* still has and of turns rescued before included, hide the others each time.
LostTurnsComeBack ==
    [][\A s \in Sessions : pc[s] = "detect" /\ pc'[s] = "begin" =>
        {t \in Turns : InWindow(witnessed[t])}
            \subseteq Elements(msgs[s]) \union missing'[s] \union archived]_vars

\* What the docstring of record_seen_turns says (detection.py:86): it keeps
\* last_seen_ts current.  It does not hold of the code: the clock is read once,
\* before the statements, and the UPDATE does not look at what is there.
LastSeenIsCurrent ==
    ~purging => \A r \in seen : r.last >= witnessed[r.turn]

\* Nothing is rescued from history: what a request is about to rescue was
\* recorded within the window before it looked, and is not in its payload.
RescueIsRecent ==
    [][\A s \in Sessions : \A t \in missing'[s] \ missing[s] :
        /\ t \notin Elements(msgs[s])
        /\ InWindow(witnessed[t]) \/ purging]_vars
=============================================================================

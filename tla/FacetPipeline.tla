--------------------------- MODULE FacetPipeline ---------------------------
(***************************************************************************)
(* From an archived episode to a searchable one: the handlers that archive *)
(* and then call _enqueue_facets (proxy/app.py), the bounded in-memory     *)
(* queue, the one FacetWorker that runs _process_one in an executor thread *)
(* (facet/worker.py), `spillover purge` in another process, and the stops, *)
(* errors and crashes in between.                                          *)
(*                                                                         *)
(* A put into the archive is one step here, as Archive implements          *)
(* EpisodeStore.  The worker's SQL and Kuzu statements each commit by      *)
(* themselves and are one action each.                                     *)
(***************************************************************************)
EXTENDS Naturals, FiniteSets, Facets

CONSTANTS
    Handlers,    \* requests being handled
    Ids,         \* episode ids; one is used for at most one episode
    Messages,    \* what each says: see Message in Facets
    Times,       \* values of int(time.time() * 1000), a wall clock
    NoId,        \* the worker holds no event
    NoTime,      \* never stored; no node
    QueueMax,    \* maxsize of the facet queue (1024 in create_app)
    MaxBatch,    \* bound: ids one call archives
    MaxFaults,   \* bound: worker errors and process crashes
    MaxPurges    \* bound: runs of `spillover purge`

ASSUME FacetAssumption ==
    /\ DOMAIN Messages = Ids /\ \A id \in Ids : FacetsOf(Messages[id]) \in Seq(Facet)
    /\ Times \subseteq Nat
    /\ NoTime \notin Times
    /\ NoId \notin Ids
    /\ QueueMax \in Nat \ {0}
    /\ MaxBatch \in Nat \ {0}
    /\ MaxFaults \in Nat
    /\ MaxPurges \in Nat

VARIABLES
    stored,      \* ids that have a row in episodes
    ts,          \* the ts column of each id, once it has been stored
    pending,     \* ids whose row has facet_pending = 1
    rescued,     \* ids whose row has compaction_rescued = 1
    vec,         \* ids that have a row in vec_episodes
    node,        \* Kuzu Episode nodes: the ts of each id that has one
    after,       \* Kuzu AFTER edges, <<earlier id, later id>>
    linked,      \* Kuzu edges to entities, files and decisions, <<id, facet>>
    hand,        \* ids a handler's call has archived and not yet enqueued
    queue,       \* the facet queue
    step,        \* the next statement of _process_one
    job,         \* the id of the event being processed
    jobTs,       \* the ts _process_one read
    at,          \* the facets it has merged
    running,     \* FacetWorker takes events
    purger,      \* the second statement `spillover purge` has to run
    faults,
    purges

tables == <<stored, ts, pending, rescued>>
graph == <<node, after, linked>>
worker == <<step, job, jobTs, at>>
vars == <<stored, ts, pending, rescued, vec, node, after, linked, hand, queue,
          step, job, jobTs, at, running, purger, faults, purges>>

Steps == {"idle", "read", "delete_vec", "insert_vec", "update", "merge", "link", "extract"}
Batches == UNION {[1..n -> Ids] : n \in 1..MaxBatch}

TypeOK ==
    /\ stored \subseteq Ids
    /\ ts \in [Ids -> Times \union {NoTime}]
    /\ pending \subseteq stored
    /\ rescued \subseteq stored
    /\ vec \subseteq Ids
    /\ node \in [Ids -> Times \union {NoTime}]
    /\ after \subseteq Ids \X Ids
    /\ linked \subseteq Ids \X Facet
    /\ hand \in [Handlers -> Seq(Ids)]
    /\ queue \in Seq(Ids) /\ Len(queue) <= QueueMax
    /\ step \in Steps
    /\ job \in Ids \union {NoId}
    /\ jobTs \in Times \union {NoTime}
    /\ at \in Nat
    /\ running \in BOOLEAN
    /\ purger \in {"idle", "delete_all_vec", "delete_rescued"}
    /\ faults \in 0..MaxFaults
    /\ purges \in 0..MaxPurges

\* What _process_one finds in the row it has read.
FacetsIn == [id \in Ids |-> FacetsOf(Messages[id])]

Elements(s) == {s[i] : i \in 1..Len(s)}
Nodes == {id \in Ids : node[id] # NoTime}
New(ids) == {id \in ids : ts[id] = NoTime}

Init ==
    /\ stored = {} /\ pending = {} /\ rescued = {} /\ vec = {}
    /\ ts = [id \in Ids |-> NoTime]
    /\ node = [id \in Ids |-> NoTime]
    /\ after = {} /\ linked = {}
    /\ hand = [h \in Handlers |-> <<>>]
    /\ queue = <<>>
    /\ step = "idle" /\ job = NoId /\ jobTs = NoTime /\ at = 0
    /\ running = TRUE
    /\ purger = "idle"
    /\ faults = 0 /\ purges = 0

---------------------------------------------------------------------------
(* Handlers *)

\* _maybe_evict or _detect_and_rescue archives a batch: each turn of it is new
\* or already stored, under the id archive_raw returns.  New rows share one ts.
\* A rescue also flags the rows it found.
Archive(h) ==
    /\ running
    /\ hand[h] = <<>>
    /\ \E batch \in Batches, now \in Times, rescue \in BOOLEAN :
        /\ \A i \in DOMAIN batch : batch[i] \in stored \/ ts[batch[i]] = NoTime
        /\ hand' = [hand EXCEPT ![h] = batch]
        /\ stored' = stored \union Elements(batch)
        /\ pending' = pending \union New(Elements(batch))
        /\ ts' = [id \in Ids |-> IF id \in New(Elements(batch)) THEN now ELSE ts[id]]
        /\ rescued' = IF rescue THEN rescued \union Elements(batch) ELSE rescued
    /\ UNCHANGED <<vec, graph, queue, worker, running, purger, faults, purges>>

\* A mutation: the queue has no maxsize.
EnqueueUnbounded(h) ==
    /\ hand[h] # <<>> /\ Len(queue) <= QueueMax
    /\ queue' = queue \o hand[h]
    /\ hand' = [hand EXCEPT ![h] = <<>>]
    /\ UNCHANGED <<tables, vec, graph, worker, running, purger, faults, purges>>

\* put_nowait for each id, with no await in between: what does not fit in the
\* queue is dropped, and only counted (facet_dropped_total).
Enqueue(h) ==
    /\ hand[h] # <<>>
    /\ LET offered == queue \o hand[h]
       IN  queue' = IF Len(offered) <= QueueMax THEN offered
                    ELSE SubSeq(offered, 1, QueueMax)
    /\ hand' = [hand EXCEPT ![h] = <<>>]
    /\ UNCHANGED <<tables, vec, graph, worker, running, purger, faults, purges>>

\* The ids never reach the queue: pre-forward eviction does not enqueue, and a
\* call that raises, or whose client has gone, loses its list.
Discard(h) ==
    /\ hand[h] # <<>>
    /\ hand' = [hand EXCEPT ![h] = <<>>]
    /\ UNCHANGED <<tables, vec, graph, queue, worker, running, purger, faults, purges>>

---------------------------------------------------------------------------
(* FacetWorker *)

Done ==
    /\ step' = "idle"
    /\ job' = NoId
    /\ jobTs' = NoTime
    /\ at' = 0

\* A mutation: the newest event first.
GetNewest ==
    /\ running /\ step = "idle" /\ queue # <<>>
    /\ job' = queue[Len(queue)]
    /\ queue' = SubSeq(queue, 1, Len(queue) - 1)
    /\ step' = "read"
    /\ UNCHANGED <<tables, vec, graph, hand, jobTs, at, running, purger, faults, purges>>

Get ==
    /\ running /\ step = "idle" /\ queue # <<>>
    /\ job' = Head(queue)
    /\ queue' = Tail(queue)
    /\ step' = "read"
    /\ UNCHANGED <<tables, vec, graph, hand, jobTs, at, running, purger, faults, purges>>

\* SELECT ... FROM episodes WHERE id = ?; a purged episode ends the event.
Read ==
    /\ step = "read"
    /\ \/ job \notin stored /\ Done
       \/ job \in stored /\ step' = "delete_vec" /\ jobTs' = ts[job] /\ UNCHANGED <<job, at>>
    /\ UNCHANGED <<tables, vec, graph, hand, queue, running, purger, faults, purges>>

DeleteVec ==
    /\ step = "delete_vec"
    /\ vec' = vec \ {job}
    /\ step' = "insert_vec"
    /\ UNCHANGED <<tables, graph, hand, queue, job, jobTs, at, running, purger, faults, purges>>

InsertVec ==
    /\ step = "insert_vec"
    /\ vec' = vec \union {job}
    /\ step' = "update"
    /\ UNCHANGED <<tables, graph, hand, queue, job, jobTs, at, running, purger, faults, purges>>

\* UPDATE episodes SET facet_pending=0: no row, no effect.
UpdateEpisode ==
    /\ step = "update"
    /\ pending' = pending \ {job}
    /\ step' = "merge"
    /\ UNCHANGED <<stored, ts, rescued, vec, graph, hand, queue, job, jobTs, at,
                   running, purger, faults, purges>>

\* MERGE (e:Episode {id}) SET e.ts
MergeNode ==
    /\ step = "merge"
    /\ node' = [node EXCEPT ![job] = jobTs]
    /\ step' = "link"
    /\ UNCHANGED <<tables, vec, after, linked, hand, queue, job, jobTs, at,
                   running, purger, faults, purges>>

Earlier == {id \in Nodes : node[id] < jobTs}
Latest(ids) == {id \in ids : \A other \in ids : node[other] <= node[id]}

\* A mutation: MATCH (e:Episode) WHERE e.ts <= $ts.
LinkAfterOrEqual ==
    /\ step = "link"
    /\ \E prev \in Latest({id \in Nodes : node[id] <= jobTs}) :
          after' = after \union {<<prev, job>>}
    /\ step' = "extract"
    /\ UNCHANGED <<tables, vec, node, linked, hand, queue, job, jobTs, at,
                   running, purger, faults, purges>>

\* MATCH the latest earlier node, then MERGE (a)-[:AFTER]->(b).  Nobody else
\* writes the graph, so the query and the merge are one step.
LinkAfter ==
    /\ step = "link"
    /\ \/ Earlier = {} /\ UNCHANGED after
       \/ \E prev \in Latest(Earlier) : after' = after \union {<<prev, job>>}
    /\ step' = "extract"
    /\ UNCHANGED <<tables, vec, node, linked, hand, queue, job, jobTs, at,
                   running, purger, faults, purges>>

\* The next entity, file or decision: MERGE of its node, and of the edge to it.
\* A node without its edge is read by nobody, so the two are one step.
Extract ==
    /\ step = "extract" /\ at < Len(FacetsIn[job])
    /\ linked' = linked \union {<<job, FacetsIn[job][at + 1]>>}
    /\ at' = at + 1
    /\ UNCHANGED <<tables, vec, node, after, hand, queue, step, job, jobTs, running,
                   purger, faults, purges>>

\* There are no more; then task_done.
Finish ==
    /\ step = "extract" /\ at = Len(FacetsIn[job])
    /\ Done
    /\ UNCHANGED <<tables, vec, graph, hand, queue, running, purger, faults, purges>>

\* Any statement, or the embedding model, may raise.  _run logs the error and
\* goes on with the next event; this one is not tried again.
WorkerError ==
    /\ step # "idle"
    /\ faults < MaxFaults
    /\ faults' = faults + 1
    /\ Done
    /\ UNCHANGED <<tables, vec, graph, hand, queue, running, purger, purges>>

---------------------------------------------------------------------------
(* Stop, crash, restart *)

\* A mutation: stop() takes the executor thread down with the task.
StopKillingThread ==
    /\ running
    /\ \A h \in Handlers : hand[h] = <<>>
    /\ running' = FALSE
    /\ queue' = <<>>
    /\ Done
    /\ UNCHANGED <<tables, vec, graph, hand, purger, faults, purges>>

\* The server has drained its requests and runs the lifespan's exit:
\* FacetWorker.stop cancels the consumer and what is queued is lost, but the
\* executor thread cannot be cancelled and runs _process_one to its end.
Stop ==
    /\ running
    /\ \A h \in Handlers : hand[h] = <<>>
    /\ running' = FALSE
    /\ queue' = <<>>
    /\ UNCHANGED <<tables, vec, graph, hand, worker, purger, faults, purges>>

\* The interpreter joins its executor threads before it exits.  Nothing scans
\* episodes for facet_pending = 1 when the proxy starts again.
Start ==
    /\ ~running
    /\ step = "idle"
    /\ running' = TRUE
    /\ UNCHANGED <<tables, vec, graph, hand, queue, worker, purger, faults, purges>>

Crash ==
    /\ faults < MaxFaults
    /\ faults' = faults + 1
    /\ hand' = [h \in Handlers |-> <<>>]
    /\ queue' = <<>>
    /\ running' = TRUE
    /\ Done
    /\ UNCHANGED <<tables, vec, graph, purger, purges>>

---------------------------------------------------------------------------
(* spillover purge *)

DeleteEpisodes(doomed) ==
    /\ stored' = stored \ doomed
    /\ pending' = pending \ doomed
    /\ rescued' = rescued \ doomed
    /\ UNCHANGED ts

\* --all: DELETE FROM episodes, and then DELETE FROM vec_episodes.
PurgeAll ==
    /\ purger = "idle" /\ purges < MaxPurges
    /\ DeleteEpisodes(stored)
    /\ purges' = purges + 1
    /\ purger' = "delete_all_vec"
    /\ UNCHANGED <<vec, graph, hand, queue, worker, running, faults>>

PurgeAllVec ==
    /\ purger = "delete_all_vec"
    /\ vec' = {}
    /\ purger' = "idle"
    /\ UNCHANGED <<tables, graph, hand, queue, worker, running, faults, purges>>

\* Default: the vectors of the rescued rows, and then the rows.
PurgeRescuedVec ==
    /\ purger = "idle" /\ purges < MaxPurges
    /\ vec' = vec \ rescued
    /\ purges' = purges + 1
    /\ purger' = "delete_rescued"
    /\ UNCHANGED <<tables, graph, hand, queue, worker, running, faults>>

PurgeRescued ==
    /\ purger = "delete_rescued"
    /\ DeleteEpisodes(rescued)
    /\ purger' = "idle"
    /\ UNCHANGED <<vec, graph, hand, queue, worker, running, faults, purges>>

---------------------------------------------------------------------------

Process ==
    \/ Read \/ DeleteVec \/ InsertVec \/ UpdateEpisode
    \/ MergeNode \/ LinkAfter \/ Extract \/ Finish

Purge == PurgeAll \/ PurgeAllVec \/ PurgeRescuedVec \/ PurgeRescued

Next ==
    \/ \E h \in Handlers : Archive(h) \/ Enqueue(h) \/ Discard(h)
    \/ Get \/ Process \/ WorkerError
    \/ Stop \/ Start \/ Crash
    \/ Purge

Spec == Init /\ [][Next]_vars

\* The consumer task is rescheduled as long as the event loop runs, and a
\* thread that has begun an event goes on with it.  Nobody has to send requests,
\* purge, stop or start the proxy.
FairSpec == Spec /\ WF_vars(Get) /\ WF_vars(Process)

---------------------------------------------------------------------------
(* Properties *)

\* The AFTER edges follow time: whatever order events are processed in, and
\* however often one is processed again, an edge goes from an earlier episode
\* to a later one, so a walk along them ends.
AfterFollowsTime ==
    \A e \in after :
        /\ {e[1], e[2]} \subseteq Nodes
        /\ node[e[1]] < node[e[2]]

\* The graph agrees with the archive on when an episode was archived.
NodeTimeIsEpisodeTime == \A id \in Nodes : node[id] = ts[id]

IsLinked(id) == \A i \in DOMAIN FacetsIn[id] : <<id, FacetsIn[id][i]>> \in linked

\* While no statement fails, an episode that is no longer pending has its node
\* in the graph and, unless somebody purges, its vector, and a node has all of
\* its edges, or the worker is just about to write them; a stop in the middle
\* of an event does not break this.
FacetedIsIndexed ==
    faults = 0 =>
        /\ \A id \in stored \ pending :
            /\ id \in Nodes \/ (job = id /\ step = "merge")
            /\ purges > 0 \/ id \in vec \/ (job = id /\ step = "insert_vec")
        /\ \A id \in Nodes : IsLinked(id) \/ (job = id /\ step \in {"link", "extract"})

Faceted(id) ==
    id \in vec /\ id \notin pending /\ id \in Nodes /\ IsLinked(id)

\* An event in the queue is worked off even if requests keep coming: its
\* episode ends up fully indexed, unless it is purged, the proxy stops, something
\* fails, or a purge is under way (its second statement also deletes vectors that
\* were written after its first one).
QueuedGetsFaceted ==
    \A id \in Ids :
        id \in Elements(queue) ~>
            Faceted(id) \/ id \notin stored \/ ~running \/ purger # "idle" \/ faults > 0
=============================================================================

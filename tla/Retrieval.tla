----------------------------- MODULE Retrieval -----------------------------
(***************************************************************************)
(* The memory block of a request: _retrieve_ltm_block (proxy/app.py) asks  *)
(* four legs for episodes (retriever/vector.py, graph.py, lexical.py and   *)
(* causal.py), fuses their rankings (fusion.py), keeps what fits           *)
(* (budget.py) and renders it (render.py).                                 *)
(*                                                                         *)
(* No transaction spans two of its statements.  Between them threads       *)
(* archive turns, the facet worker indexes them, and `spillover purge`     *)
(* deletes rows; the graph is a database of its own, which purge leaves    *)
(* alone.  Which episodes are like a query is data: a query says it.       *)
(***************************************************************************)
EXTENDS FiniteSetsExt, Facets, Orders

CONSTANTS
    Episodes,      \* ids, in the order of their times
    Tokens,        \* token_count of each
    Signals,       \* which markers of classify and has_open_task are found in it
    Matches,       \* what the patterns of extract_entities find in it, in order
    Rescued,       \* those with compaction_rescued = 1
    Queries,       \* what may be asked: see Query
    Budget,        \* _ltm_budget_for
    VectorK,       \* retriever_vector_k (50)
    GraphK,        \* retriever_graph_k (50)
    LexicalK,      \* retriever_bm25_k (50)
    NameK,         \* entities of the text the graph is asked for (20)
    SeedK,         \* hits of a leg that seed the causal one (3)
    ChainK,        \* limit of causality_chain (30)
    TopK,          \* retriever_topk (5)
    RrfK,          \* RRF_K (60)
    MaxEvents,     \* bound: events the facet worker gets
    MaxPurges,     \* bound: runs of `spillover purge`
    MaxErrors,     \* bound: statements that fail
    NoEpisode,     \* no episode
    Unit           \* scores are counted in parts of it: see Contribution

\* DEFAULT_TYPE_WEIGHTS, in tenths; weights.get(hit.memory_type or "episodic").
Weights == [task |-> 14, priority |-> 15, procedural |-> 12, episodic |-> 10, semantic |-> 10]
Weight == [e \in Episodes |-> Weights[Classify(Signals[e])]]
Untyped == Weights["episodic"]

\* An Entity node is one per name, whatever the kind.
Mentions == [e \in Episodes |-> NamesIn(Extracted(Matches[e]))]

\* near: every episode, by distance.  match: those the words are found in, by
\* bm25.  entities: what the patterns find in the text.
Query == [near : Seq(Episodes), match : Seq(Episodes), entities : Seq(Entity)]

ASSUME RetrievalAssumption ==
    /\ IsFiniteSet(Episodes) /\ Episodes \subseteq Nat /\ NoEpisode \notin Episodes
    /\ Tokens \in [Episodes -> Nat] /\ Rescued \subseteq Episodes
    /\ Signals \in [Episodes -> SUBSET (OpenTask \union Markers \union {"tools"})]
    /\ DOMAIN Matches = Episodes /\ \A e \in Episodes : Matches[e] \in Seq(Entity)
    /\ \A q \in Queries : /\ q \in Query
                          /\ IsInjective(q.near) /\ ToSet(q.near) = Episodes
                          /\ IsInjective(q.match)
    /\ {Budget, VectorK, GraphK, LexicalK, NameK, SeedK, ChainK, TopK, RrfK, MaxEvents, MaxPurges, MaxErrors} \subseteq Nat
    /\ Unit \in Nat \ {0} /\ \A i \in 1..Cardinality(Episodes) : Unit % (RrfK + i) = 0

VARIABLES
    rows,      \* episodes
    typed,     \* those among them whose memory_type is set
    vec,       \* vec_episodes
    nodes,     \* Episode nodes of the graph
    after,     \* its AFTER edges
    worker,    \* the facet worker: see NoEvent
    purge,     \* the statement purge is at: see Purge
    deleted,   \* episodes a purge has deleted
    req,       \* the request: see NoRequest
    events,
    purges,
    errors

store == <<rows, typed, vec, nodes, after, worker, purge, deleted, events, purges>>
retrievalVars == <<store, req, errors>>

NoEvent == [at |-> "get", episode |-> NoEpisode]

NoRequest ==
    [pc |-> "idle",
     query |-> [near |-> <<>>, match |-> <<>>, entities |-> <<>>],
     v |-> <<>>, g |-> <<>>, b |-> <<>>, c |-> <<>>,    \* v_hits, g_hits, b_hits, c_hits
     kept |-> <<>>,         \* trimmed
     block |-> <<>>,        \* the episodes rendered
     found |-> FALSE,       \* vec_episodes had a row
     calm |-> TRUE]         \* since then nothing was taken out of vec_episodes

RetrievalInit ==
    /\ rows = {} /\ typed = {} /\ vec = {} /\ nodes = {} /\ after = {}
    /\ worker = NoEvent /\ purge = "idle" /\ deleted = {}
    /\ req = NoRequest /\ events = 0 /\ purges = 0 /\ errors = 0

---------------------------------------------------------------------------
(* The other actors: archive_raw, _process_one, `spillover purge` *)

\* A row gets the time of its archiving.
Archive(e) ==
    /\ e \notin rows \union deleted
    /\ {f \in Episodes : f < e} \subseteq rows \union deleted
    /\ rows' = rows \union {e}
    /\ UNCHANGED <<typed, vec, nodes, after, worker, purge, deleted, req, events, purges, errors>>

\* The worker has read the row, and deletes what an earlier event may have left.
DeleteVec(e) ==
    /\ worker = NoEvent /\ e \in rows /\ events < MaxEvents
    /\ events' = events + 1
    /\ worker' = [at |-> "insert", episode |-> e]
    /\ vec' = vec \ {e}
    /\ req' = [req EXCEPT !.calm = req.calm /\ e \notin vec]
    /\ UNCHANGED <<rows, typed, nodes, after, purge, deleted, purges, errors>>

InsertVec ==
    /\ worker.at = "insert"
    /\ vec' = vec \union {worker.episode}
    /\ worker' = [worker EXCEPT !.at = "type"]
    /\ UNCHANGED <<rows, typed, nodes, after, purge, deleted, req, events, purges, errors>>

UpdateEpisode ==
    /\ worker.at = "type"
    /\ typed' = typed \union ({worker.episode} \intersect rows)
    /\ worker' = [worker EXCEPT !.at = "graph"]
    /\ UNCHANGED <<rows, vec, nodes, after, purge, deleted, req, events, purges, errors>>

\* The node, the edge from the latest earlier one, the entities it mentions.
LinkNode ==
    /\ worker.at = "graph"
    /\ nodes' = nodes \union {worker.episode}
    /\ LET earlier == {n \in nodes : n < worker.episode}
       IN  after' = IF earlier = {} THEN after
                    ELSE after \union {<<Max(earlier), worker.episode>>}
    /\ worker' = NoEvent
    /\ UNCHANGED <<rows, typed, vec, purge, deleted, req, events, purges, errors>>

DeleteRows(S) ==
    /\ rows' = rows \ S /\ typed' = typed \ S /\ deleted' = deleted \union (rows \intersect S)

\* --all deletes the rows and then the vectors; otherwise it is the vectors of
\* the rescued rows, and then these rows.
Purge ==
    \/ /\ purge = "idle" /\ purges < MaxPurges
       /\ purges' = purges + 1
       /\ \/ purge' = "vectors" /\ DeleteRows(rows) /\ UNCHANGED <<vec, req>>
          \/ /\ purge' = "rows" /\ vec' = vec \ (rows \intersect Rescued)
             /\ req' = [req EXCEPT !.calm = FALSE]
             /\ UNCHANGED <<rows, typed, deleted>>
       /\ UNCHANGED <<nodes, after, worker, events, errors>>
    \/ /\ purge = "vectors" /\ purge' = "idle"
       /\ vec' = {}
       /\ req' = [req EXCEPT !.calm = FALSE]
       /\ UNCHANGED <<rows, typed, nodes, after, worker, deleted, events, purges, errors>>
    \/ /\ purge = "rows" /\ purge' = "idle"
       /\ DeleteRows(Rescued)
       /\ UNCHANGED <<vec, nodes, after, worker, req, events, purges, errors>>

---------------------------------------------------------------------------
(* The legs.  A hit is an episode and the weight of the type it comes with. *)

FirstOf(s, n) == SubSeq(s, 1, IF Len(s) < n THEN Len(s) ELSE n)
Hits(s, weights) == [i \in DOMAIN s |-> [id |-> s[i], weight |-> weights[s[i]]]]
Ids(hits) == {hits[i].id : i \in DOMAIN hits}

\* vector_topk
Nearest(q) == Hits(FirstOf(Among(q.near, vec), VectorK), Weight)

\* bm25_topk: the row is joined, and has its type once the worker was there.
Matching(q) ==
    Hits(FirstOf(Among(q.match, rows), LexicalK),
         [e \in Episodes |-> IF e \in typed THEN Weight[e] ELSE Untyped])

\* The members of A and then those of B, in any order: Kuzu has none.
InTurn(A, B) == {p[1] \o p[2] : p \in SetToSeqs(A) \X SetToSeqs(B)}

\* What a query with LIMIT n may find of S, where an episode is in as many rows
\* of the result as rowsOf says: Kuzu keeps any n rows.
Limited(S, rowsOf, n) ==
    {T \in SUBSET S : Cardinality(T) <= n /\ (T = S \/ Total(rowsOf, T) >= n)}

\* graph_walk: q1 finds those that mention a name, a row for each name they do;
\* q2 those that share an entity with another of these, a row for each.  Those
\* found by q1 come first.
Names(q) == NamesIn(FirstOf(Extracted(q.entities), NameK))
NamedBy(q, e) == Mentions[e] \intersect Names(q)
Naming(q) == {e \in nodes : NamedBy(q, e) # {}}
Beside(q) == {e \in nodes : \E n \in Naming(q) \ {e} : Mentions[e] \intersect Mentions[n] # {}}
Walks(q) ==
    UNION {{Hits(FirstOf(s, GraphK), Weight) : s \in InTurn(first, second \ first)} :
               first \in Limited(Naming(q), [e \in nodes |-> Cardinality(NamedBy(q, e))], GraphK),
               second \in Limited(Beside(q), [e \in nodes |-> 1], GraphK)}

\* causality_chain: two hops over the AFTER edges seen, either way.
NextTo(S, edges) == {e \in Episodes : \E s \in S : <<s, e>> \in edges \/ <<e, s>> \in edges}
Chains(seeds, edges) ==
    LET one == NextTo(seeds, edges) \ seeds
        two == NextTo(one, edges) \ (seeds \union one)
    IN  {Hits(FirstOf(s, ChainK), [e \in Episodes |-> Untyped]) : s \in InTurn(one, two)}

\* rrf_fuse.  Unit is a common denominator of the terms.
Contribution(hits, e) ==
    Total([i \in DOMAIN hits |-> hits[i].weight * (Unit \div (RrfK + i))],
          {i \in DOMAIN hits : hits[i].id = e})

Score(legs, e) == Total([l \in DOMAIN legs |-> Contribution(legs[l], e)], DOMAIN legs)

\* Hits of one score come in any order: they are compared as floats.
Fusions(legs) ==
    LET ids == UNION {Ids(legs[l]) : l \in DOMAIN legs}
        score == [e \in ids |-> Score(legs, e)]
    IN  {f \in SetToSeqs(ids) : \A i, j \in DOMAIN f : i < j => score[f[i]] >= score[f[j]]}

SizeOf(s) == Total([i \in DOMAIN s |-> Tokens[s[i]]], DOMAIN s)

\* A mutation: a hit that is too large is passed over.
FittingPassingOver(s) ==
    FoldLeft(LAMBDA kept, e : IF SizeOf(kept) + Tokens[e] <= Budget
                              THEN Append(kept, e) ELSE kept,
             <<>>, s)

\* trim_to_budget: the hits that still have a row, up to the first too large.
Fitting(s) ==
    FirstOf(s, Max({n \in 0..Len(s) : SizeOf(FirstOf(s, n)) <= Budget}))

---------------------------------------------------------------------------
(* The request *)

Go(pc, step) == req.pc = pc /\ req' = step /\ UNCHANGED store
Works == UNCHANGED errors
Fails == errors < MaxErrors /\ errors' = errors + 1

\* A request whose recent turns have text.
Begin(q) ==
    Go("idle", [NoRequest EXCEPT !.pc = "count", !.query = q]) /\ Works

\* SELECT COUNT(*) FROM vec_episodes.
Count ==
    Go("count", [req EXCEPT !.pc = IF vec = {} THEN "done" ELSE "vector", !.found = vec # {}]) /\ Works

Vector == Go("vector", [req EXCEPT !.pc = "graph", !.v = Nearest(req.query)]) /\ Works

\* Only if the text names an entity.
Graph ==
    /\ \E hits \in IF Names(req.query) = {} THEN {<<>>} ELSE Walks(req.query) :
        Go("graph", [req EXCEPT !.pc = "lexical", !.g = hits])
    /\ Works

\* A mutation: the walk is not in a try block.
GraphFailsAll ==
    Names(req.query) # {} /\ Go("graph", [req EXCEPT !.pc = "done"]) /\ Fails
GraphFails ==
    Names(req.query) # {} /\ Go("graph", [req EXCEPT !.pc = "lexical"]) /\ Fails

Lexical == Go("lexical", [req EXCEPT !.pc = "causal", !.b = Matching(req.query)]) /\ Works

\* sqlite3.OperationalError, which a locked database raises as well.
LexicalFails == Go("lexical", [req EXCEPT !.pc = "causal"]) /\ Fails

\* seed_ids: the first hits of the vector and of the lexical leg.
Seeds == Ids(FirstOf(req.v, SeedK)) \union Ids(FirstOf(req.b, SeedK))
Causal ==
    /\ \E hits \in Chains(Seeds, after) : Go("causal", [req EXCEPT !.pc = "trim", !.c = hits])
    /\ Works

\* A query of the chain fails, and its edges are passed over; or the worker
\* adds an edge once it has been asked for.
CausalFails ==
    /\ \E edges \in SUBSET after : \E hits \in Chains(Seeds, edges) :
        Go("causal", [req EXCEPT !.pc = "trim", !.c = hits])
    /\ Fails

Legs(r) == <<r.v, r.g, r.b, r.c>>

Trim ==
    /\ \E fused \in Fusions(Legs(req)) :
        Go("trim", [req EXCEPT !.pc = "render",
                               !.kept = Fitting(Among(FirstOf(fused, TopK), rows))])
    /\ Works

\* A mutation: the content is taken along from trim_to_budget.
RenderKept == Go("render", [req EXCEPT !.pc = "done", !.block = req.kept]) /\ Works

\* render_ltm_block reads the rows once more.
Render == Go("render", [req EXCEPT !.pc = "done", !.block = Among(req.kept, rows)]) /\ Works

\* A statement of SQLite outside bm25_topk raises: the request goes without.
Raise ==
    \E at \in {"count", "vector", "trim", "render"} :
        Go(at, [req EXCEPT !.pc = "done", !.calm = FALSE]) /\ Fails

\* inject_ltm, and the rest of the exchange.
Leave == Go("done", NoRequest) /\ Works

RetrievalNext ==
    \/ \E e \in Episodes : Archive(e) \/ DeleteVec(e)
    \/ InsertVec \/ UpdateEpisode \/ LinkNode \/ Purge
    \/ \E q \in Queries : Begin(q)
    \/ Count \/ Vector \/ Graph \/ GraphFails \/ Lexical \/ LexicalFails
    \/ Causal \/ CausalFails \/ Trim \/ Render \/ Raise \/ Leave

RetrievalSpec == RetrievalInit /\ [][RetrievalNext]_retrievalVars

---------------------------------------------------------------------------
(* Properties *)

Hit == [id : Episodes, weight : Nat]
Requests ==
    [pc : {"idle", "count", "vector", "graph", "lexical", "causal", "trim", "render", "done"},
     query : Query, v : Seq(Hit), g : Seq(Hit), b : Seq(Hit), c : Seq(Hit),
     kept : Seq(Episodes), block : Seq(Episodes), found : BOOLEAN, calm : BOOLEAN]

RetrievalTypeOK ==
    /\ rows \subseteq Episodes /\ typed \subseteq rows
    /\ vec \subseteq Episodes /\ nodes \subseteq Episodes /\ deleted \subseteq Episodes
    /\ after \subseteq nodes \X nodes
    /\ worker \in [at : {"get", "insert", "type", "graph"}, episode : Episodes \union {NoEpisode}]
    /\ purge \in {"idle", "vectors", "rows"}
    /\ req \in Requests
    /\ events \in 0..MaxEvents /\ purges \in 0..MaxPurges /\ errors \in 0..MaxErrors

\* cli.py, purge: "Delete episodes from a project's archive".  Nothing that has
\* been deleted is rendered, whether it was before the request or between two of
\* its statements, although the graph, and a vector the worker was about to
\* write, still lead to it.
PurgedStaysOut ==
    [][req'.block # req.block => ToSet(req'.block) \intersect deleted = {}]_retrievalVars

\* e comes before f in every leg that has f, with a type that counts as much.
Preferred(legs, e, f) ==
    \A l \in 1..4 : \A j \in DOMAIN legs[l] :
        legs[l][j].id = f =>
            \E i \in 1..(j - 1) :
                legs[l][i].id = e /\ legs[l][i].weight >= legs[l][j].weight

\* Fusing, cutting and trimming keep to what the legs agree on: an episode is
\* shown only after all those that every leg prefers to it, unless one of these
\* was deleted meanwhile.
PreferredComesFirst ==
    req.pc = "done" =>
        \A j \in DOMAIN req.block : \A e \in rows :
            Preferred(Legs(req), e, req.block[j]) => \E i \in 1..(j - 1) : req.block[i] = e

\* The graph and the full text may fail, an indexed project still gets its
\* block: if there are vectors, nothing is taken away meanwhile or was ever
\* purged, the statements on them work, no episode is too large by itself, and
\* the settings ask for one at all.
FoundIsShown ==
    (/\ req.pc = "done" /\ req.found /\ req.calm /\ deleted = {}
     /\ \A e \in rows : Tokens[e] <= Budget
     /\ VectorK > 0 /\ TopK > 0)
    => req.block # <<>>
=============================================================================

----------------------------- MODULE KuzuCache -----------------------------
(***************************************************************************)
(* The connections to the graph databases (storage/kuzu.py): one cache for *)
(* all projects, shared by the facet worker and the requests of one proxy, *)
(* which call open_project_kuzu from executor threads and use what it      *)
(* returns after the lock is released.  `spillover query` opens a graph in *)
(* a process of its own.                                                   *)
(*                                                                         *)
(* A database is closed when nothing refers to its connection any more:    *)
(* neither the cache nor a thread.  Kuzu itself is external: it refuses to *)
(* open what another process has open, and a statement of the schema may   *)
(* fail.                                                                   *)
(***************************************************************************)
EXTENDS Naturals, FiniteSets, SequencesExt

CONSTANTS
    Projects,     \* projects of one db_root
    Threads,      \* executor threads
    Handles,      \* connections, each with a database of its own
    NoHandle,     \* no connection
    NoProject,    \* no project
    MaxCache,     \* _MAX_CACHE
    Statements,   \* statements of kuzu_schema.cypher
    MaxErrors     \* bound: errors of Kuzu

ASSUME KuzuAssumption ==
    /\ NoHandle \notin Handles
    /\ NoProject \notin Projects
    /\ {MaxCache, Statements} \subseteq Nat \ {0}
    /\ MaxErrors \in Nat

VARIABLES
    cache,         \* the projects in _CACHE, the one used longest ago first
    conn,          \* their connections
    initialized,   \* _INITIALIZED
    schema,        \* on disk: the statements that have been executed
    task,          \* what each thread is doing, and for which project
    held,          \* the connection it has
    others,        \* the projects that were opened since it got it
    query,         \* the project `spillover query` has open
    errors         \* errors so far

cacheVars == <<cache, conn, initialized, schema, task, held, others, query, errors>>

Idle == [kind |-> "idle", project |-> NoProject]
Jobs == [kind : {"facet", "graph", "causal"}, project : Projects]

Cached == ToSet(cache)

\* The projects and the connections that are open in the proxy.
HeldFor(p) == {held[t] : t \in {u \in Threads : task[u].project = p}} \ {NoHandle}
OpenFor(p) == HeldFor(p) \union ({conn[p]} \ {NoHandle})
Unused == Handles \ UNION {OpenFor(p) : p \in Projects}

---------------------------------------------------------------------------
(* open_project_kuzu, which runs under _LOCK *)

\* Thread t has connection h, for project p.
Got(t, p, h) ==
    /\ held' = [held EXCEPT ![t] = h]
    /\ others' = [u \in Threads |-> IF u = t THEN {}
                                    ELSE IF held[u] = NoHandle \/ task[u].project = p THEN others[u]
                                    ELSE others[u] \union {p}]

\* _CACHE.move_to_end: what comes after p moves up, and p is the last one.
MoveToEnd(s, p) ==
    LET i == CHOOSE i \in 1..Len(s) : s[i] = p
    IN [j \in 1..Len(s) |-> IF j < i THEN s[j]
                            ELSE IF j < Len(s) THEN s[j + 1] ELSE p]

\* popitem(last=False), when there are more than _MAX_CACHE.
Trimmed(s) == IF Len(s) > MaxCache THEN Tail(s) ELSE s

\* A mutation of Hit: what is found stays where it is.
HitUnmoved(t, p) ==
    /\ p \in Cached
    /\ Got(t, p, conn[p])
    /\ UNCHANGED <<cache, conn, initialized, schema, errors>>

Hit(t, p) ==
    /\ p \in Cached
    /\ cache' = MoveToEnd(cache, p)
    /\ Got(t, p, conn[p])
    /\ UNCHANGED <<conn, initialized, schema, errors>>

\* A project that is not cached: a new database and connection, the schema
\* unless this process has executed it before, and a place in the cache,
\* which another one may have to leave.
Miss(t, p) ==
    /\ p \notin Cached /\ query # p
    /\ \E h \in Unused :
        LET now == Trimmed(Append(cache, p))
        IN /\ cache' = now
           /\ conn' = [q \in Projects |-> CASE q = p -> h
                                            [] q # p /\ q \in ToSet(now) -> conn[q]
                                            [] OTHER -> NoHandle]
           /\ Got(t, p, h)
    /\ schema' = [schema EXCEPT ![p] = IF p \in initialized THEN @ ELSE Statements]
    /\ initialized' = initialized \union {p}
    /\ UNCHANGED errors

\* A statement of _init_schema fails when n of them have been executed, now
\* or earlier: CREATE ... IF NOT EXISTS does nothing the second time.
SchemaUpTo(p, n) ==
    schema' = [schema EXCEPT ![p] = IF p \in initialized \/ n < @ THEN @ ELSE n]

\* A mutation of Fails: _INITIALIZED.add before the statements.
FailsMarked(t, p) ==
    /\ p \notin Cached /\ errors < MaxErrors
    /\ errors' = errors + 1
    /\ \E n \in 0..Statements - 1 : SchemaUpTo(p, n)
    /\ initialized' = initialized \union {p}
    /\ UNCHANGED <<cache, conn, held, others>>

\* The database cannot be opened, because another process has it or for
\* another reason, or the schema fails: the caller keeps what it had.
Fails(t, p) ==
    /\ p \notin Cached
    /\ \/ query = p /\ UNCHANGED <<schema, errors>>
       \/ /\ errors < MaxErrors
          /\ errors' = errors + 1
          /\ \E n \in 0..Statements - 1 : SchemaUpTo(p, n)
    /\ UNCHANGED <<cache, conn, initialized, held, others>>

---------------------------------------------------------------------------
(* Those who call it *)

\* A thread starts on an event, or a request comes to its graph leg or,
\* when there are no entities to start from, to its causal leg.
Open(t) ==
    /\ task[t] = Idle
    /\ \E p \in Projects, kind \in {"facet", "graph", "causal"} :
        \/ /\ Hit(t, p) \/ Miss(t, p)
           /\ task' = [task EXCEPT ![t] = [kind |-> kind, project |-> p]]
        \/ /\ Fails(t, p)
           /\ task' = [task EXCEPT ![t] = IF kind = "facet" THEN Idle
                                        ELSE [kind |-> kind, project |-> p]]
    /\ UNCHANGED query

\* The causal leg after the graph leg opens once more; kuzu_conn keeps the
\* graph leg's connection until it is bound again.
OpenAgain(t) ==
    /\ task[t].kind = "graph"
    /\ LET p == task[t].project IN Hit(t, p) \/ Miss(t, p) \/ Fails(t, p)
    /\ task' = [task EXCEPT ![t].kind = "causal"]
    /\ UNCHANGED query

\* The event, or the block of the request, is done, with its connection or
\* with none.
Return(t) ==
    /\ task[t] # Idle
    /\ task' = [task EXCEPT ![t] = Idle]
    /\ held' = [held EXCEPT ![t] = NoHandle]
    /\ others' = [others EXCEPT ![t] = {}]
    /\ UNCHANGED <<cache, conn, initialized, schema, query, errors>>

\* `spillover query` opens a graph, if the proxy has not got it open, and
\* goes without it otherwise.
QueryOpens(p) ==
    /\ query = NoProject
    /\ OpenFor(p) = {}
    /\ query' = p
    /\ UNCHANGED <<cache, conn, initialized, schema, task, held, others, errors>>

QueryExits ==
    /\ query # NoProject
    /\ query' = NoProject
    /\ UNCHANGED <<cache, conn, initialized, schema, task, held, others, errors>>

---------------------------------------------------------------------------

CacheInit ==
    /\ cache = <<>>
    /\ conn = [p \in Projects |-> NoHandle]
    /\ initialized = {}
    /\ schema \in [Projects -> {0, Statements}]
    /\ task = [t \in Threads |-> Idle]
    /\ held = [t \in Threads |-> NoHandle]
    /\ others = [t \in Threads |-> {}]
    /\ query = NoProject
    /\ errors = 0

CacheNext ==
    \/ \E t \in Threads : Open(t) \/ OpenAgain(t) \/ Return(t)
    \/ \E p \in Projects : QueryOpens(p)
    \/ QueryExits

CacheSpec == CacheInit /\ [][CacheNext]_cacheVars

---------------------------------------------------------------------------
(* Properties *)

\* Types; the cache has each project once, no more than _MAX_CACHE of them,
\* and a connection for those it has.
CacheTypeOK ==
    /\ cache \in Seq(Projects)
    /\ Len(cache) <= MaxCache
    /\ \A i, j \in 1..Len(cache) : cache[i] = cache[j] => i = j
    /\ conn \in [Projects -> Handles \union {NoHandle}]
    /\ \A p \in Projects : conn[p] # NoHandle <=> p \in Cached
    /\ initialized \subseteq Projects
    /\ schema \in [Projects -> 0..Statements]
    /\ task \in [Threads -> Jobs \union {Idle}]
    /\ held \in [Threads -> Handles \union {NoHandle}]
    /\ others \in [Threads -> SUBSET Projects]
    /\ query \in Projects \union {NoProject}
    /\ errors \in 0..MaxErrors

\* Whatever failed before, who gets a connection finds every table
\* (_init_schema, kuzu.py:20).
SchemaBeforeUse ==
    \A p \in Projects : OpenFor(p) # {} => schema[p] = Statements

\* A connection that is in use is the one the next caller gets too, so that
\* a project has one open database, unless _MAX_CACHE other projects have
\* been opened in the meantime (kuzu.py:42 closes nothing and asks nobody).
HeldIsCached ==
    \A t \in Threads : held[t] # NoHandle =>
        \/ held[t] = conn[task[t].project]
        \/ Cardinality(others[t]) >= MaxCache
=============================================================================

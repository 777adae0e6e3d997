------------------------------- MODULE Decay -------------------------------
(***************************************************************************)
(* The decay scheduler (decay/scheduler.py): a task that wakes up from     *)
(* time to time and goes through the projects, and the executor thread it  *)
(* waits for, which reads the vectors of a project, computes how important *)
(* each is by now, and writes that row by row.  The facet worker replaces  *)
(* vectors meanwhile, a purge deletes them, statements fail, the process   *)
(* is shut down or dies.                                                   *)
(*                                                                         *)
(* Importance is counted in thousandths, time in steps of a clock.  The    *)
(* pruning that follows the decay of a project is a statement of           *)
(* CounterCompact; here it only takes its time, or fails.                  *)
(***************************************************************************)
EXTENDS Integers, Sequences, FiniteSets

CONSTANTS
    Order,       \* the projects, as iterdir lists them
    Broken,      \* projects whose database cannot be read
    Episodes,    \* episodes of all projects
    Home,        \* the project of an episode
    Type,        \* its memory_type
    Ts,          \* its timestamp
    Tools,       \* the number of its tool calls
    Pinned,      \* episodes with pinned = 1, set by hand
    Hits,        \* hit_count of an episode, set by hand
    Fade,        \* exp(-age / half_life) of a type and an age, in thousandths
    MaxTime,     \* bound: readings of the clock
    MaxFaults,   \* bound: errors that pass
    MaxWrites    \* bound: vectors inserted and purges

Projects == {Order[i] : i \in 1..Len(Order)}
Types == {"priority", "procedural", "semantic", "episodic", "task"}

ASSUME DecayAssumption ==
    /\ Order \in Seq(Projects) /\ Broken \subseteq Projects
    /\ Home \in [Episodes -> Projects] /\ Type \in [Episodes -> Types]
    /\ {Ts, Tools, Hits} \subseteq [Episodes -> Nat]
    /\ Pinned \subseteq Episodes
    /\ Fade \in [Types -> [0..MaxTime -> 0..1000]]
    /\ {MaxTime, MaxFaults, MaxWrites} \subseteq Nat

VARIABLES
    importance,  \* column of vec_episodes; NoRow for an episode without a row
    pinned,      \* episodes whose row of table episodes says pinned = 1
    task,        \* the scheduler: "tick", "wait", "sleep", "stopped" or "down"
    left,        \* the projects the tick has still to visit
    job,         \* the thread: its statement and its project
    read,        \* the time it went by
    updates,     \* the rows it has still to write
    worker,      \* the episode whose vector the facet worker has deleted
    purging,     \* the project `purge` is deleting
    now,         \* the clock
    decayed,     \* when the last finished decay of a project read the clock
    fresh,       \* vectors inserted since that decay read them
    seen,        \* of these, the ones the running decay has read
    faults, writes

scheduler == <<task, left>>
thread == <<job, read, updates, seen>>
rows == <<importance, pinned>>
vars == <<importance, pinned, task, left, job, read, updates, worker, purging, now,
          decayed, fresh, seen, faults, writes>>

NoRow == -1
NoEpisode == "none"
NoProject == "none"
NoJob == [step |-> "none", project |-> "none"]
Steps == {"select", "update", "prune"}

Smaller(a, b) == IF a < b THEN a ELSE b
Larger(a, b) == IF a > b THEN a ELSE b

\* The table of _base_importance and of _apply_decay_for_project.
Base(m) == CASE m = "task" -> 950 [] m = "priority" -> 1000 [] m = "procedural" -> 700
             [] m = "semantic" -> 600 [] m = "episodic" -> 500

\* _base_importance, by which the worker inserts a vector.
_base_importance(e) == Smaller(1000, Base(Type[e]) + 50 * Tools[e])

\* new_imp: what has faded since the episode's time, and what it was hit.
NewImportance(e, t) ==
    LET age == Larger(0, t - Ts[e])
    IN Smaller(1000, (Base(Type[e]) * Fade[Type[e]][age]) \div 1000 + Smaller(50 * Hits[e], 500))

Rows(p) == {e \in Episodes : Home[e] = p /\ importance[e] # NoRow}

---------------------------------------------------------------------------
(* The scheduler's task *)

\* _tick lists the projects.
Tick ==
    /\ task = "tick" /\ left = <<>>
    /\ left' = Order
    /\ UNCHANGED <<rows, task, thread, worker, purging, now, decayed, fresh, faults, writes>>

\* The next project: the decay is given to the executor and waited for.
Submit ==
    /\ task = "tick" /\ left # <<>>
    /\ task' = "wait"
    /\ job' = [step |-> "select", project |-> Head(left)]
    /\ left' = Tail(left)
    /\ UNCHANGED <<rows, read, updates, seen, worker, purging, now, decayed, fresh, faults, writes>>

\* The interval is over.
Wake ==
    /\ task = "sleep"
    /\ task' = "tick"
    /\ UNCHANGED <<rows, left, thread, worker, purging, now, decayed, fresh, faults, writes>>

---------------------------------------------------------------------------
(* The thread *)

\* The SELECT with its join, and the clock: pinned rows are passed over.
Select ==
    /\ job.step = "select" /\ job.project \notin Broken
    /\ job' = [job EXCEPT !.step = "update"]
    /\ read' = now
    /\ updates' = Rows(job.project) \ pinned
    /\ seen' = fresh \cap Rows(job.project)
    /\ UNCHANGED <<rows, scheduler, worker, purging, now, decayed, fresh, faults, writes>>

\* One UPDATE of executemany, a transaction of its own.
Update ==
    /\ job.step = "update"
    /\ \E e \in updates :
        /\ importance' = [importance EXCEPT ![e] = IF @ = NoRow THEN @ ELSE NewImportance(e, read)]
        /\ updates' = updates \ {e}
    /\ UNCHANGED <<pinned, scheduler, job, read, seen, worker, purging, now, decayed, fresh,
                   faults, writes>>

\* A mutation of Decayed: the batch ends one row early.
DecayedButOne ==
    /\ job.step = "update" /\ Cardinality(updates) <= 1
    /\ job' = [job EXCEPT !.step = "prune"]
    /\ updates' = {}
    /\ decayed' = [decayed EXCEPT ![job.project] = read]
    /\ fresh' = fresh \ seen
    /\ seen' = {}
    /\ UNCHANGED <<rows, scheduler, read, worker, purging, now, faults, writes>>

\* All are written; the pruning comes next.
Decayed ==
    /\ job.step = "update" /\ updates = {}
    /\ job' = [job EXCEPT !.step = "prune"]
    /\ decayed' = [decayed EXCEPT ![job.project] = read]
    /\ fresh' = fresh \ seen
    /\ seen' = {}
    /\ UNCHANGED <<rows, scheduler, read, updates, worker, purging, now, faults, writes>>

\* The thread is done, and the task, if it has not been cancelled, goes on
\* with the next project or sleeps.
Pruned ==
    /\ job.step = "prune"
    /\ job' = NoJob
    /\ task' = IF task # "wait" THEN task ELSE IF left = <<>> THEN "sleep" ELSE "tick"
    /\ UNCHANGED <<rows, left, read, updates, seen, worker, purging, now, decayed, fresh,
                   faults, writes>>

\* What an exception in a thread leaves.
Failing ==
    /\ job # NoJob
    /\ \/ job.step = "select" /\ job.project \in Broken /\ UNCHANGED faults
       \/ faults < MaxFaults /\ faults' = faults + 1
    /\ job' = NoJob
    /\ updates' = {}
    /\ seen' = {}
    /\ left' = <<>>
    /\ UNCHANGED <<rows, read, worker, purging, now, decayed, fresh, writes>>

\* A mutation of Fails: without the except clause of _run the task is over,
\* and nothing takes it up again.
FailsForGood == Failing /\ UNCHANGED task

\* _run logs the exception, and the tick is over: the projects that are left
\* have to wait for the next one.
Fails == Failing /\ task' = IF task = "wait" THEN "sleep" ELSE task

---------------------------------------------------------------------------
(* The other actors *)

\* The facet worker replaces the vector of an episode: DELETE and INSERT.
DeleteVec(e) ==
    /\ worker = NoEpisode /\ writes < MaxWrites /\ task # "down"
    /\ worker' = e
    /\ writes' = writes + 1
    /\ importance' = [importance EXCEPT ![e] = NoRow]
    /\ UNCHANGED <<pinned, scheduler, thread, purging, now, decayed, fresh, faults>>

InsertVec ==
    /\ worker # NoEpisode
    /\ worker' = NoEpisode
    /\ importance' = [importance EXCEPT ![worker] = _base_importance(worker)]
    /\ fresh' = fresh \union {worker}
    /\ seen' = seen \ {worker}
    /\ UNCHANGED <<pinned, scheduler, job, read, updates, purging, now, decayed, faults, writes>>

\* `spillover purge --all` on a project: first its episodes, then its vectors.
PurgeEpisodes(p) ==
    /\ purging = NoProject /\ writes < MaxWrites
    /\ writes' = writes + 1
    /\ purging' = p
    /\ pinned' = {e \in pinned : Home[e] # p}
    /\ UNCHANGED <<importance, scheduler, thread, worker, now, decayed, fresh, faults>>

PurgeVecs ==
    /\ purging # NoProject
    /\ purging' = NoProject
    /\ importance' = [e \in Episodes |-> IF Home[e] = purging THEN NoRow ELSE importance[e]]
    /\ UNCHANGED <<pinned, scheduler, thread, worker, now, decayed, fresh, faults, writes>>

Advance ==
    /\ now < MaxTime
    /\ now' = now + 1
    /\ UNCHANGED <<rows, scheduler, thread, worker, purging, decayed, fresh, faults, writes>>

\* The proxy shuts down: the task is cancelled, its thread runs on.
Stop ==
    /\ task \in {"tick", "wait", "sleep"}
    /\ task' = "stopped"
    /\ left' = <<>>
    /\ UNCHANGED <<rows, thread, worker, purging, now, decayed, fresh, faults, writes>>

\* The process has ended, with its threads or without.
Exit ==
    /\ task # "down"
    /\ \/ job = NoJob /\ worker = NoEpisode /\ task = "stopped" /\ UNCHANGED faults
       \/ faults < MaxFaults /\ faults' = faults + 1
    /\ task' = "down"
    /\ left' = <<>>
    /\ job' = NoJob
    /\ updates' = {}
    /\ seen' = {}
    /\ worker' = NoEpisode
    /\ UNCHANGED <<rows, read, purging, now, decayed, fresh, writes>>

\* The proxy is started, and its scheduler with a tick at once.
Start ==
    /\ task = "down"
    /\ task' = "tick"
    /\ UNCHANGED <<rows, left, thread, worker, purging, now, decayed, fresh, faults, writes>>

---------------------------------------------------------------------------

Init ==
    /\ importance = [e \in Episodes |-> NoRow]
    /\ pinned = Pinned
    /\ task = "tick"
    /\ left = <<>>
    /\ job = NoJob
    /\ read = 0
    /\ updates = {} /\ seen = {} /\ fresh = {}
    /\ worker = NoEpisode /\ purging = NoProject
    /\ now = 0
    /\ decayed = [p \in Projects |-> 0]
    /\ faults = 0 /\ writes = 0

Task == Tick \/ Submit \/ Wake
Thread == Select \/ Update \/ Decayed \/ Pruned \/ Fails

Next ==
    \/ Task \/ Thread
    \/ \E e \in Episodes : DeleteVec(e)
    \/ \E p \in Projects : PurgeEpisodes(p)
    \/ PurgeVecs \/ InsertVec \/ Advance \/ Stop \/ Exit \/ Start

Spec == Init /\ [][Next]_vars

\* The event loop runs the task, the timer of an interval goes off, and a
\* statement returns or raises.
FairSpec == Spec /\ WF_vars(Task) /\ WF_vars(Thread)

---------------------------------------------------------------------------
(* Properties *)

RowsOK ==
    /\ importance \in [Episodes -> 0..1000 \union {NoRow}]
    /\ pinned \subseteq Pinned
    /\ worker \in Episodes \union {NoEpisode} /\ purging \in Projects \union {NoProject}

TaskOK ==
    /\ task \in {"tick", "wait", "sleep", "stopped", "down"}
    /\ \E i \in 1..Len(Order) + 1 : left = SubSeq(Order, i, Len(Order))

ThreadOK ==
    /\ job = NoJob \/ job \in [step : Steps, project : Projects]
    /\ job # NoJob => task \in {"wait", "stopped"}
    /\ read \in 0..MaxTime
    /\ updates \subseteq Episodes \ pinned
    /\ seen \subseteq fresh /\ fresh \subseteq Episodes

CountersOK ==
    /\ now \in 0..MaxTime
    /\ decayed \in [Projects -> 0..MaxTime]
    /\ faults \in 0..MaxFaults /\ writes \in 0..MaxWrites

TypeOK == RowsOK /\ TaskOK /\ ThreadOK /\ CountersOK

\* The importance of a vector is never older than the last decay of its
\* project that was finished, and that of a pinned one does not fade,
\* although rows are read first and written one by one while others replace
\* and delete them (_apply_decay_for_project, decay/scheduler.py:22).
ImportanceIsCurrent ==
    \A e \in Episodes : importance[e] # NoRow =>
        \/ importance[e] = _base_importance(e) /\ (e \in fresh \/ e \in Pinned)
        \/ /\ e \notin pinned
           /\ \E t \in decayed[Home[e]]..now : importance[e] = NewImportance(e, t)

\* A project decays again and again while the proxy runs, whatever failed
\* once, unless a database that cannot be read is listed before it: then
\* each tick ends there (_tick, decay/scheduler.py:107).
EveryProjectDecays ==
    \A i \in 1..Len(Order) :
        (\A j \in 1..i : Order[j] \notin Broken) =>
            \/ []<>(job = [step |-> "prune", project |-> Order[i]])
            \/ []<>(task \in {"stopped", "down"})
=============================================================================

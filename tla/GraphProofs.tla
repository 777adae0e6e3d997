---------------------------- MODULE GraphProofs ----------------------------
(***************************************************************************)
(* What is in the graph databases and who has them open: the theorems      *)
(* about FacetPipeline, for any number of handlers and episodes, any clock *)
(* and any number of errors, crashes, stops and purges, and those about    *)
(* KuzuCache, for any number of projects, threads, connections and         *)
(* statements, any size of the cache and any number of errors.             *)
(***************************************************************************)
EXTENDS FacetPipeline, KuzuCache, SequenceTheorems, FiniteSetTheorems, TLAPS

---------------------------------------------------------------------------
(* FacetPipeline *)

\* The part of TypeOK the graph's properties rest on.
GraphType ==
    /\ stored \subseteq Ids
    /\ ts \in [Ids -> Times \union {NoTime}]
    /\ node \in [Ids -> Times \union {NoTime}]
    /\ after \subseteq Ids \X Ids
    /\ hand \in [Handlers -> Seq(Ids)]
    /\ queue \in Seq(Ids)
    /\ step \in Steps

\* What is stored has a time.
StoredHasTime == \A id \in stored : ts[id] # NoTime

\* While _process_one runs, it holds the ts of the row it has read, and once
\* it has merged the node it links, that node is there.
JobKnowsItsTime ==
    /\ step # "idle" => job \in Ids
    /\ step \notin {"idle", "read"} => jobTs = ts[job] /\ jobTs # NoTime
    /\ step \in {"link", "extract"} => node[job] = jobTs

GraphInv ==
    /\ GraphType
    /\ StoredHasTime
    /\ NodeTimeIsEpisodeTime
    /\ JobKnowsItsTime
    /\ AfterFollowsTime

---------------------------------------------------------------------------

\* Times once given stay: only ids never used get one.
LEMMA GraphKept ==
    ASSUME GraphInv,
           UNCHANGED <<node, after>>,
           ts' \in [Ids -> Times \union {NoTime}],
           \A id \in Ids : ts[id] # NoTime => ts'[id] = ts[id]
    PROVE  NodeTimeIsEpisodeTime' /\ AfterFollowsTime'
BY DEF GraphInv, GraphType, NodeTimeIsEpisodeTime, AfterFollowsTime, Nodes

LEMMA GraphInit == Init => GraphInv
<1> SUFFICES ASSUME Init PROVE GraphInv
  OBVIOUS
<1>1. <<>> \in Seq(Ids)
  BY EmptySeq
<1> QED
  BY <1>1 DEF Init, GraphInv, GraphType, StoredHasTime, NodeTimeIsEpisodeTime,
              JobKnowsItsTime, AfterFollowsTime, Nodes, Steps

LEMMA GraphStep == GraphInv /\ [Next]_vars => GraphInv'
<1> SUFFICES ASSUME GraphInv, [Next]_vars PROVE GraphInv'
  OBVIOUS
<1> USE DEF GraphInv
<1>1. ASSUME NEW h \in Handlers, Archive(h) PROVE GraphInv'
  <2>1. PICK batch \in Batches, now \in Times :
          /\ \A i \in DOMAIN batch : batch[i] \in stored \/ ts[batch[i]] = NoTime
          /\ hand' = [hand EXCEPT ![h] = batch]
          /\ stored' = stored \union Elements(batch)
          /\ ts' = [id \in Ids |-> IF id \in New(Elements(batch)) THEN now ELSE ts[id]]
    BY <1>1 DEF Archive
  <2>2. batch \in Seq(Ids)
    <3>1. PICK n \in 1..MaxBatch : batch \in [1..n -> Ids]
      BY DEF Batches
    <3>2. n \in Nat
      BY FacetAssumption
    <3> QED BY <3>1, <3>2, SeqDef
  <2>3. Elements(batch) \subseteq Ids
    BY <2>2, LenProperties, ElementOfSeq DEF Elements
  <2>4. UNCHANGED <<node, after, queue, step, job, jobTs>>
    BY <1>1 DEF Archive, graph, worker
  <2>5. NoTime \notin Times
    BY FacetAssumption
  <2>6. \A id \in Ids : ts[id] # NoTime => ts'[id] = ts[id]
    BY <2>1 DEF New
  <2>7. GraphType'
    BY <2>1, <2>2, <2>3, <2>4 DEF GraphType
  <2>8. StoredHasTime'
    BY <2>1, <2>3, <2>5 DEF StoredHasTime, New, GraphType
  <2>9. JobKnowsItsTime'
    BY <2>4, <2>6 DEF JobKnowsItsTime, GraphType
  <2> QED BY <2>4, <2>6, <2>7, <2>8, <2>9, GraphKept DEF GraphType
<1>2. ASSUME NEW h \in Handlers, Enqueue(h) PROVE GraphInv'
  <2>1. queue \o hand[h] \in Seq(Ids)
    BY ConcatProperties DEF GraphType
  <2>2. queue' \in Seq(Ids)
    <3>1. CASE Len(queue \o hand[h]) <= QueueMax
      BY <1>2, <2>1, <3>1 DEF Enqueue
    <3>2. CASE ~(Len(queue \o hand[h]) <= QueueMax)
      <4>1. QueueMax \in Int /\ 1 \in Int
        BY FacetAssumption
      <4>2. queue' = SubSeq(queue \o hand[h], 1, QueueMax)
        BY <1>2, <3>2 DEF Enqueue
      <4>3. \A i \in 1..QueueMax : (queue \o hand[h])[i] \in Ids
        BY <2>1, <3>2, LenProperties, ElementOfSeq, FacetAssumption
      <4>4. SubSeq(queue \o hand[h], 1, QueueMax) \in Seq(Ids)
        BY ONLY <4>1, <4>3, SubSeqProperties
      <4> QED BY <4>2, <4>4
    <3> QED BY <3>1, <3>2
  <2>3. hand' \in [Handlers -> Seq(Ids)]
    BY <1>2, EmptySeq DEF Enqueue, GraphType
  <2> QED
    BY <1>2, <2>2, <2>3, GraphKept
       DEF Enqueue, GraphType, StoredHasTime, JobKnowsItsTime, tables, graph, worker
<1>3. ASSUME NEW h \in Handlers, Discard(h) PROVE GraphInv'
  BY <1>3, EmptySeq, GraphKept
     DEF Discard, GraphType, StoredHasTime, JobKnowsItsTime, tables, graph, worker
<1>4. CASE Get
  <2>1. Head(queue) \in Ids /\ Tail(queue) \in Seq(Ids)
    BY <1>4, HeadTailProperties DEF Get, GraphType
  <2> QED
    BY <1>4, <2>1, GraphKept
       DEF Get, GraphType, StoredHasTime, JobKnowsItsTime, Steps, tables, graph
<1>5. CASE Read
  BY <1>5, GraphKept
     DEF Read, Done, GraphType, StoredHasTime, JobKnowsItsTime, Steps, tables, graph
<1>6. CASE DeleteVec \/ InsertVec \/ UpdateEpisode
  BY <1>6, GraphKept
     DEF DeleteVec, InsertVec, UpdateEpisode, GraphType, StoredHasTime,
         JobKnowsItsTime, Steps, tables, graph
<1>7. CASE MergeNode
  <2>1. job \in Ids /\ jobTs = ts[job] /\ jobTs # NoTime
    BY <1>7 DEF MergeNode, JobKnowsItsTime
  <2>2. /\ node' = [node EXCEPT ![job] = jobTs]
        /\ step' = "link"
        /\ UNCHANGED <<stored, ts, after, hand, queue, job, jobTs>>
    BY <1>7 DEF MergeNode, tables
  <2>3. GraphType'
    BY <2>1, <2>2 DEF GraphType, Steps
  <2>4. NodeTimeIsEpisodeTime'
    BY <2>1, <2>2 DEF NodeTimeIsEpisodeTime, Nodes, GraphType
  <2>5. \A id \in Nodes : id \in Nodes' /\ node'[id] = node[id]
    BY <2>1, <2>2 DEF NodeTimeIsEpisodeTime, Nodes, GraphType
  <2>6. AfterFollowsTime'
    BY <2>2, <2>5 DEF AfterFollowsTime
  <2>7. StoredHasTime' /\ JobKnowsItsTime'
    BY <2>1, <2>2 DEF StoredHasTime, JobKnowsItsTime, GraphType
  <2> QED BY <2>3, <2>4, <2>6, <2>7
<1>8. CASE LinkAfter
  <2>1. job \in Ids /\ node[job] = jobTs /\ jobTs # NoTime
    BY <1>8 DEF LinkAfter, JobKnowsItsTime
  <2>2. UNCHANGED <<stored, ts, node, hand, queue, job, jobTs>> /\ step' = "extract"
    BY <1>8 DEF LinkAfter, tables
  <2>3. \A e \in after' :
          e \in after \/ \E prev \in Earlier : e = <<prev, job>>
    BY <1>8 DEF LinkAfter, Latest
  <2>4. \A prev \in Earlier : prev \in Nodes /\ node[prev] < node[job]
    BY <2>1 DEF Earlier
  <2>5. job \in Nodes
    BY <2>1 DEF Nodes
  <2>6. AfterFollowsTime'
    BY <2>2, <2>3, <2>4, <2>5 DEF AfterFollowsTime, Nodes
  <2>7. after' \subseteq Ids \X Ids
    BY <2>1, <2>3 DEF GraphType, Earlier, Nodes
  <2>8. GraphType' /\ StoredHasTime' /\ JobKnowsItsTime' /\ NodeTimeIsEpisodeTime'
    BY <1>8, <2>1, <2>2, <2>7
       DEF LinkAfter, GraphType, StoredHasTime, JobKnowsItsTime,
           NodeTimeIsEpisodeTime, Nodes, Steps
  <2> QED BY <2>6, <2>8
<1>9. CASE Extract \/ Finish \/ WorkerError
  BY <1>9, GraphKept
     DEF Extract, Finish, WorkerError, Done, GraphType, StoredHasTime, JobKnowsItsTime,
         Steps, tables, graph
<1>10. CASE Stop \/ Start
  BY <1>10, EmptySeq, GraphKept
     DEF Stop, Start, GraphType, StoredHasTime, JobKnowsItsTime, tables, graph, worker
<1>11. CASE Crash
  BY <1>11, EmptySeq, GraphKept
     DEF Crash, Done, GraphType, StoredHasTime, JobKnowsItsTime, Steps, tables, graph
<1>12. CASE Purge
  BY <1>12, GraphKept
     DEF Purge, PurgeAll, PurgeAllVec, PurgeRescuedVec, PurgeRescued, DeleteEpisodes,
         GraphType, StoredHasTime, JobKnowsItsTime, tables, graph, worker
<1>13. CASE UNCHANGED vars
  BY <1>13, GraphKept DEF vars, GraphType, StoredHasTime, JobKnowsItsTime
<1> QED
  BY <1>1, <1>2, <1>3, <1>4, <1>5, <1>6, <1>7, <1>8, <1>9, <1>10, <1>11, <1>12, <1>13
     DEF Next, Process

LEMMA GraphAlways == Spec => []GraphInv
BY GraphInit, GraphStep, PTL DEF Spec

\* Re-processing, purges and restarts never turn an AFTER edge around: every
\* edge goes from an earlier to a later episode, so the chain has no cycle.
THEOREM EdgesFollowTime == Spec => []AfterFollowsTime
<1>1. GraphInv => AfterFollowsTime
  BY DEF GraphInv
<1> QED BY <1>1, GraphAlways, PTL

\* The graph never disagrees with the archive on an episode's time.
THEOREM GraphTimesAgree == Spec => []NodeTimeIsEpisodeTime
<1>1. GraphInv => NodeTimeIsEpisodeTime
  BY DEF GraphInv
<1> QED BY <1>1, GraphAlways, PTL

---------------------------------------------------------------------------
(* Type correctness *)

TypeInv == GraphInv /\ TypeOK

\* The rows one call has written, and what their writers keep of them.
LEMMA BatchType ==
    ASSUME NEW batch \in Batches
    PROVE  batch \in Seq(Ids) /\ Elements(batch) \subseteq Ids
<1>1. batch \in Seq(Ids)
  <2>1. PICK n \in 1..MaxBatch : batch \in [1..n -> Ids]
    BY DEF Batches
  <2>2. n \in Nat
    BY FacetAssumption
  <2> QED BY <2>1, <2>2, SeqDef
<1> QED BY <1>1, LenProperties, ElementOfSeq DEF Elements

\* put_nowait keeps the queue within its maxsize.
LEMMA OfferedFits ==
    ASSUME NEW offered \in Seq(Ids), ~(Len(offered) <= QueueMax)
    PROVE  Len(SubSeq(offered, 1, QueueMax)) <= QueueMax
<1>1. QueueMax \in Nat /\ 1 \in Int /\ QueueMax \in Int
  BY FacetAssumption
<1>2. \A i \in 1..QueueMax : offered[i] \in Ids
  BY LenProperties, ElementOfSeq, FacetAssumption
<1>3. Len(SubSeq(offered, 1, QueueMax)) = IF 1 <= QueueMax THEN QueueMax - 1 + 1 ELSE 0
  BY ONLY <1>1, <1>2, SubSeqProperties
<1> QED BY <1>1, <1>3

LEMMA TypeInit == Init => TypeInv
<1> SUFFICES ASSUME Init PROVE TypeOK
  BY GraphInit DEF TypeInv
<1>1. <<>> \in Seq(Ids) /\ Len(<<>>) = 0
  BY EmptySeq
<1> QED BY <1>1, FacetAssumption DEF Init, TypeOK, Steps

LEMMA TypeStep == TypeInv /\ [Next]_vars => TypeInv'
<1> SUFFICES ASSUME TypeInv, [Next]_vars PROVE TypeOK'
  BY GraphStep DEF TypeInv
<1> USE DEF TypeInv
<1>0. GraphType' /\ (step # "idle" => job \in Ids)
  BY GraphStep DEF GraphInv, JobKnowsItsTime
<1>1. ASSUME NEW h \in Handlers, Archive(h) PROVE TypeOK'
  <2>1. PICK batch \in Batches, rescue \in BOOLEAN :
          /\ stored' = stored \union Elements(batch)
          /\ pending' = pending \union New(Elements(batch))
          /\ rescued' = IF rescue THEN rescued \union Elements(batch) ELSE rescued
    BY <1>1 DEF Archive
  <2>2. pending' \subseteq stored' /\ rescued' \subseteq stored'
    BY <2>1 DEF TypeOK, New
  <2> QED BY <1>0, <1>1, <2>2 DEF Archive, TypeOK, GraphType, graph, worker
<1>2. ASSUME NEW h \in Handlers, Enqueue(h) PROVE TypeOK'
  <2>1. queue \o hand[h] \in Seq(Ids)
    BY ConcatProperties DEF TypeOK
  <2>2. Len(queue') <= QueueMax
    <3>1. CASE Len(queue \o hand[h]) <= QueueMax
      BY <1>2, <3>1 DEF Enqueue
    <3>2. CASE ~(Len(queue \o hand[h]) <= QueueMax)
      BY <1>2, <2>1, <3>2, OfferedFits DEF Enqueue
    <3> QED BY <3>1, <3>2
  <2> QED BY <1>0, <1>2, <2>2 DEF Enqueue, TypeOK, GraphType, tables, graph, worker
<1>3. ASSUME NEW h \in Handlers, Discard(h) PROVE TypeOK'
  BY <1>0, <1>3 DEF Discard, TypeOK, GraphType, tables, graph, worker
<1>4. CASE Get
  <2>1. Head(queue) \in Ids /\ Len(Tail(queue)) = Len(queue) - 1 /\ Len(queue) \in Nat
    BY <1>4, HeadTailProperties, LenProperties DEF Get, TypeOK
  <2> QED
    BY <1>0, <1>4, <2>1, FacetAssumption DEF Get, TypeOK, GraphType, tables, graph
<1>5. CASE Read
  BY <1>0, <1>5 DEF Read, Done, TypeOK, GraphType, tables, graph
<1>6. CASE DeleteVec \/ InsertVec \/ UpdateEpisode
  BY <1>0, <1>6
     DEF DeleteVec, InsertVec, UpdateEpisode, TypeOK, GraphType, tables, graph
<1>7. CASE MergeNode \/ LinkAfter
  BY <1>0, <1>7 DEF MergeNode, LinkAfter, TypeOK, GraphType, tables
<1>8. CASE Extract
  <2>1. job \in Ids /\ at < Len(FacetsIn[job]) /\ at \in Nat
    BY <1>0, <1>8 DEF Extract, TypeOK
  <2>2. FacetsIn[job] \in Seq(Facet)
    BY <2>1, FacetAssumption DEF FacetsIn
  <2>3. FacetsIn[job][at + 1] \in Facet
    BY <2>1, <2>2, LenProperties, ElementOfSeq
  <2>4. linked' \subseteq Ids \X Facet /\ at' \in Nat
    BY <1>8, <2>1, <2>3 DEF Extract, TypeOK
  <2> QED BY <1>0, <1>8, <2>4 DEF Extract, TypeOK, GraphType, tables
<1>9. CASE Finish \/ WorkerError
  BY <1>0, <1>9, FacetAssumption
     DEF Finish, WorkerError, Done, TypeOK, GraphType, tables, graph
<1>10. CASE Stop \/ Start \/ Crash
  <2>1. Len(queue') <= QueueMax
    BY <1>10, EmptySeq, FacetAssumption DEF Stop, Start, Crash, TypeOK
  <2>2. CASE Stop \/ Start
    BY <1>0, <2>1, <2>2 DEF Stop, Start, TypeOK, GraphType, tables, graph, worker
  <2>3. CASE Crash
    BY <1>0, <2>1, <2>3, FacetAssumption
       DEF Crash, Done, TypeOK, GraphType, tables, graph
  <2> QED BY <1>10, <2>2, <2>3
<1>11. CASE Purge
  BY <1>0, <1>11, FacetAssumption
     DEF Purge, PurgeAll, PurgeAllVec, PurgeRescuedVec, PurgeRescued, DeleteEpisodes,
         TypeOK, GraphType, tables, graph, worker
<1>12. CASE UNCHANGED vars
  BY <1>12 DEF vars, TypeOK
<1> QED
  BY <1>1, <1>2, <1>3, <1>4, <1>5, <1>6, <1>7, <1>8, <1>9, <1>10, <1>11, <1>12
     DEF Next, Process

\* The queue stays within its maxsize and flags stay on stored rows, among the
\* types of all the variables.
THEOREM TypeCorrect == Spec => []TypeOK
<1>1. TypeInv => TypeOK
  BY DEF TypeInv
<1> QED BY <1>1, TypeInit, TypeStep, PTL DEF Spec

---------------------------------------------------------------------------
(* What is no longer pending is indexed *)

\* An event that is about to clear facet_pending has written its vector.
UpdateHasVector == step = "update" => purges > 0 \/ job \in vec

\* The first `at` facets of the event have their edges.
LinkedSoFar ==
    /\ step # "extract" => at = 0
    /\ step = "extract" =>
        /\ at <= Len(FacetsIn[job])
        /\ \A i \in 1..at : <<job, FacetsIn[job][i]>> \in linked

\* A purge that has run its first statement is counted.
PurgerCounted == purger # "idle" => purges > 0

IndexInv ==
    /\ FacetedIsIndexed
    /\ PurgerCounted
    /\ faults = 0 => UpdateHasVector /\ LinkedSoFar

LEMMA IndexInit == Init => IndexInv
BY DEF Init, IndexInv, FacetedIsIndexed, PurgerCounted, UpdateHasVector, LinkedSoFar, Nodes

\* A step that leaves the event, the index and the graph alone, and clears no
\* facet_pending.
LEMMA IndexKept ==
    ASSUME IndexInv,
           UNCHANGED <<vec, graph, worker>>,
           stored' \ pending' \subseteq stored \ pending,
           faults' = faults, purges' \in {purges, purges + 1}, purges \in Nat,
           PurgerCounted'
    PROVE  IndexInv'
<1>1. UNCHANGED <<vec, node, linked, step, job, at, Nodes>>
  BY DEF graph, worker, Nodes
<1>2. \A id : IsLinked(id)' <=> IsLinked(id)
  BY <1>1 DEF IsLinked
<1>3. purges > 0 => purges' > 0
  OBVIOUS
<1>4. FacetedIsIndexed'
  BY <1>1, <1>2, <1>3 DEF IndexInv, FacetedIsIndexed
<1>5. faults' = 0 => UpdateHasVector' /\ LinkedSoFar'
  BY <1>1, <1>3 DEF IndexInv, UpdateHasVector, LinkedSoFar
<1> QED BY <1>4, <1>5 DEF IndexInv

LEMMA IndexStep == TypeInv /\ IndexInv /\ [Next]_vars => IndexInv'
<1> SUFFICES ASSUME TypeInv, IndexInv, [Next]_vars PROVE IndexInv'
  OBVIOUS
<1> USE DEF TypeInv
<1>0. /\ purges \in Nat /\ faults \in Nat /\ at \in Nat
      /\ step # "idle" => job \in Ids
  BY FacetAssumption DEF TypeOK, GraphInv, JobKnowsItsTime
<1>1. ASSUME NEW h \in Handlers, Archive(h) \/ Enqueue(h) \/ Discard(h) PROVE IndexInv'
  <2>1. stored' \ pending' \subseteq stored \ pending
    <3>1. CASE Archive(h)
      <4>1. PICK batch \in Batches :
              /\ \A i \in DOMAIN batch : batch[i] \in stored \/ ts[batch[i]] = NoTime
              /\ stored' = stored \union Elements(batch)
              /\ pending' = pending \union New(Elements(batch))
        BY <3>1 DEF Archive
      <4>2. Elements(batch) \subseteq stored \union New(Elements(batch))
        BY <4>1, BatchType, LenProperties DEF Elements, New
      <4> QED BY <4>1, <4>2
    <3> QED BY <1>1, <3>1 DEF Enqueue, Discard, tables
  <2> QED
    BY <1>0, <1>1, <2>1, IndexKept DEF Archive, Enqueue, Discard, IndexInv, PurgerCounted
<1>2. CASE Stop \/ Start
  BY <1>0, <1>2, IndexKept DEF Stop, Start, tables, IndexInv, PurgerCounted
<1>3. CASE Get
  BY <1>0, <1>3
     DEF Get, IndexInv, FacetedIsIndexed, PurgerCounted, UpdateHasVector, LinkedSoFar,
         IsLinked, Nodes, tables, graph
<1>4. CASE Read
  BY <1>0, <1>4
     DEF Read, Done, IndexInv, FacetedIsIndexed, PurgerCounted, UpdateHasVector,
         LinkedSoFar, IsLinked, Nodes, tables, graph
<1>5. CASE DeleteVec \/ InsertVec \/ UpdateEpisode
  BY <1>0, <1>5
     DEF DeleteVec, InsertVec, UpdateEpisode, IndexInv, FacetedIsIndexed, PurgerCounted,
         UpdateHasVector, LinkedSoFar, IsLinked, Nodes, tables, graph
<1>6. CASE MergeNode
  <2>1. job \in Ids /\ jobTs # NoTime
    BY <1>0, <1>6 DEF MergeNode, GraphInv, JobKnowsItsTime
  <2>2. Nodes' = Nodes \union {job}
    BY <1>6, <2>1 DEF MergeNode, Nodes, TypeOK
  <2>3. /\ step = "merge" /\ step' = "link"
        /\ UNCHANGED <<stored, pending, vec, linked, job, at, purger, faults, purges>>
    BY <1>6 DEF MergeNode, tables
  <2>4. \A id : IsLinked(id)' <=> IsLinked(id)
    BY <2>3 DEF IsLinked
  <2>5. FacetedIsIndexed'
    BY <2>2, <2>3, <2>4 DEF IndexInv, FacetedIsIndexed
  <2> QED
    BY <2>3, <2>5 DEF IndexInv, PurgerCounted, UpdateHasVector, LinkedSoFar
<1>7. CASE LinkAfter
  <2>1. job \in Ids /\ Len(FacetsIn[job]) \in Nat
    BY <1>0, <1>7, FacetAssumption, LenProperties DEF LinkAfter, FacetsIn
  <2>2. UNCHANGED Nodes /\ (faults = 0 => at = 0)
    BY <1>7 DEF LinkAfter, Nodes, IndexInv, LinkedSoFar
  <2> QED
    BY <1>0, <1>7, <2>1, <2>2
       DEF LinkAfter, IndexInv, FacetedIsIndexed, PurgerCounted, UpdateHasVector,
           LinkedSoFar, IsLinked, tables
<1>8. CASE Extract
  BY <1>0, <1>8
     DEF Extract, IndexInv, FacetedIsIndexed, PurgerCounted, UpdateHasVector,
         LinkedSoFar, IsLinked, Nodes, tables
<1>9. CASE Finish
  BY <1>0, <1>9
     DEF Finish, Done, IndexInv, FacetedIsIndexed, PurgerCounted, UpdateHasVector,
         LinkedSoFar, IsLinked, Nodes, tables, graph
<1>10. CASE WorkerError \/ Crash
  <2>1. faults' # 0 /\ PurgerCounted'
    BY <1>0, <1>10 DEF WorkerError, Crash, IndexInv, PurgerCounted
  <2> QED BY <2>1 DEF IndexInv, FacetedIsIndexed
<1>11. CASE Purge
  <2>1. purges' > 0 /\ faults' = faults /\ stored' \ pending' \subseteq stored \ pending
    BY <1>0, <1>11
       DEF Purge, PurgeAll, PurgeAllVec, PurgeRescuedVec, PurgeRescued, DeleteEpisodes,
           IndexInv, PurgerCounted, tables
  <2>2. UNCHANGED <<graph, worker>>
    BY <1>11 DEF Purge, PurgeAll, PurgeAllVec, PurgeRescuedVec, PurgeRescued
  <2> QED
    BY <2>1, <2>2
       DEF IndexInv, FacetedIsIndexed, PurgerCounted, UpdateHasVector, LinkedSoFar,
           IsLinked, Nodes, graph, worker
<1>12. CASE UNCHANGED vars
  BY <1>12
     DEF vars, IndexInv, FacetedIsIndexed, PurgerCounted, UpdateHasVector, LinkedSoFar,
         IsLinked, Nodes
<1> QED
  BY <1>1, <1>2, <1>3, <1>4, <1>5, <1>6, <1>7, <1>8, <1>9, <1>10, <1>11, <1>12
     DEF Next, Process

\* While no statement fails, an episode whose facet_pending is cleared has its
\* node and all of its edges and, unless somebody purges, its vector, whatever
\* stops, re-deliveries and purges come in between.
THEOREM ClearedIsIndexed == Spec => []FacetedIsIndexed
<1>1. IndexInv => FacetedIsIndexed
  BY DEF IndexInv
<1> QED BY <1>1, TypeInit, TypeStep, IndexInit, IndexStep, PTL DEF Spec

---------------------------------------------------------------------------
(* The order of the cache *)

Distinct(s) == \A i, j \in 1..Len(s) : s[i] = s[j] => i = j

\* b comes after a in s.
Follows(s, a, b) == \E i, j \in 1..Len(s) : i < j /\ s[i] = a /\ s[j] = b

LEMMA Members ==
    ASSUME NEW S, NEW s \in Seq(S)
    PROVE  /\ ToSet(s) = {s[i] : i \in 1..Len(s)}
           /\ ToSet(s) \subseteq S
BY LenProperties, ElementOfSeq DEF ToSet

\* No project comes after itself.
LEMMA NotAfterItself ==
    ASSUME NEW s, Distinct(s), NEW a, Len(s) \in Nat
    PROVE  ~Follows(s, a, a)
BY DEF Distinct, Follows

\* A sequence without repetitions has as many members as places.
LEMMA DistinctCount ==
    ASSUME NEW S, NEW s \in Seq(S), Distinct(s)
    PROVE  IsFiniteSet(ToSet(s)) /\ Cardinality(ToSet(s)) = Len(s)
<1>1. /\ Len(s) \in Nat /\ s \in [1..Len(s) -> S]
      /\ ToSet(s) = {s[i] : i \in 1..Len(s)}
  BY LenProperties, Members
<1>2. s \in [1..Len(s) -> ToSet(s)]
  BY <1>1
<1>3. s \in Surjection(1..Len(s), ToSet(s)) /\ s \in Injection(1..Len(s), ToSet(s))
  BY <1>1, <1>2 DEF Surjection, Injection, IsInjective, Distinct
<1>4. IsFiniteSet(1..Len(s)) /\ Cardinality(1..Len(s)) = Len(s)
  BY <1>1, FS_Interval
<1> QED BY <1>3, <1>4, FS_Surjection

\* move_to_end: the same projects, in the order they had, but for p, which
\* comes last.
LEMMA MoveToEndOrder ==
    ASSUME NEW s \in Seq(Projects), Distinct(s), NEW p \in ToSet(s)
    PROVE  LET m == MoveToEnd(s, p)
           IN  /\ m \in Seq(Projects)
               /\ Len(m) = Len(s)
               /\ Distinct(m)
               /\ ToSet(m) = ToSet(s)
               /\ \A a, b : Follows(m, a, b) => b = p \/ Follows(s, a, b)
               /\ \A b : ~Follows(m, p, b)
<1> DEFINE i == CHOOSE i \in 1..Len(s) : s[i] = p
           m == [j \in 1..Len(s) |-> IF j < i THEN s[j]
                                     ELSE IF j < Len(s) THEN s[j + 1] ELSE p]
<1>1. /\ Len(s) \in Nat
      /\ ToSet(s) = {s[j] : j \in 1..Len(s)}
      /\ \A j \in 1..Len(s) : s[j] \in Projects
  BY LenProperties, Members, ElementOfSeq
<1>2. i \in 1..Len(s) /\ s[i] = p
  BY <1>1
<1> HIDE DEF i
<1>3. m \in [1..Len(s) -> Projects]
  BY <1>1, <1>2
<1>4. m \in Seq(Projects) /\ Len(m) = Len(s)
  BY <1>1, <1>3, SeqDef, LenProperties
<1>5. /\ \A j \in 1..Len(s) : j < i => m[j] = s[j]
      /\ \A j \in 1..Len(s) : ~(j < i) /\ j < Len(s) => m[j] = s[j + 1]
      /\ m[Len(s)] = p
  BY <1>1, <1>2
<1> HIDE DEF m
<1> DEFINE from(j) == IF j < i THEN j ELSE IF j < Len(s) THEN j + 1 ELSE i
<1>6. \A j \in 1..Len(s) : from(j) \in 1..Len(s) /\ m[j] = s[from(j)]
  BY <1>1, <1>2, <1>5
<1>7. Distinct(m)
  <2>1. \A j, k \in 1..Len(s) : from(j) = from(k) => j = k
    BY <1>1, <1>2
  <2> HIDE DEF from
  <2>2. \A j, k \in 1..Len(s) : m[j] = m[k] => from(j) = from(k)
    BY <1>6 DEF Distinct
  <2> QED BY <1>4, <2>1, <2>2 DEF Distinct
<1>8. ToSet(m) = ToSet(s)
  <2>1. ToSet(m) = {m[j] : j \in 1..Len(s)}
    BY <1>4, Members
  <2>2. \A k \in 1..Len(s) : \E j \in 1..Len(s) : from(j) = k
    <3> SUFFICES ASSUME NEW k \in 1..Len(s) PROVE \E j \in 1..Len(s) : from(j) = k
      OBVIOUS
    <3>1. CASE k < i
      BY <3>1, <1>1, <1>2
    <3>2. CASE k = i
      <4>1. from(Len(s)) = i
        BY <1>1, <1>2
      <4> QED BY <3>2, <4>1, <1>1, <1>2
    <3>3. CASE k > i
      <4>1. k - 1 \in 1..Len(s) /\ from(k - 1) = k
        BY <3>3, <1>1, <1>2
      <4> QED BY <4>1
    <3> QED BY <3>1, <3>2, <3>3, <1>1, <1>2
  <2> HIDE DEF from
  <2>3. \A j \in 1..Len(s) : m[j] \in ToSet(s)
    BY <1>1, <1>6
  <2>4. \A k \in 1..Len(s) : s[k] \in ToSet(m)
    BY <1>6, <2>1, <2>2
  <2> QED BY <1>1, <2>1, <2>3, <2>4
<1>9. ASSUME NEW a, NEW b, Follows(m, a, b)
      PROVE  b = p \/ Follows(s, a, b)
  <2>1. PICK j \in 1..Len(s), k \in 1..Len(s) : j < k /\ m[j] = a /\ m[k] = b
    BY <1>4, <1>9 DEF Follows
  <2>2. k = Len(s) \/ from(j) < from(k)
    BY <1>1, <1>2, <2>1
  <2> QED BY <1>5, <1>6, <2>1, <2>2 DEF Follows
<1>10. ASSUME NEW b, Follows(m, p, b)
       PROVE  FALSE
  <2>1. PICK j \in 1..Len(s), k \in 1..Len(s) : j < k /\ m[j] = p
    BY <1>4, <1>10 DEF Follows
  <2>2. Len(s) \in 1..Len(m) /\ j \in 1..Len(m) /\ j # Len(s)
    BY <1>1, <1>4, <2>1
  <2> QED BY <1>5, <1>7, <2>1, <2>2 DEF Distinct
<1> QED BY <1>4, <1>7, <1>8, <1>9, <1>10 DEF MoveToEnd, m, i

\* A new project comes last; when the cache is full the first one leaves, and
\* all that are left have come after it.
LEMMA TrimmedOrder ==
    ASSUME NEW s \in Seq(Projects), Distinct(s), Len(s) <= MaxCache,
           NEW p \in Projects, p \notin ToSet(s)
    PROVE  LET now == Trimmed(Append(s, p))
           IN  /\ now \in Seq(Projects)
               /\ Len(now) <= MaxCache
               /\ Distinct(now)
               /\ p \in ToSet(now)
               /\ ToSet(now) \subseteq ToSet(s) \union {p}
               /\ \A a, b : Follows(now, a, b) => b = p \/ Follows(s, a, b)
               /\ \A b : ~Follows(now, p, b)
               /\ \A a \in ToSet(s) \ ToSet(now) :
                     /\ Len(now) = MaxCache
                     /\ \A b \in ToSet(now) : b = p \/ Follows(s, a, b)
<1> DEFINE x == Append(s, p)
           now == Trimmed(x)
           n == Len(s)
           o == IF n < MaxCache THEN 0 ELSE 1
<1>1. /\ n \in Nat
      /\ ToSet(s) = {s[j] : j \in 1..n}
      /\ \A j \in 1..n : s[j] \in Projects
      /\ MaxCache \in Nat \ {0}
  BY LenProperties, Members, ElementOfSeq, KuzuAssumption
<1>2. /\ x \in Seq(Projects) /\ Len(x) = n + 1
      /\ \A j \in 1..n : x[j] = s[j]
      /\ x[n + 1] = p
  BY <1>1
<1> HIDE DEF x
<1>3. /\ now \in Seq(Projects)
      /\ Len(now) = n + 1 - o
      /\ \A j \in 1..n + 1 - o : now[j] = x[j + o]
  <2>1. CASE n < MaxCache
    BY <1>1, <1>2, <2>1 DEF Trimmed
  <2>2. CASE ~(n < MaxCache)
    <3>1. now = Tail(x) /\ x # <<>>
      BY <1>1, <1>2, <2>2, EmptySeq DEF Trimmed
    <3>2. /\ Tail(x) \in Seq(Projects) /\ Len(Tail(x)) = n
          /\ \A j \in 1..n : Tail(x)[j] = x[j + 1]
      BY <3>1, <1>1, <1>2, HeadTailProperties
    <3> QED BY <3>1, <3>2, <1>1, <2>2
  <2> QED BY <2>1, <2>2
<1>4. /\ ToSet(now) = {now[j] : j \in 1..n + 1 - o}
      /\ o \in {0, 1} /\ n + 1 - o <= MaxCache /\ n + 1 - o \in 1..n + 1
      /\ o = 1 => n = MaxCache
  BY <1>1, <1>3, Members
<1> HIDE DEF now, o
<1>5. /\ now[n + 1 - o] = p
      /\ \A j \in 1..n + 1 - o :
            j # n + 1 - o => j + o \in 1..n /\ now[j] = s[j + o]
  BY <1>1, <1>2, <1>3, <1>4
<1>6. \A j \in 1..n : s[j] # p
  BY <1>1
<1> HIDE DEF n
<1>7. Distinct(now)
  <2> SUFFICES ASSUME NEW j \in 1..n + 1 - o, NEW k \in 1..n + 1 - o, now[j] = now[k]
               PROVE  j = k
    BY <1>3 DEF Distinct
  <2>1. CASE j = n + 1 - o \/ k = n + 1 - o
    BY <2>1, <1>5, <1>6
  <2>2. CASE j # n + 1 - o /\ k # n + 1 - o
    <3>1. j + o = k + o
      BY <2>2, <1>5 DEF Distinct, n
    <3> QED BY <3>1, <1>1, <1>4
  <2> QED BY <2>1, <2>2
<1>8. p \in ToSet(now) /\ ToSet(now) \subseteq ToSet(s) \union {p}
  <2>1. p \in ToSet(now)
    BY <1>1, <1>4, <1>5
  <2>2. \A j \in 1..n + 1 - o : now[j] \in ToSet(s) \union {p}
    BY <1>1, <1>5
  <2> QED BY <2>1, <2>2, <1>4
<1>9. ASSUME NEW a, NEW b, Follows(now, a, b)
      PROVE  a # p /\ (b = p \/ Follows(s, a, b))
  <2>1. PICK j \in 1..n + 1 - o, k \in 1..n + 1 - o : j < k /\ now[j] = a /\ now[k] = b
    BY <1>3, <1>9 DEF Follows
  <2>2. j + o \in 1..n /\ a = s[j + o]
    BY <1>1, <1>4, <1>5, <2>1
  <2>3. CASE k = n + 1 - o
    BY <1>5, <1>6, <2>1, <2>2, <2>3
  <2>4. CASE k # n + 1 - o
    <3>1. k + o \in 1..n /\ b = s[k + o] /\ j + o < k + o
      BY <1>1, <1>4, <1>5, <2>1, <2>4
    <3> QED BY <1>6, <2>2, <3>1 DEF Follows, n
  <2> QED BY <2>3, <2>4
<1>10. ASSUME NEW a \in ToSet(s) \ ToSet(now)
       PROVE  /\ Len(now) = MaxCache
              /\ \A b \in ToSet(now) : b = p \/ Follows(s, a, b)
  <2>1. PICK i \in 1..n : s[i] = a
    BY <1>1
  <2>2. i = o
    <3>1. ASSUME i - o \in 1..n - o
          PROVE  FALSE
      <4>1. i - o \in 1..n + 1 - o /\ i - o # n + 1 - o /\ i - o + o = i
        BY <3>1, <1>1, <1>4
      <4>2. now[i - o] = s[i]
        BY <4>1, <1>5
      <4> QED BY <4>1, <4>2, <1>4, <2>1
    <3> QED BY <3>1, <1>1, <1>4, <2>1
  <2>3. o = 1 /\ n = MaxCache /\ i = 1
    BY <1>4, <2>1, <2>2
  <2>4. ASSUME NEW b \in ToSet(now)
        PROVE  b = p \/ Follows(s, a, b)
    <3>1. PICK j \in 1..n : now[j] = b
      BY <1>1, <1>4, <2>3
    <3>2. j = n \/ (j + 1 \in 1..n /\ b = s[j + 1] /\ i < j + 1)
      BY <1>1, <1>5, <2>3, <3>1
    <3> QED BY <1>1, <1>5, <2>1, <2>3, <3>1, <3>2 DEF Follows, n
  <2> QED BY <1>1, <1>3, <2>3, <2>4
<1> QED BY <1>3, <1>4, <1>7, <1>8, <1>9, <1>10 DEF now, x

---------------------------------------------------------------------------
(* What the threads hold *)

\* A thread with a connection has a task, whose project the connection is for.
HolderHasJob == \A t \in Threads : held[t] # NoHandle => task[t] \in Jobs

\* What is open has been initialized, and what is initialized is on disk.
OpenIsInitialized ==
    /\ \A p \in Cached : p \in initialized
    /\ \A t \in Threads : held[t] # NoHandle => task[t].project \in initialized
    /\ \A p \in initialized : schema[p] = Statements

\* A thread's connection is the cached one, and the projects that have come
\* after its own in the cache were opened since it got it; or so many were
\* that its project may have left.
Current(t) ==
    /\ held[t] = conn[task[t].project]
    /\ \A p \in Projects : Follows(cache, task[t].project, p) => p \in others[t]

FollowersWereOpened ==
    \A t \in Threads :
        /\ IsFiniteSet(others[t])
        /\ held[t] # NoHandle => Current(t) \/ Cardinality(others[t]) >= MaxCache

KuzuInv == CacheTypeOK /\ HolderHasJob /\ OpenIsInitialized /\ FollowersWereOpened

LEMMA KuzuInitially == CacheInit => KuzuInv
<1> SUFFICES ASSUME CacheInit PROVE KuzuInv
  OBVIOUS
<1>1. cache \in Seq(Projects) /\ Len(cache) = 0 /\ Cached = {}
  <2>1. cache \in Seq(Projects) /\ Len(cache) = 0
    BY EmptySeq DEF CacheInit
  <2>2. Cached = {cache[i] : i \in 1..0}
    BY <2>1, Members DEF Cached
  <2> QED BY <2>1, <2>2
<1>2. CacheTypeOK
  <2>1. schema \in [Projects -> 0..Statements]
    <3>1. {0, Statements} \subseteq 0..Statements
      BY KuzuAssumption
    <3> QED BY <3>1 DEF CacheInit
  <2>2. Len(cache) <= MaxCache /\ errors \in 0..MaxErrors
    BY <1>1, KuzuAssumption DEF CacheInit
  <2>3. \A i, j \in 1..Len(cache) : cache[i] = cache[j] => i = j
    BY <1>1
  <2> QED BY <1>1, <2>1, <2>2, <2>3 DEF CacheInit, CacheTypeOK
<1>3. FollowersWereOpened
  BY FS_EmptySet DEF CacheInit, FollowersWereOpened
<1> QED BY <1>1, <1>2, <1>3 DEF CacheInit, KuzuInv, HolderHasJob, OpenIsInitialized

\* open_project_kuzu gives thread t a connection for p: what the cache, the
\* connections and the schema are then, whether p was cached or not.
LEMMA Opened ==
    ASSUME KuzuInv, NEW t \in Threads, NEW p \in Projects, Hit(t, p) \/ Miss(t, p)
    PROVE  /\ cache' \in Seq(Projects) /\ Len(cache') <= MaxCache /\ Distinct(cache')
           /\ conn' \in [Projects -> Handles \union {NoHandle}]
           /\ \A q \in Projects : conn'[q] # NoHandle <=> q \in Cached'
           /\ p \in Cached' /\ Cached' \subseteq Cached \union {p}
           /\ Got(t, p, conn'[p])
           /\ \A q \in Cached \intersect Cached' : conn'[q] = conn[q]
           /\ \A a, b : Follows(cache', a, b) => b = p \/ Follows(cache, a, b)
           /\ \A b : ~Follows(cache', p, b)
           /\ \A a \in Cached \ Cached' :
                 /\ Len(cache') = MaxCache
                 /\ \A b \in Cached' : b = p \/ Follows(cache, a, b)
           /\ initialized' = initialized \union {p}
           /\ schema' = [schema EXCEPT ![p] = Statements]
           /\ UNCHANGED errors
<1>1. /\ cache \in Seq(Projects) /\ Len(cache) <= MaxCache /\ Distinct(cache)
      /\ conn \in [Projects -> Handles \union {NoHandle}]
      /\ \A q \in Projects : conn[q] # NoHandle <=> q \in Cached
      /\ Cached \subseteq Projects
      /\ schema \in [Projects -> 0..Statements]
  BY Members DEF KuzuInv, CacheTypeOK, Distinct, Cached
<1>2. \A q \in initialized : schema[q] = Statements
  BY DEF KuzuInv, OpenIsInitialized
<1>3. CASE Hit(t, p)
  <2>1. p \in initialized
    BY <1>3 DEF Hit, KuzuInv, OpenIsInitialized
  <2>2. /\ cache' = MoveToEnd(cache, p) /\ p \in ToSet(cache)
        /\ UNCHANGED <<conn, initialized, schema, errors>> /\ Got(t, p, conn[p])
    BY <1>3 DEF Hit, Cached
  <2>3. /\ cache' \in Seq(Projects) /\ Len(cache') = Len(cache) /\ Distinct(cache')
        /\ Cached' = Cached
        /\ \A a, b : Follows(cache', a, b) => b = p \/ Follows(cache, a, b)
        /\ \A b : ~Follows(cache', p, b)
    BY <1>1, <2>2, MoveToEndOrder DEF Cached
  <2>4. schema' = [schema EXCEPT ![p] = Statements] /\ initialized' = initialized \union {p}
    BY <1>1, <1>2, <2>1, <2>2
  <2> QED BY <1>1, <2>2, <2>3, <2>4 DEF Cached
<1>4. CASE Miss(t, p)
  <2>1. PICK h \in Unused :
          /\ cache' = Trimmed(Append(cache, p))
          /\ conn' = [q \in Projects |-> CASE q = p -> h
                                           [] q # p /\ q \in Cached' -> conn[q]
                                           [] OTHER -> NoHandle]
          /\ Got(t, p, h)
    BY <1>4 DEF Miss, Cached
  <2>2. /\ p \notin ToSet(cache) /\ UNCHANGED errors
        /\ initialized' = initialized \union {p}
        /\ schema' = [schema EXCEPT ![p] = IF p \in initialized THEN @ ELSE Statements]
    BY <1>4 DEF Miss, Cached
  <2>3. /\ cache' \in Seq(Projects) /\ Len(cache') <= MaxCache /\ Distinct(cache')
        /\ p \in Cached' /\ Cached' \subseteq Cached \union {p}
        /\ \A a, b : Follows(cache', a, b) => b = p \/ Follows(cache, a, b)
        /\ \A b : ~Follows(cache', p, b)
        /\ \A a \in Cached \ Cached' :
              /\ Len(cache') = MaxCache
              /\ \A b \in Cached' : b = p \/ Follows(cache, a, b)
    BY <1>1, <2>1, <2>2, TrimmedOrder DEF Cached
  <2>4. h \in Handles /\ h # NoHandle
    BY KuzuAssumption DEF Unused
  <2>5. conn'[p] = h /\ \A q \in Projects \ {p} :
          conn'[q] = IF q \in Cached' THEN conn[q] ELSE NoHandle
    BY <2>1
  <2>6. schema' = [schema EXCEPT ![p] = Statements]
    BY <1>1, <1>2, <2>2
  <2>7. conn' \in [Projects -> Handles \union {NoHandle}]
    <3>1. \A q \in Projects : conn'[q] \in Handles \union {NoHandle}
      BY <1>1, <2>4, <2>5
    <3> QED BY <2>1, <3>1
  <2>8. \A q \in Projects : conn'[q] # NoHandle <=> q \in Cached'
    BY <1>1, <2>3, <2>4, <2>5
  <2>9. \A q \in Cached \intersect Cached' : conn'[q] = conn[q]
    BY <1>1, <2>2, <2>5 DEF Cached
  <2>10. Got(t, p, conn'[p])
    BY <2>1, <2>5
  <2> QED BY <2>2, <2>3, <2>6, <2>7, <2>8, <2>9, <2>10
<1> QED BY <1>3, <1>4

\* Then thread t is on p, and no other thread's connection has become an odd
\* one unless as many projects were opened as the cache has places.
LEMMA OpenedInv ==
    ASSUME KuzuInv, NEW t \in Threads, NEW p \in Projects, Hit(t, p) \/ Miss(t, p),
           UNCHANGED query, NEW j \in Jobs, j.project = p, task' = [task EXCEPT ![t] = j]
    PROVE  KuzuInv'
<1>1. /\ held' = [held EXCEPT ![t] = conn'[p]]
      /\ others' = [u \in Threads |-> IF u = t THEN {}
                      ELSE IF held[u] = NoHandle \/ task[u].project = p THEN others[u]
                      ELSE others[u] \union {p}]
  BY Opened DEF Got
<1>2. /\ conn'[p] \in Handles \union {NoHandle} /\ conn'[p] # NoHandle
      /\ held \in [Threads -> Handles \union {NoHandle}]
      /\ others \in [Threads -> SUBSET Projects]
      /\ task \in [Threads -> Jobs \union {Idle}]
  BY Opened DEF KuzuInv, CacheTypeOK
<1>3. CacheTypeOK'
  <2>1. schema' \in [Projects -> 0..Statements]
    <3>1. schema \in [Projects -> 0..Statements] /\ Statements \in 0..Statements
      BY KuzuAssumption DEF KuzuInv, CacheTypeOK
    <3> QED BY <3>1, Opened
  <2>2. initialized' \subseteq Projects /\ errors' \in 0..MaxErrors
    BY Opened DEF KuzuInv, CacheTypeOK
  <2>3. held' \in [Threads -> Handles \union {NoHandle}]
    BY <1>1, <1>2
  <2>4. others' \in [Threads -> SUBSET Projects]
    BY <1>1, <1>2
  <2>5. task' \in [Threads -> Jobs \union {Idle}] /\ query' \in Projects \union {NoProject}
    BY <1>2 DEF KuzuInv, CacheTypeOK
  <2>6. \A i, k \in 1..Len(cache') : cache'[i] = cache'[k] => i = k
    BY Opened DEF Distinct
  <2> QED BY <2>1, <2>2, <2>3, <2>4, <2>5, <2>6, Opened DEF CacheTypeOK
<1>4. HolderHasJob'
  BY <1>1, <1>2 DEF KuzuInv, HolderHasJob
<1>5. OpenIsInitialized'
  <2>1. /\ initialized' = initialized \union {p} /\ Cached' \subseteq Cached \union {p}
        /\ schema' = [schema EXCEPT ![p] = Statements]
    BY Opened
  <2>2. schema \in [Projects -> 0..Statements] /\ initialized \subseteq Projects
    BY DEF KuzuInv, CacheTypeOK
  <2>3. \A q \in initialized' : schema'[q] = Statements
    BY <2>1, <2>2 DEF KuzuInv, OpenIsInitialized
  <2>4. \A u \in Threads : held'[u] # NoHandle => task'[u].project \in initialized'
    BY <1>1, <1>2, <2>1 DEF KuzuInv, OpenIsInitialized
  <2> QED BY <2>1, <2>3, <2>4 DEF KuzuInv, OpenIsInitialized
<1>6. ASSUME NEW u \in Threads
      PROVE  IsFiniteSet(others'[u])
  <2>1. IsFiniteSet(others[u])
    BY DEF KuzuInv, FollowersWereOpened
  <2>2. IsFiniteSet({}) /\ IsFiniteSet(others[u] \union {p})
    BY <2>1, FS_EmptySet, FS_AddElement
  <2> QED BY <1>1, <2>1, <2>2
<1>7. ASSUME NEW u \in Threads, held'[u] # NoHandle
      PROVE  Current(u)' \/ Cardinality(others'[u]) >= MaxCache
  <2>1. CASE u = t
    <3>1. held'[u] = conn'[p] /\ task'[u].project = p
      BY <1>1, <1>2, <2>1
    <3> QED BY <3>1, Opened DEF Current
  <2>2. CASE u # t
    <3>1. /\ held'[u] = held[u] /\ task'[u] = task[u]
          /\ others[u] \subseteq others'[u]
          /\ task[u].project # p => p \in others'[u]
      BY <1>1, <1>2, <1>7, <2>2
    <3>2. task[u].project \in Projects
      BY <1>7, <3>1 DEF KuzuInv, HolderHasJob, Jobs
    <3>3. CASE Cardinality(others[u]) >= MaxCache
      <4>1. Cardinality(others[u]) <= Cardinality(others'[u])
        BY <1>6, <3>1, FS_Subset
      <4>2. Cardinality(others'[u]) \in Nat /\ Cardinality(others[u]) \in Nat
        BY <1>6, FS_CardinalityType DEF KuzuInv, FollowersWereOpened
      <4> QED BY <3>3, <4>1, <4>2, KuzuAssumption
    <3>4. CASE Current(u)
      <4>1. task[u].project \in Cached
        BY <1>7, <3>1, <3>2, <3>4 DEF Current, KuzuInv, CacheTypeOK
      <4>2. CASE task[u].project \in Cached'
        <5>1. conn'[task[u].project] = conn[task[u].project]
          BY <4>1, <4>2, Opened
        <5>2. \A b \in Projects : Follows(cache', task[u].project, b) => b \in others'[u]
          BY <3>1, <3>4, Opened DEF Current
        <5> QED BY <3>1, <3>4, <5>1, <5>2 DEF Current
      <4>3. CASE task[u].project \notin Cached'
        <5>1. p \in Cached' /\ Len(cache') = MaxCache
          BY <4>1, <4>3, Opened
        <5>2. Cached' \subseteq others'[u]
          <6>1. Cached' \subseteq Projects
            BY Opened, Members DEF Cached
          <6>2. \A b \in Cached' : b = p \/ Follows(cache, task[u].project, b)
            BY <4>1, <4>3, Opened
          <6>3. p # task[u].project
            BY <4>3, <5>1
          <6> QED BY <3>1, <3>4, <6>1, <6>2, <6>3 DEF Current
        <5>3. Cardinality(Cached') = MaxCache
          BY <5>1, Opened, DistinctCount DEF Cached
        <5>4. Cardinality(Cached') <= Cardinality(others'[u])
          BY <1>6, <5>2, FS_Subset
        <5>5. Cardinality(others'[u]) \in Nat
          BY <1>6, FS_CardinalityType
        <5> QED BY <5>3, <5>4, <5>5, KuzuAssumption
      <4> QED BY <4>2, <4>3
    <3> QED BY <1>7, <3>1, <3>3, <3>4 DEF KuzuInv, FollowersWereOpened
  <2> QED BY <2>1, <2>2
<1>8. FollowersWereOpened'
  BY <1>6, <1>7 DEF FollowersWereOpened
<1> QED BY <1>3, <1>4, <1>5, <1>8 DEF KuzuInv

\* An error leaves connections alone, and the schema of what is open.
LEMMA FailedInv ==
    ASSUME KuzuInv, NEW t \in Threads, NEW p \in Projects, Fails(t, p), UNCHANGED query,
           NEW j \in Jobs \union {Idle}, task' = [task EXCEPT ![t] = j],
           held[t] # NoHandle => j.project = task[t].project /\ j \in Jobs
    PROVE  KuzuInv'
<1>1. UNCHANGED <<cache, conn, initialized, held, others>>
  BY DEF Fails
<1>2. errors' \in 0..MaxErrors
  BY KuzuAssumption DEF Fails, KuzuInv, CacheTypeOK
<1>3. /\ schema' \in [Projects -> 0..Statements]
      /\ \A q \in initialized : schema'[q] = Statements
  <2>1. CASE UNCHANGED schema
    BY <2>1 DEF KuzuInv, CacheTypeOK, OpenIsInitialized
  <2>2. ASSUME NEW n \in 0..Statements - 1, SchemaUpTo(p, n)
        PROVE  /\ schema' \in [Projects -> 0..Statements]
               /\ \A q \in initialized : schema'[q] = Statements
    <3>1. n \in 0..Statements /\ schema \in [Projects -> 0..Statements]
      BY KuzuAssumption DEF KuzuInv, CacheTypeOK
    <3>2. \A q \in initialized : schema[q] = Statements
      BY DEF KuzuInv, OpenIsInitialized
    <3> QED BY <2>2, <3>1, <3>2 DEF SchemaUpTo
  <2> QED BY <2>1, <2>2 DEF Fails
<1>4. CacheTypeOK'
  BY <1>1, <1>2, <1>3 DEF KuzuInv, CacheTypeOK, Cached
<1>5. \A u \in Threads : held'[u] # NoHandle =>
         task'[u].project = task[u].project /\ task'[u] \in Jobs
  BY <1>1 DEF KuzuInv, CacheTypeOK, HolderHasJob
<1>6. HolderHasJob' /\ OpenIsInitialized'
  BY <1>1, <1>3, <1>5 DEF KuzuInv, HolderHasJob, OpenIsInitialized, Cached
<1>7. FollowersWereOpened'
  BY <1>1, <1>5 DEF KuzuInv, FollowersWereOpened, Current
<1> QED BY <1>4, <1>6, <1>7 DEF KuzuInv

LEMMA KuzuStep == KuzuInv /\ [CacheNext]_cacheVars => KuzuInv'
<1> SUFFICES ASSUME KuzuInv, [CacheNext]_cacheVars PROVE KuzuInv'
  OBVIOUS
<1>0. /\ task \in [Threads -> Jobs \union {Idle}]
      /\ \A t \in Threads : held[t] # NoHandle => task[t] \in Jobs
      /\ \A t \in Threads : task[t].kind # "idle" => task[t] \in Jobs
      /\ \A j \in Jobs : j # Idle
  BY DEF KuzuInv, CacheTypeOK, HolderHasJob, Idle, Jobs
<1>1. ASSUME NEW t \in Threads, Open(t) PROVE KuzuInv'
  <2>1. PICK p \in Projects, kind \in {"facet", "graph", "causal"} :
          \/ /\ Hit(t, p) \/ Miss(t, p)
             /\ task' = [task EXCEPT ![t] = [kind |-> kind, project |-> p]]
          \/ /\ Fails(t, p)
             /\ task' = [task EXCEPT ![t] = IF kind = "facet" THEN Idle
                                          ELSE [kind |-> kind, project |-> p]]
    BY <1>1 DEF Open
  <2>2. UNCHANGED query /\ held[t] = NoHandle
    BY <1>0, <1>1 DEF Open
  <2> DEFINE j == [kind |-> kind, project |-> p]
  <2>3. j \in Jobs /\ j.project = p
    BY DEF Jobs
  <2>4. CASE Fails(t, p)
    <3>1. PICK k \in Jobs \union {Idle} : task' = [task EXCEPT ![t] = k]
      BY <2>1, <2>3, <2>4
    <3> QED BY <2>2, <2>4, <3>1, FailedInv
  <2>5. CASE Hit(t, p) \/ Miss(t, p)
    BY <2>1, <2>2, <2>3, <2>4, <2>5, OpenedInv
  <2> QED BY <2>1, <2>4, <2>5
<1>2. ASSUME NEW t \in Threads, OpenAgain(t) PROVE KuzuInv'
  <2> DEFINE p == task[t].project
             j == [kind |-> "causal", project |-> p]
  <2>1. task[t] \in Jobs /\ UNCHANGED query
    BY <1>0, <1>2 DEF OpenAgain
  <2>2. p \in Projects /\ j \in Jobs /\ j.project = p
    BY <2>1 DEF Jobs
  <2>3. task' = [task EXCEPT ![t] = j]
    <3>1. [task[t] EXCEPT !.kind = "causal"] = j
      BY <2>1 DEF Jobs
    <3> QED BY <1>2, <3>1 DEF OpenAgain
  <2>4. Hit(t, p) \/ Miss(t, p) \/ Fails(t, p)
    BY <1>2 DEF OpenAgain
  <2> HIDE DEF p, j
  <2>5. CASE Hit(t, p) \/ Miss(t, p)
    BY <2>1, <2>2, <2>3, <2>5, OpenedInv
  <2>6. CASE Fails(t, p)
    BY <2>1, <2>2, <2>3, <2>6, FailedInv DEF p
  <2> QED BY <2>4, <2>5, <2>6
<1>3. ASSUME NEW t \in Threads, Return(t) PROVE KuzuInv'
  <2>1. CacheTypeOK'
    BY <1>3 DEF Return, KuzuInv, CacheTypeOK, Cached
  <2>2. \A u \in Threads : held'[u] # NoHandle =>
           held'[u] = held[u] /\ task'[u] = task[u] /\ others'[u] = others[u]
    BY <1>3 DEF Return, KuzuInv, CacheTypeOK
  <2>3. \A u \in Threads : IsFiniteSet(others'[u])
    <3>1. \A u \in Threads : others'[u] = others[u] \/ others'[u] = {}
      BY <1>3 DEF Return, KuzuInv, CacheTypeOK
    <3> QED BY <3>1, FS_EmptySet DEF KuzuInv, FollowersWereOpened
  <2>4. HolderHasJob' /\ OpenIsInitialized'
    BY <1>3, <2>2 DEF Return, KuzuInv, HolderHasJob, OpenIsInitialized, Cached
  <2>5. FollowersWereOpened'
    BY <1>3, <2>2, <2>3 DEF Return, KuzuInv, FollowersWereOpened, Current
  <2> QED BY <2>1, <2>4, <2>5 DEF KuzuInv
<1>4. ASSUME \/ \E p \in Projects : QueryOpens(p)
             \/ QueryExits
             \/ UNCHANGED cacheVars
      PROVE  KuzuInv'
  <2>1. /\ UNCHANGED <<cache, conn, initialized, schema, task, held, others, errors>>
        /\ query' \in Projects \union {NoProject}
    BY <1>4 DEF QueryOpens, QueryExits, cacheVars, KuzuInv, CacheTypeOK
  <2> QED
    BY <2>1
       DEF KuzuInv, CacheTypeOK, HolderHasJob, OpenIsInitialized, FollowersWereOpened,
           Current, Cached
<1> QED BY <1>1, <1>2, <1>3, <1>4 DEF CacheNext

LEMMA KuzuAlways == CacheSpec => []KuzuInv
BY KuzuInitially, KuzuStep, PTL DEF CacheSpec

\* The cache holds no project twice and never more than _MAX_CACHE, and has a
\* connection for each of them, among the types of all the variables.
THEOREM CacheTypeCorrect == CacheSpec => []CacheTypeOK
<1>1. KuzuInv => CacheTypeOK
  BY DEF KuzuInv
<1> QED BY <1>1, KuzuAlways, PTL

\* Nobody is given a graph with tables missing, whatever statements of the
\* schema have failed before (_init_schema).
THEOREM SchemaIsThere == CacheSpec => []SchemaBeforeUse
<1>1. ASSUME KuzuInv, NEW p \in Projects, OpenFor(p) # {}
      PROVE  schema[p] = Statements
  <2>1. \/ conn[p] # NoHandle
        \/ \E t \in Threads : task[t].project = p /\ held[t] # NoHandle
    BY <1>1 DEF OpenFor, HeldFor
  <2>2. p \in initialized
    BY <1>1, <2>1 DEF KuzuInv, CacheTypeOK, OpenIsInitialized
  <2> QED BY <1>1, <2>2 DEF KuzuInv, OpenIsInitialized
<1>2. KuzuInv => SchemaBeforeUse
  BY <1>1 DEF SchemaBeforeUse
<1> QED BY <1>2, KuzuAlways, PTL

\* A project's connection is shared by all who use it unless as many other
\* projects as the cache has places were opened in the meantime.
THEOREM UsersShare == CacheSpec => []HeldIsCached
<1>1. KuzuInv => HeldIsCached
  BY DEF KuzuInv, FollowersWereOpened, Current, HeldIsCached
<1> QED BY <1>1, KuzuAlways, PTL
=============================================================================

---------------------------- MODULE DecayProofs ----------------------------
(***************************************************************************)
(* Proofs about Decay for any number of projects and episodes, any clock   *)
(* and half-lives, and any number of errors, inserted vectors and purges.  *)
(***************************************************************************)
EXTENDS Decay, SequenceTheorems, TLAPS

---------------------------------------------------------------------------
(* Types *)

LEMMA ConstantTypes ==
    /\ Type \in [Episodes -> Types] /\ Home \in [Episodes -> Projects]
    /\ Ts \in [Episodes -> Nat] /\ Tools \in [Episodes -> Nat] /\ Hits \in [Episodes -> Nat]
    /\ Fade \in [Types -> [0..MaxTime -> 0..1000]]
    /\ MaxTime \in Nat /\ MaxFaults \in Nat /\ MaxWrites \in Nat
BY DecayAssumption

LEMMA Applied == ASSUME NEW S, NEW T, NEW f \in [S -> T], NEW x \in S PROVE f[x] \in T
OBVIOUS

\* What the curve of a type leaves of a memory at an age.
LEMMA FadeType ==
    ASSUME NEW m \in Types, NEW age \in 0..MaxTime
    PROVE  Fade[m][age] \in 0..1000
<1> DEFINE Ages == 0..MaxTime
           Values == 0..1000
<1>1. Fade \in [Types -> [Ages -> Values]] /\ age \in Ages
  BY ConstantTypes
<1> HIDE DEF Ages, Values
<1>2. Fade[m] \in [Ages -> Values]
  BY <1>1
<1>3. Fade[m][age] \in Values
  BY <1>1, <1>2, Applied
<1> QED BY <1>3 DEF Values

LEMMA BaseType == \A m \in Types : Base(m) \in {500, 600, 700, 950, 1000}
BY DEF Types, Base

LEMMA BaseImportanceType ==
    ASSUME NEW e \in Episodes
    PROVE  _base_importance(e) \in 0..1000
<1>1. Base(Type[e]) \in 500..1000 /\ Tools[e] \in Nat
  BY BaseType, ConstantTypes
<1>2. Base(Type[e]) + 50 * Tools[e] \in Nat
  BY <1>1
<1>3. \A n \in Nat : Smaller(1000, n) \in 0..1000
  BY DEF Smaller
<1> QED BY <1>2, <1>3 DEF _base_importance

\* What fades stays between nothing and what is told apart from no row.
LEMMA NewImportanceType ==
    ASSUME NEW e \in Episodes, NEW t \in 0..MaxTime
    PROVE  NewImportance(e, t) \in 0..1000
<1> DEFINE base == Base(Type[e])
           age == Larger(0, t - Ts[e])
           fade == Fade[Type[e]][age]
<1>1. Type[e] \in Types /\ Ts[e] \in Nat /\ Hits[e] \in Nat
  BY ConstantTypes
<1>2. base \in {500, 600, 700, 950, 1000}
  BY <1>1, BaseType
<1>3. age \in 0..MaxTime
  BY <1>1, ConstantTypes DEF Larger
<1> HIDE DEF base, age
<1>4. fade \in 0..1000
  BY <1>1, <1>3, FadeType
<1> HIDE DEF fade
<1>5. base * fade \in Nat
  BY <1>2, <1>4
<1>6. (base * fade) \div 1000 \in Nat
  BY <1>5
<1>7. Smaller(50 * Hits[e], 500) \in Nat
  BY <1>1 DEF Smaller
<1>8. \A a, b \in Nat : Smaller(1000, a + b) \in 0..1000
  BY DEF Smaller
<1>9. NewImportance(e, t) = Smaller(1000, (base * fade) \div 1000 + Smaller(50 * Hits[e], 500))
  BY DEF NewImportance, base, age, fade
<1> QED BY <1>6, <1>7, <1>8, <1>9

\* What is left of a tick.
Rest(i) == SubSeq(Order, i, Len(Order))

LEMMA RestTail ==
    ASSUME NEW i \in 1..Len(Order) + 1, Rest(i) # <<>>
    PROVE  /\ Head(Rest(i)) \in Projects
           /\ \E j \in 1..Len(Order) + 1 : Tail(Rest(i)) = Rest(j)
<1>1. Order \in Seq(Projects) /\ Len(Order) \in Nat
  BY DecayAssumption, LenProperties
<1>2. i # Len(Order) + 1
  BY <1>1, SubSeqEmpty DEF Rest
<1>3. /\ i \in 1..Len(Order) /\ Len(Order) \in i..Len(Order)
      /\ i + 1 \in 1..Len(Order) + 1
  BY <1>1, <1>2
<1>4. Head(Rest(i)) = Order[i] /\ Tail(Rest(i)) = Rest(i + 1)
  BY <1>1, <1>3, HeadTailOfSubSeq DEF Rest
<1>5. Order[i] \in Projects
  BY <1>1, <1>3, ElementOfSeq
<1> QED BY <1>3, <1>4, <1>5

LEMMA RestEnds ==
    /\ \E i \in 1..Len(Order) + 1 : Order = Rest(i)
    /\ \E i \in 1..Len(Order) + 1 : <<>> = Rest(i)
<1>1. Order \in Seq(Projects) /\ Len(Order) \in Nat
  BY DecayAssumption, LenProperties
<1>2. Rest(1) = Order
  BY <1>1, SubSeqFull DEF Rest
<1>3. Rest(Len(Order) + 1) = <<>>
  BY <1>1, SubSeqEmpty DEF Rest
<1> QED BY <1>1, <1>2, <1>3

LEMMA JobType == \A p \in Projects, s \in Steps :
    /\ [step |-> s, project |-> p] \in [step : Steps, project : Projects]
    /\ [step |-> s, project |-> p] # NoJob
BY DEF NoJob, Steps

\* The thread has a project while it has a statement.
LEMMA JobIsWhole ==
    ASSUME TypeOK, job.step \in Steps
    PROVE  /\ job.project \in Projects
           /\ \A s \in Steps : [job EXCEPT !.step = s] = [step |-> s, project |-> job.project]
           /\ task \in {"wait", "stopped"}
BY DEF TypeOK, ThreadOK, NoJob, Steps

LEMMA TypeInit == Init => TypeOK
<1> SUFFICES ASSUME Init PROVE TypeOK
  OBVIOUS
<1>1. TaskOK
  BY RestEnds DEF Init, TaskOK, Rest
<1>2. 0 \in 0..MaxTime /\ 0 \in 0..MaxFaults /\ 0 \in 0..MaxWrites
  BY ConstantTypes
<1>3. RowsOK
  BY DEF Init, RowsOK
<1>4. ThreadOK
  BY <1>2 DEF Init, ThreadOK
<1>5. CountersOK
  BY <1>2 DEF Init, CountersOK
<1> QED BY <1>1, <1>3, <1>4, <1>5 DEF TypeOK

\* Each part depends on its own variables.
LEMMA PartsKept ==
    ASSUME TypeOK
    PROVE  /\ UNCHANGED <<importance, pinned, worker, purging>> => RowsOK'
           /\ UNCHANGED <<task, left>> => TaskOK'
           /\ UNCHANGED <<job, read, updates, seen, pinned, fresh, task>> => ThreadOK'
           /\ UNCHANGED <<now, decayed, faults, writes>> => CountersOK'
<1>1. UNCHANGED <<importance, pinned, worker, purging>> => RowsOK'
  BY DEF TypeOK, RowsOK
<1>2. UNCHANGED <<task, left>> => TaskOK'
  BY DEF TypeOK, TaskOK
<1>3. UNCHANGED <<job, read, updates, seen, pinned, fresh, task>> => ThreadOK'
  BY DEF TypeOK, ThreadOK
<1>4. UNCHANGED <<now, decayed, faults, writes>> => CountersOK'
  BY DEF TypeOK, CountersOK
<1> QED BY <1>1, <1>2, <1>3, <1>4

LEMMA TypeStep == TypeOK /\ [Next]_vars => TypeOK'
<1> SUFFICES ASSUME TypeOK, [Next]_vars PROVE TypeOK'
  OBVIOUS
<1>a. RowsOK /\ TaskOK /\ ThreadOK /\ CountersOK
  BY DEF TypeOK
<1>b. MaxTime \in Nat /\ MaxFaults \in Nat /\ MaxWrites \in Nat
  BY ConstantTypes
<1>1. CASE Tick
  <2>1. TaskOK'
    BY <1>a, <1>1, RestEnds DEF Tick, TaskOK, Rest
  <2> QED BY <1>1, <2>1, PartsKept DEF Tick, TypeOK, rows, thread
<1>2. CASE Submit
  <2>1. PICK i \in 1..Len(Order) + 1 : left = Rest(i)
    BY <1>a DEF TaskOK, Rest
  <2>2. /\ Head(left) \in Projects
        /\ \E j \in 1..Len(Order) + 1 : left' = SubSeq(Order, j, Len(Order))
    BY <1>2, <2>1, RestTail DEF Submit, Rest
  <2>3. TaskOK'
    BY <1>a, <1>2, <2>2 DEF Submit, TaskOK
  <2>4. job' \in [step : Steps, project : Projects] /\ task' = "wait"
    BY <1>2, <2>2, JobType DEF Submit, Steps
  <2>5. ThreadOK'
    BY <1>a, <1>2, <2>4 DEF Submit, ThreadOK, rows
  <2> QED BY <1>2, <2>3, <2>5, PartsKept DEF Submit, TypeOK, rows
<1>3. CASE Wake
  <2>1. TaskOK' /\ ThreadOK'
    BY <1>a, <1>3 DEF Wake, TaskOK, ThreadOK, rows, thread
  <2> QED BY <1>3, <2>1, PartsKept DEF Wake, TypeOK, rows
<1>4. CASE Select
  <2>1. job' \in [step : Steps, project : Projects] /\ task \in {"wait", "stopped"}
    BY <1>4, JobIsWhole, JobType DEF Select, Steps
  <2>2. updates' \subseteq Episodes \ pinned /\ seen' \subseteq fresh
    BY <1>4 DEF Select, Rows
  <2>3. ThreadOK'
    BY <1>a, <1>4, <2>1, <2>2 DEF Select, ThreadOK, CountersOK, rows, scheduler
  <2> QED BY <1>4, <2>3, PartsKept DEF Select, TypeOK, rows, scheduler
<1>5. CASE Update
  <2>1. PICK e \in updates :
          /\ importance' = [importance EXCEPT ![e] = IF @ = NoRow THEN @ ELSE NewImportance(e, read)]
          /\ updates' = updates \ {e}
    BY <1>5 DEF Update
  <2>2. e \in Episodes /\ NewImportance(e, read) \in 0..1000
    BY <1>a, NewImportanceType DEF ThreadOK
  <2>3. RowsOK'
    BY <1>a, <1>5, <2>1, <2>2 DEF Update, RowsOK
  <2>4. ThreadOK'
    BY <1>a, <1>5, <2>1 DEF Update, ThreadOK, scheduler
  <2> QED BY <1>5, <2>3, <2>4, PartsKept DEF Update, TypeOK, scheduler
<1>6. CASE Decayed
  <2>1. /\ job' \in [step : Steps, project : Projects] /\ job.project \in Projects
        /\ task \in {"wait", "stopped"}
    BY <1>6, JobIsWhole, JobType DEF Decayed, Steps
  <2>2. ThreadOK'
    BY <1>a, <1>6, <2>1 DEF Decayed, ThreadOK, rows, scheduler
  <2>3. CountersOK'
    BY <1>a, <1>6, <2>1 DEF Decayed, CountersOK, ThreadOK
  <2> QED BY <1>6, <2>2, <2>3, PartsKept DEF Decayed, TypeOK, rows, scheduler
<1>7. CASE Pruned
  <2>1. TaskOK' /\ ThreadOK'
    BY <1>a, <1>7 DEF Pruned, TaskOK, ThreadOK, rows
  <2> QED BY <1>7, <2>1, PartsKept DEF Pruned, TypeOK, rows
<1>8. CASE Fails
  <2>1. TaskOK'
    BY <1>a, <1>8, RestEnds DEF Fails, Failing, TaskOK, Rest
  <2>2. ThreadOK'
    BY <1>a, <1>8 DEF Fails, Failing, ThreadOK, rows
  <2>3. CountersOK'
    BY <1>a, <1>b, <1>8 DEF Fails, Failing, CountersOK
  <2> QED BY <1>8, <2>1, <2>2, <2>3, PartsKept DEF Fails, Failing, TypeOK, rows
<1>9. ASSUME NEW e \in Episodes, DeleteVec(e) PROVE TypeOK'
  <2>1. RowsOK' /\ CountersOK'
    BY <1>a, <1>b, <1>9 DEF DeleteVec, RowsOK, CountersOK
  <2> QED BY <1>9, <2>1, PartsKept DEF DeleteVec, TypeOK, scheduler, thread
<1>10. CASE InsertVec
  <2>1. worker \in Episodes /\ _base_importance(worker) \in 0..1000
    BY <1>a, <1>10, BaseImportanceType DEF InsertVec, RowsOK
  <2>2. RowsOK'
    BY <1>a, <1>10, <2>1 DEF InsertVec, RowsOK
  <2>3. ThreadOK'
    BY <1>a, <1>10, <2>1 DEF InsertVec, ThreadOK, scheduler
  <2> QED BY <1>10, <2>2, <2>3, PartsKept DEF InsertVec, TypeOK, scheduler
<1>11. ASSUME NEW p \in Projects, PurgeEpisodes(p) PROVE TypeOK'
  <2>1. RowsOK'
    BY <1>a, <1>11 DEF PurgeEpisodes, RowsOK
  <2>2. ThreadOK'
    BY <1>a, <1>11 DEF PurgeEpisodes, ThreadOK, scheduler, thread
  <2>3. CountersOK'
    BY <1>a, <1>b, <1>11 DEF PurgeEpisodes, CountersOK
  <2> QED BY <1>11, <2>1, <2>2, <2>3, PartsKept DEF PurgeEpisodes, TypeOK, scheduler
<1>12. CASE PurgeVecs
  <2>1. RowsOK'
    BY <1>a, <1>12 DEF PurgeVecs, RowsOK
  <2> QED BY <1>12, <2>1, PartsKept DEF PurgeVecs, TypeOK, scheduler, thread
<1>13. CASE Advance
  <2>1. CountersOK'
    BY <1>a, <1>b, <1>13 DEF Advance, CountersOK
  <2> QED BY <1>13, <2>1, PartsKept DEF Advance, TypeOK, scheduler, thread, rows
<1>14. CASE Stop
  <2>1. TaskOK'
    BY <1>14, RestEnds DEF Stop, TaskOK, Rest
  <2>2. ThreadOK'
    BY <1>a, <1>14 DEF Stop, ThreadOK, rows, thread
  <2> QED BY <1>14, <2>1, <2>2, PartsKept DEF Stop, TypeOK, rows
<1>15. CASE Exit
  <2>1. TaskOK'
    BY <1>15, RestEnds DEF Exit, TaskOK, Rest
  <2>2. RowsOK'
    BY <1>a, <1>15 DEF Exit, RowsOK, rows
  <2>3. ThreadOK'
    BY <1>a, <1>15 DEF Exit, ThreadOK, rows
  <2>4. CountersOK'
    BY <1>a, <1>b, <1>15 DEF Exit, CountersOK
  <2> QED BY <2>1, <2>2, <2>3, <2>4 DEF TypeOK
<1>16. CASE Start
  <2>1. TaskOK' /\ ThreadOK'
    BY <1>a, <1>16 DEF Start, TaskOK, ThreadOK, rows, thread
  <2> QED BY <1>16, <2>1, PartsKept DEF Start, TypeOK, rows
<1>17. CASE UNCHANGED vars
  BY <1>17, PartsKept DEF vars, TypeOK, rows, scheduler, thread
<1> QED
  BY <1>1, <1>2, <1>3, <1>4, <1>5, <1>6, <1>7, <1>8, <1>9, <1>10, <1>11, <1>12, <1>13,
     <1>14, <1>15, <1>16, <1>17 DEF Next, Task, Thread

\* At most one thread decays, for a scheduler that waits for it or was
\* stopped, and never a row that is pinned, among the types of all variables.
THEOREM TypeCorrect == Spec => []TypeOK
BY TypeInit, TypeStep, PTL DEF Spec

---------------------------------------------------------------------------
(* How old the importance of a vector can be *)

\* The vector of e is as it was inserted: it has not decayed since, or never
\* will, because e was pinned.
AsInserted(e, new) == importance[e] = _base_importance(e) /\ (e \in new \/ e \in Pinned)

\* A decay that read the clock at t or later, and not in the future, wrote it.
DecayedSince(e, t) ==
    /\ e \notin pinned
    /\ \E u \in t..now : importance[e] = NewImportance(e, u)

CurrentRow(e) == AsInserted(e, fresh) \/ DecayedSince(e, decayed[Home[e]])

\* The clock a thread read, or a decay that was finished, is not ahead.
ClockIsAhead ==
    /\ \A p \in Projects : decayed[p] <= now
    /\ job.step = "update" => read <= now /\ decayed[job.project] <= read

\* The rows of a running decay are those of its project, and so are the
\* insertions it will have made up for.
BatchIsHome ==
    job.step = "update" => \A e \in updates \union seen : Home[e] = job.project

\* A row of the project that is no longer to be written is as current as all
\* will be when the batch is through.
BatchIsCurrent ==
    job.step = "update" =>
        \A e \in Rows(job.project) \ updates :
            AsInserted(e, fresh \ seen) \/ DecayedSince(e, read)

DecayInv == ImportanceIsCurrent /\ ClockIsAhead /\ BatchIsHome /\ BatchIsCurrent

RowsAreCurrent == \A e \in Episodes : importance[e] # NoRow => CurrentRow(e)

LEMMA CurrentRows == (ImportanceIsCurrent <=> RowsAreCurrent)
                     /\ (ImportanceIsCurrent' <=> RowsAreCurrent')
BY DEF ImportanceIsCurrent, RowsAreCurrent, CurrentRow, AsInserted, DecayedSince

LEMMA DecayInit == Init => DecayInv
<1> SUFFICES ASSUME Init PROVE DecayInv
  OBVIOUS
<1>1. job.step # "update"
  BY DEF Init, NoJob
<1> QED
  BY <1>1 DEF Init, DecayInv, ImportanceIsCurrent, ClockIsAhead, BatchIsHome, BatchIsCurrent

\* Steps that neither write vectors nor decay: rows may lose their vector or
\* their pin, the clock may go on, a batch may be given up.
LEMMA DecayKept ==
    ASSUME TypeOK, TypeOK', DecayInv,
           \A e \in Episodes : importance'[e] \in {importance[e], NoRow},
           pinned' \subseteq pinned, UNCHANGED <<decayed, fresh>>, now <= now',
           \/ UNCHANGED <<job, read, updates, seen>>
           \/ job'.step # "update"
    PROVE  DecayInv'
<1>1. /\ now \in Nat /\ now' \in Nat /\ read \in Nat
      /\ \A p \in Projects : decayed[p] \in Nat
      /\ Home \in [Episodes -> Projects] /\ MaxTime \in Nat
  BY ConstantTypes DEF TypeOK, ThreadOK, CountersOK
<1>2. ASSUME NEW e \in Episodes, importance'[e] # NoRow
      PROVE  /\ importance[e] # NoRow
             /\ \A new : AsInserted(e, new) => AsInserted(e, new)'
             /\ \A t \in Nat : DecayedSince(e, t) => DecayedSince(e, t)'
  <2>1. importance'[e] = importance[e]
    BY <1>2
  <2>2. \A t \in Nat : t..now \subseteq t..now'
    BY <1>1
  <2> QED BY <1>2, <2>1, <2>2 DEF AsInserted, DecayedSince
<1>3. ImportanceIsCurrent'
  <2>1. RowsAreCurrent'
    BY <1>1, <1>2, CurrentRows DEF DecayInv, RowsAreCurrent, CurrentRow
  <2> QED BY <2>1, CurrentRows
<1>4. ClockIsAhead'
  BY <1>1 DEF DecayInv, ClockIsAhead
<1>5. BatchIsHome'
  BY DEF DecayInv, BatchIsHome
<1>6. BatchIsCurrent'
  BY <1>1, <1>2 DEF DecayInv, BatchIsCurrent, Rows
<1> QED BY <1>3, <1>4, <1>5, <1>6 DEF DecayInv

LEMMA DecayStep == TypeOK /\ TypeOK' /\ DecayInv /\ [Next]_vars => DecayInv'
<1> SUFFICES ASSUME TypeOK, TypeOK', DecayInv, [Next]_vars PROVE DecayInv'
  OBVIOUS
<1>0. /\ now \in Nat /\ now' \in Nat /\ read \in Nat
      /\ \A p \in Projects : decayed[p] \in Nat
      /\ Home \in [Episodes -> Projects] /\ MaxTime \in Nat
      /\ importance \in [Episodes -> 0..1000 \union {NoRow}]
      /\ decayed \in [Projects -> 0..MaxTime]
      /\ pinned \subseteq Pinned /\ updates \subseteq Episodes \ pinned
      /\ seen \subseteq fresh /\ fresh \subseteq Episodes
  <2>1. MaxTime \in Nat /\ Home \in [Episodes -> Projects]
    BY ConstantTypes
  <2>2. now \in Nat /\ now' \in Nat /\ decayed \in [Projects -> 0..MaxTime]
    BY <2>1 DEF TypeOK, CountersOK
  <2>3. \A p \in Projects : decayed[p] \in Nat
    BY <2>1, <2>2
  <2> QED BY <2>1, <2>2, <2>3 DEF TypeOK, RowsOK, ThreadOK
<1>1. CASE Tick \/ Wake \/ Start
  BY <1>0, <1>1, DecayKept DEF Tick, Wake, Start, rows, thread
<1>2. CASE Submit
  <2>1. job'.step # "update"
    BY <1>2 DEF Submit
  <2> QED BY <1>0, <1>2, <2>1, DecayKept DEF Submit, rows
<1>3. CASE Select
  <2>1. /\ job.project \in Projects
        /\ job' = [step |-> "update", project |-> job.project]
    BY <1>3, JobIsWhole DEF Select, Steps
  <2>2. /\ read' = now /\ updates' = Rows(job.project) \ pinned
        /\ seen' = fresh \cap Rows(job.project)
        /\ UNCHANGED <<importance, pinned, now, decayed, fresh>>
    BY <1>3 DEF Select, rows
  <2>3. ImportanceIsCurrent'
    BY <2>2 DEF DecayInv, ImportanceIsCurrent
  <2>4. ClockIsAhead'
    BY <1>0, <2>1, <2>2 DEF DecayInv, ClockIsAhead
  <2>5. BatchIsHome'
    BY <2>1, <2>2 DEF BatchIsHome, Rows
  <2>6. ASSUME NEW e \in Rows(job.project), e \in pinned
        PROVE  AsInserted(e, fresh \ seen)'
    <3>1. CurrentRow(e) /\ e \in Pinned
      BY <1>0, <2>6, CurrentRows DEF DecayInv, RowsAreCurrent, Rows
    <3>2. AsInserted(e, fresh)
      BY <2>6, <3>1 DEF CurrentRow, DecayedSince
    <3> QED BY <2>2, <3>1, <3>2 DEF AsInserted
  <2>7. BatchIsCurrent'
    BY <2>1, <2>2, <2>6 DEF BatchIsCurrent, Rows
  <2> QED BY <2>3, <2>4, <2>5, <2>7 DEF DecayInv
<1>4. CASE Update
  <2>1. PICK e \in updates :
          /\ importance' = [importance EXCEPT ![e] = IF @ = NoRow THEN @ ELSE NewImportance(e, read)]
          /\ updates' = updates \ {e}
    BY <1>4 DEF Update
  <2>2. /\ job.step = "update"
        /\ UNCHANGED <<pinned, job, read, seen, now, decayed, fresh>>
    BY <1>4 DEF Update
  <2>3. e \in Episodes /\ e \notin pinned /\ Home[e] = job.project
    BY <1>0, <2>1, <2>2 DEF DecayInv, BatchIsHome
  <2>4. \A d \in Episodes \ {e} : importance'[d] = importance[d]
    BY <1>0, <2>1
  <2>5. importance'[e] # NoRow => importance'[e] = NewImportance(e, read)
    BY <1>0, <2>1, <2>3
  <2>6. importance'[e] # NoRow =>
          \A t \in Nat : t <= read => DecayedSince(e, t)'
    <3>1. \A t \in Nat : t <= read => read \in t..now
      BY <1>0, <2>2 DEF DecayInv, ClockIsAhead
    <3> QED BY <2>2, <2>3, <2>5, <3>1 DEF DecayedSince
  <2>7. decayed[job.project] <= read /\ job.project \in Projects
    BY <1>0, <2>2, <2>3 DEF DecayInv, ClockIsAhead
  <2>8. ImportanceIsCurrent'
    <3>1. \A d \in Episodes : importance'[d] # NoRow => CurrentRow(d)'
      BY <1>0, <2>2, <2>3, <2>4, <2>6, <2>7, CurrentRows
         DEF DecayInv, RowsAreCurrent, CurrentRow, AsInserted, DecayedSince
    <3> QED BY <3>1, CurrentRows DEF RowsAreCurrent
  <2>9. BatchIsCurrent'
    <3>1. ASSUME NEW d \in Rows(job.project)', d \notin updates'
          PROVE  AsInserted(d, fresh \ seen)' \/ DecayedSince(d, read)'
      <4>1. CASE d = e
        BY <1>0, <2>2, <2>6, <3>1, <4>1 DEF Rows
      <4>2. CASE d # e
        <5>1. d \in Rows(job.project) \ updates
          BY <2>1, <2>2, <2>4, <3>1, <4>2 DEF Rows
        <5> QED
          BY <2>2, <2>4, <4>2, <5>1
             DEF DecayInv, BatchIsCurrent, AsInserted, DecayedSince, Rows
      <4> QED BY <4>1, <4>2
    <3> QED BY <2>2, <3>1 DEF BatchIsCurrent, Rows
  <2>10. ClockIsAhead' /\ BatchIsHome'
    BY <2>1, <2>2 DEF DecayInv, ClockIsAhead, BatchIsHome
  <2> QED BY <2>8, <2>9, <2>10 DEF DecayInv
<1>5. CASE Decayed
  <2>1. /\ job.step = "update" /\ updates = {} /\ job.project \in Projects
        /\ job'.step # "update"
    BY <1>5, JobIsWhole DEF Decayed, Steps
  <2>2. /\ decayed' = [decayed EXCEPT ![job.project] = read]
        /\ fresh' = fresh \ seen
        /\ UNCHANGED <<importance, pinned, now>>
    BY <1>5 DEF Decayed, rows
  <2>3. ASSUME NEW e \in Episodes, importance[e] # NoRow
        PROVE  CurrentRow(e)'
    <3>1. CASE Home[e] = job.project
      <4>1. AsInserted(e, fresh \ seen) \/ DecayedSince(e, read)
        BY <2>1, <2>3, <3>1 DEF DecayInv, BatchIsCurrent, Rows
      <4>2. decayed'[Home[e]] = read
        BY <1>0, <2>1, <2>2, <3>1
      <4> QED BY <2>2, <4>1, <4>2 DEF CurrentRow, AsInserted, DecayedSince
    <3>2. CASE Home[e] # job.project
      <4>1. e \notin seen
        BY <2>1, <3>2 DEF DecayInv, BatchIsHome
      <4>2. decayed'[Home[e]] = decayed[Home[e]]
        BY <1>0, <2>1, <2>2, <3>2
      <4>3. CurrentRow(e)
        BY <2>3, CurrentRows DEF DecayInv, RowsAreCurrent
      <4> QED BY <2>2, <4>1, <4>2, <4>3 DEF CurrentRow, AsInserted, DecayedSince
    <3> QED BY <3>1, <3>2
  <2>4. ImportanceIsCurrent'
    BY <2>2, <2>3, CurrentRows DEF RowsAreCurrent
  <2>5. ClockIsAhead'
    BY <1>0, <2>1, <2>2 DEF DecayInv, ClockIsAhead
  <2> QED BY <2>1, <2>4, <2>5 DEF DecayInv, BatchIsHome, BatchIsCurrent
<1>6. CASE Pruned \/ Fails \/ Exit
  <2>1. job'.step # "update"
    BY <1>6 DEF Pruned, Fails, Failing, Exit, NoJob
  <2> QED BY <1>0, <1>6, <2>1, DecayKept DEF Pruned, Fails, Failing, Exit, rows
<1>7. ASSUME NEW e \in Episodes, DeleteVec(e) PROVE DecayInv'
  <2>1. \A d \in Episodes : importance'[d] \in {importance[d], NoRow}
    BY <1>0, <1>7 DEF DeleteVec
  <2> QED BY <1>0, <1>7, <2>1, DecayKept DEF DeleteVec, thread
<1>8. CASE InsertVec
  <2>1. PICK e \in Episodes : e = worker
    BY <1>8 DEF InsertVec, TypeOK, RowsOK
  <2>2. /\ importance' = [importance EXCEPT ![e] = _base_importance(e)]
        /\ fresh' = fresh \union {e} /\ seen' = seen \ {e}
        /\ UNCHANGED <<pinned, job, read, updates, now, decayed>>
    BY <1>8, <2>1 DEF InsertVec
  <2>3. \A d \in Episodes \ {e} : importance'[d] = importance[d]
    BY <1>0, <2>1, <2>2
  <2>4. AsInserted(e, fresh \ seen)' /\ AsInserted(e, fresh)'
    BY <1>0, <2>1, <2>2 DEF AsInserted
  <2>5. ImportanceIsCurrent'
    <3>1. \A d \in Episodes : importance'[d] # NoRow => CurrentRow(d)'
      BY <2>2, <2>3, <2>4, CurrentRows
         DEF DecayInv, RowsAreCurrent, CurrentRow, AsInserted, DecayedSince
    <3> QED BY <3>1, CurrentRows DEF RowsAreCurrent
  <2>6. BatchIsCurrent'
    BY <2>2, <2>3, <2>4 DEF DecayInv, BatchIsCurrent, AsInserted, DecayedSince, Rows
  <2>7. ClockIsAhead' /\ BatchIsHome'
    BY <2>2 DEF DecayInv, ClockIsAhead, BatchIsHome
  <2> QED BY <2>5, <2>6, <2>7 DEF DecayInv
<1>9. ASSUME NEW p \in Projects, PurgeEpisodes(p) PROVE DecayInv'
  BY <1>0, <1>9, DecayKept DEF PurgeEpisodes, thread
<1>10. CASE PurgeVecs
  <2>1. \A d \in Episodes : importance'[d] \in {importance[d], NoRow}
    BY <1>10 DEF PurgeVecs
  <2> QED BY <1>0, <1>10, <2>1, DecayKept DEF PurgeVecs, thread
<1>11. CASE Advance
  BY <1>0, <1>11, DecayKept DEF Advance, rows, thread
<1>12. CASE Stop
  BY <1>0, <1>12, DecayKept DEF Stop, rows, thread
<1>13. CASE UNCHANGED vars
  BY <1>0, <1>13, DecayKept DEF vars
<1> QED
  BY <1>1, <1>2, <1>3, <1>4, <1>5, <1>6, <1>7, <1>8, <1>9, <1>10, <1>11, <1>12, <1>13
     DEF Next, Task, Thread

\* However the row by row writing of a decay meets the facet worker, purges,
\* errors and restarts, no importance is older than the last decay of its
\* project that was finished, and no pinned one fades.
THEOREM DecayKeepsUp == Spec => []ImportanceIsCurrent
<1>1. DecayInv => ImportanceIsCurrent
  BY DEF DecayInv
<1> QED BY <1>1, TypeInit, TypeStep, DecayInit, DecayStep, PTL DEF Spec
=============================================================================

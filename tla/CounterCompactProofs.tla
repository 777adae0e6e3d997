------------------------ MODULE CounterCompactProofs ------------------------
(***************************************************************************)
(* Proofs about CounterCompact for any sessions, turns, window, TTL and    *)
(* max_rescue, and any bounds.                                             *)
(***************************************************************************)
EXTENDS CounterCompact, FiniteSetTheorems, TLAPS

---------------------------------------------------------------------------
(* Types *)

LEMMA Bounds ==
    /\ Never \notin Int
    /\ Window \in Nat /\ TTL \in Nat /\ TTL >= Window
    /\ MaxRescue \in Nat \ {0}
    /\ MaxLen \in Nat \ {0} /\ MaxTime \in Nat
BY CompactAssumption

\* A payload is a sequence of turns, and not too long a one.
LEMMA PayloadTypes ==
    ASSUME NEW payload \in Payloads
    PROVE  /\ payload \in Seq(Turns)
           /\ Len(payload) \in 0..MaxLen
           /\ DOMAIN payload = 1..Len(payload)
           /\ Elements(payload) \subseteq Turns
<1>1. PICK n \in 0..MaxLen : payload \in [1..n -> Turns]
  BY DEF Payloads
<1>2. n \in Nat
  BY Bounds
<1>3. payload \in Seq(Turns) /\ Len(payload) = n
  BY <1>1, <1>2
<1> QED BY <1>1, <1>3 DEF Elements

LEMMA NoPayload == <<>> \in Payloads
<1>1. 0 \in 0..MaxLen /\ <<>> \in [1..0 -> Turns]
  BY Bounds
<1> QED BY <1>1 DEF Payloads

LEMMA InitialTypes == Init => TypeOK
<1> SUFFICES ASSUME Init PROVE TypeOK
  OBVIOUS
<1>1. 0 \in Time /\ 0 \in 0..MaxLen
  BY Bounds DEF Time
<1>2. TablesOK
  BY <1>1 DEF Init, TablesOK
<1>3. RequestsOK
  BY <1>1, NoPayload DEF Init, RequestsOK, PCs
<1> QED BY <1>2, <1>3 DEF TypeOK

\* The turn a request is recording is one of the payload, and where it goes
\* from there is a step of the request.
LEMMA TurnTypes ==
    ASSUME RequestsOK, NEW s \in Sessions, pc[s] \in {"select", "insert", "update"}
    PROVE  /\ Turn(s) \in Turns
           /\ pos[s] \in 1..MaxLen
           /\ pos[s] # Len(msgs[s]) => pos[s] + 1 \in 0..MaxLen /\ pos[s] + 1 \in DOMAIN msgs[s]
<1>1. msgs[s] \in Payloads /\ pos[s] \in DOMAIN msgs[s]
  BY DEF RequestsOK
<1>2. /\ msgs[s] \in Seq(Turns) /\ Len(msgs[s]) \in 0..MaxLen
      /\ DOMAIN msgs[s] = 1..Len(msgs[s])
  BY <1>1, PayloadTypes
<1> QED BY <1>1, <1>2, Bounds DEF Turn

LEMMA NextMessageTypes ==
    ASSUME RequestsOK, NEW s \in Sessions, pc[s] \in {"select", "insert", "update"},
           NextMessage(s), UNCHANGED <<passive, msgs, missing, due>>
    PROVE  RequestsOK'
<1>1. CASE pos[s] = Len(msgs[s])
  <2>1. /\ pc' = [pc EXCEPT ![s] = AfterRecord(s)]
        /\ pos' = [pos EXCEPT ![s] = 0]
        /\ now' = [now EXCEPT ![s] = 0]
    BY <1>1 DEF NextMessage, GoTo
  <2>2. AfterRecord(s) \in {"forward", "archive"} /\ 0 \in Time /\ 0 \in 0..MaxLen
    BY Bounds DEF AfterRecord, Time
  <2> QED BY <2>1, <2>2 DEF RequestsOK, PCs
<1>2. CASE pos[s] # Len(msgs[s])
  <2>1. pos[s] + 1 \in 0..MaxLen /\ pos[s] + 1 \in DOMAIN msgs[s]
    BY <1>2, TurnTypes
  <2>2. /\ pc' = [pc EXCEPT ![s] = "select"]
        /\ pos' = [pos EXCEPT ![s] = pos[s] + 1]
        /\ now' = now
    BY <1>2 DEF NextMessage, GoTo
  <2> QED BY <2>1, <2>2 DEF RequestsOK, PCs
<1> QED BY <1>1, <1>2

LEMMA RaiseTypes ==
    ASSUME RequestsOK, NEW s \in Sessions, Raise(s), UNCHANGED passive
    PROVE  RequestsOK'
BY Bounds, NoPayload DEF RequestsOK, Raise, GoTo, PCs, Time

LEMMA TypesStep == TypeOK /\ [Next]_vars => TypeOK'
<1> SUFFICES ASSUME TypeOK, [Next]_vars PROVE TypeOK'
  OBVIOUS
<1> USE DEF TypeOK
<1>1. ASSUME NEW s \in Sessions, Arrive(s) PROVE TypeOK'
  BY <1>1 DEF Arrive, TablesOK, RequestsOK, GoTo, PCs
<1>2. ASSUME NEW s \in Sessions, Detect(s) PROVE TypeOK'
  <2>1. PICK first \in Limited({r \in seen : InWindow(r.last)}) :
          missing' = [missing EXCEPT ![s] = {r.turn : r \in first} \ Elements(msgs[s])]
    BY <1>2 DEF Detect, DetectWith
  <2>2. {r.turn : r \in first} \subseteq Turns
    BY DEF Limited, TablesOK, Row
  <2>3. DueNow(s) \subseteq Turns
    BY DEF DueNow
  <2> QED
    BY <1>2, <2>1, <2>2, <2>3 DEF Detect, DetectWith, TablesOK, RequestsOK, GoTo, PCs
<1>3. ASSUME NEW s \in Sessions, Begin(s) PROVE TypeOK'
  <2>1. TablesOK'
    BY <1>3 DEF Begin, TablesOK
  <2>2. CASE msgs[s] = <<>>
    <3>1. /\ pc' = [pc EXCEPT ![s] = AfterRecord(s)]
          /\ UNCHANGED <<passive, msgs, pos, now, missing, due>>
      BY <1>3, <2>2 DEF Begin, GoTo
    <3>2. AfterRecord(s) \in {"forward", "archive"}
      BY DEF AfterRecord
    <3> QED BY <2>1, <3>1, <3>2 DEF RequestsOK, PCs
  <2>3. CASE msgs[s] # <<>>
    <3>1. 1 \in DOMAIN msgs[s] /\ 1 \in 0..MaxLen
      <4>1. msgs[s] \in Payloads
        BY DEF RequestsOK
      <4>2. msgs[s] \in Seq(Turns) /\ DOMAIN msgs[s] = 1..Len(msgs[s])
        BY <4>1, PayloadTypes
      <4> QED BY <2>3, <4>2, Bounds
    <3>2. /\ pc' = [pc EXCEPT ![s] = "select"]
          /\ pos' = [pos EXCEPT ![s] = 1]
          /\ now' = [now EXCEPT ![s] = clock]
          /\ UNCHANGED <<passive, msgs, missing, due>>
      BY <1>3, <2>3 DEF Begin, GoTo
    <3> QED BY <2>1, <3>1, <3>2 DEF TablesOK, RequestsOK, PCs
  <2> QED BY <2>1, <2>2, <2>3
<1>4. ASSUME NEW s \in Sessions, Select(s) PROVE TypeOK'
  BY <1>4 DEF Select, TablesOK, RequestsOK, GoTo, PCs
<1>5. ASSUME NEW s \in Sessions, Insert(s) PROVE TypeOK'
  <2>1. Turn(s) \in Turns /\ pos[s] \in 1..MaxLen /\ now[s] \in Time
    BY <1>5, TurnTypes DEF Insert, RequestsOK
  <2>2. CASE RowsFor(Turn(s)) = {}
    <3>1. TablesOK'
      BY <1>5, <2>1, <2>2 DEF Insert, TablesOK, Row, Witness
    <3> QED BY <1>5, <2>2, <3>1, NextMessageTypes DEF Insert
  <2>3. CASE RowsFor(Turn(s)) # {}
    BY <1>5, <2>3, RaiseTypes DEF Insert, TablesOK, Raise
  <2> QED BY <2>2, <2>3
<1>6. ASSUME NEW s \in Sessions, Update(s) PROVE TypeOK'
  <2>1. Turn(s) \in Turns /\ now[s] \in Time
    BY <1>6, TurnTypes DEF Update, RequestsOK
  <2>2. TablesOK'
    BY <1>6, <2>1 DEF Update, TablesOK, Row, Witness
  <2> QED BY <1>6, <2>2, NextMessageTypes DEF Update
<1>7. ASSUME NEW s \in Sessions, ArchiveRescued(s) PROVE TypeOK'
  BY <1>7 DEF ArchiveRescued, TablesOK, RequestsOK, GoTo, PCs
<1>8. ASSUME NEW s \in Sessions, StatementError(s) PROVE TypeOK'
  BY <1>8, RaiseTypes DEF StatementError, TablesOK, Raise
<1>9. ASSUME NEW s \in Sessions, End(s) PROVE TypeOK'
  BY <1>9, Bounds, NoPayload DEF End, TablesOK, RequestsOK, GoTo, PCs, Time
<1>10. CASE Tick
  BY <1>10, Bounds DEF Tick, TablesOK, RequestsOK, request, Time
<1>11. CASE Prune
  BY <1>11 DEF Prune, TablesOK, RequestsOK, request
<1>12. CASE PurgeEpisodes \/ PurgeSeen
  BY <1>12 DEF PurgeEpisodes, PurgeSeen, Forget, TablesOK, RequestsOK
<1>13. CASE UNCHANGED vars
  BY <1>13 DEF vars, request, TablesOK, RequestsOK
<1> QED
  BY <1>1, <1>2, <1>3, <1>4, <1>5, <1>6, <1>7, <1>8, <1>9, <1>10, <1>11, <1>12, <1>13 DEF Next

\* Every row, payload and clock reading keeps its type; a request that records
\* a turn is at one of its payload's.
THEOREM TypeCorrect == Spec => []TypeOK
BY InitialTypes, TypesStep, PTL DEF Spec

---------------------------------------------------------------------------
(* What the table says *)

\* Outside a purge, a row says when its turn was last recorded, or an older
\* time if a slower request put the turn back.
Recorded ==
    ~purging => \A r \in seen :
        /\ witnessed[r.turn] # Never /\ r.last <= witnessed[r.turn]
        /\ r.turn \notin behind => r.last = witnessed[r.turn]

\* A turn that was recorded within the window, and not put back, has a row that
\* says so: no prune, purge or crossing of two requests takes it away.
RowKept ==
    \A t \in Turns \ behind : InWindow(witnessed[t]) =>
        \E r \in seen : r.turn = t /\ r.last = witnessed[t]

TableInv == Recorded /\ RowKept /\ IsFiniteSet(seen)

\* What a request should rescue it has found or finds archived, and all of it
\* is archived before the request goes on.
Covered ==
    \A s \in Sessions : /\ due[s] \subseteq missing[s] \union archived
                        /\ pc[s] = "forward" => due[s] \subseteq archived

RescueInv == TypeOK /\ TableInv

LEMMA InitialTable == Init => TableInv
BY FS_EmptySet, Bounds DEF Init, TableInv, Recorded, RowKept, InWindow

\* Most steps do not touch the table.
LEMMA TableKept ==
    ASSUME TableInv, UNCHANGED <<seen, witnessed, behind, clock, purging>>
    PROVE  TableInv'
BY DEF TableInv, Recorded, RowKept, InWindow

\* A turn is recorded with the newest time so far, or is behind.
LEMMA WitnessKeeps ==
    ASSUME TypeOK, NEW s \in Sessions, Turn(s) \in Turns, Witness(s)
    PROVE  /\ witnessed'[Turn(s)] \in Time /\ now[s] \in Time
           /\ now[s] <= witnessed'[Turn(s)]
           /\ Turn(s) \notin behind' => witnessed'[Turn(s)] = now[s]
           /\ \A t \in Turns \ {Turn(s)} :
                /\ witnessed'[t] = witnessed[t]
                /\ t \in behind' <=> t \in behind
<1>1. now[s] \in Time /\ witnessed[Turn(s)] \in Time \union {Never} /\ Time \subseteq Int
  BY DEF TypeOK, TablesOK, RequestsOK, Time
<1>2. CASE PutsBack(s)
  <2>1. behind' = behind \union {Turn(s)} /\ witnessed' = witnessed
    BY <1>2 DEF Witness
  <2>2. witnessed[Turn(s)] \in Time /\ now[s] <= witnessed[Turn(s)]
    <3>1. witnessed[Turn(s)] # Never /\ now[s] < witnessed[Turn(s)]
      BY <1>2 DEF PutsBack
    <3>2. witnessed[Turn(s)] \in Int /\ now[s] \in Int
      BY <1>1, <3>1
    <3> QED BY <1>1, <3>1, <3>2
  <2> QED BY <1>1, <2>1, <2>2
<1>3. CASE ~PutsBack(s)
  <2>1. witnessed' = [witnessed EXCEPT ![Turn(s)] = now[s]] /\ behind' = behind \ {Turn(s)}
    BY <1>3 DEF Witness
  <2> QED BY <1>1, <2>1 DEF TypeOK, TablesOK, Time
<1> QED BY <1>2, <1>3

\* The table after a record: the turn at hand has a row with the request's
\* time, and no row of another turn has changed.
LEMMA RecordTable ==
    ASSUME TypeOK, TableInv, NEW s \in Sessions, Turn(s) \in Turns, Witness(s),
           UNCHANGED <<clock, purging>>, IsFiniteSet(seen'), seen' \subseteq Row,
           \E r \in seen' : r.turn = Turn(s),
           \A r \in seen' : IF r.turn = Turn(s) THEN r.last = now[s] ELSE r \in seen,
           \A r \in seen : r.turn # Turn(s) => r \in seen'
    PROVE  TableInv'
<1>1. Recorded'
  <2>1. ASSUME NEW r \in seen', ~purging
        PROVE  /\ witnessed'[r.turn] # Never /\ r.last <= witnessed'[r.turn]
               /\ r.turn \notin behind' => r.last = witnessed'[r.turn]
    <3>1. CASE r.turn = Turn(s)
      BY <3>1, WitnessKeeps, Bounds DEF Time
    <3>2. CASE r.turn # Turn(s)
      <4>1. r \in seen /\ r.turn \in Turns
        BY <3>2 DEF Row
      <4>2. /\ witnessed'[r.turn] = witnessed[r.turn]
            /\ r.turn \in behind' <=> r.turn \in behind
        BY <3>2, <4>1, WitnessKeeps
      <4> QED BY <2>1, <4>1, <4>2 DEF TableInv, Recorded
    <3> QED BY <3>1, <3>2
  <2> QED BY <2>1 DEF Recorded
<1>2. ASSUME NEW t \in Turns \ behind', InWindow(witnessed[t])'
      PROVE  \E r \in seen' : r.turn = t /\ r.last = witnessed'[t]
  <2>1. CASE t = Turn(s)
    BY <1>2, <2>1, WitnessKeeps
  <2>2. CASE t # Turn(s)
    <3>4. witnessed'[t] = witnessed[t] /\ t \notin behind
      BY <1>2, <2>2, WitnessKeeps
    <3>1. witnessed'[t] = witnessed[t] /\ t \notin behind /\ InWindow(witnessed[t])
      BY <1>2, <3>4 DEF InWindow
    <3>2. PICK r \in seen : r.turn = t /\ r.last = witnessed[t]
      BY <3>1 DEF TableInv, RowKept
    <3> QED BY <2>2, <3>1, <3>2
  <2> QED BY <2>1, <2>2
<1> QED BY <1>1, <1>2 DEF TableInv, RowKept

LEMMA InsertTable ==
    ASSUME TypeOK, TableInv, NEW s \in Sessions, Insert(s)
    PROVE  TableInv'
<1>1. CASE RowsFor(Turn(s)) # {}
  BY <1>1, TableKept DEF Insert, Raise
<1>2. CASE RowsFor(Turn(s)) = {}
  <2> DEFINE row == [turn |-> Turn(s), index |-> pos[s], last |-> now[s]]
  <2>1. seen' = seen \union {row} /\ Witness(s) /\ UNCHANGED <<clock, purging>>
    BY <1>2 DEF Insert
  <2>2. Turn(s) \in Turns /\ row \in Row
    BY TurnTypes DEF Insert, TypeOK, RequestsOK, Row
  <2>3. seen' \subseteq Row
    BY <2>1, <2>2 DEF TypeOK, TablesOK
  <2>4. \A r \in seen : r.turn # Turn(s)
    BY <1>2 DEF RowsFor
  <2>5. IsFiniteSet(seen')
    BY <2>1, FS_AddElement DEF TableInv
  <2> QED BY <2>1, <2>2, <2>3, <2>4, <2>5, RecordTable
<1> QED BY <1>1, <1>2

LEMMA UpdateTable ==
    ASSUME TypeOK, TableInv, NEW s \in Sessions, Update(s)
    PROVE  TableInv'
<1> DEFINE Touched(r) == IF r.turn = Turn(s) THEN [r EXCEPT !.last = now[s]] ELSE r
<1>1. /\ seen' = {Touched(r) : r \in seen}
      /\ UNCHANGED <<clock, purging>>
      /\ IF RowsFor(Turn(s)) = {} THEN UNCHANGED <<witnessed, behind>> ELSE Witness(s)
  BY DEF Update
<1>2. Turn(s) \in Turns /\ now[s] \in Time
  BY TurnTypes DEF Update, TypeOK, RequestsOK
<1>3. \A r \in seen : /\ Touched(r) \in Row /\ Touched(r).turn = r.turn
                      /\ IF r.turn = Turn(s) THEN Touched(r).last = now[s] ELSE Touched(r) = r
  BY <1>2 DEF TypeOK, TablesOK, Row
<1>4. IsFiniteSet(seen')
  <2> DEFINE f == [r \in seen |-> Touched(r)]
  <2>1. f \in Surjection(seen, seen')
    BY <1>1 DEF Surjection
  <2> QED BY <2>1, FS_Surjection DEF TableInv
<1>5. CASE RowsFor(Turn(s)) = {}
  <2>1. \A r \in seen : Touched(r) = r
    BY <1>5 DEF RowsFor
  <2>2. seen' = seen
    BY <1>1, <2>1
  <2> QED BY <1>1, <1>5, <2>2, TableKept
<1>6. CASE RowsFor(Turn(s)) # {}
  <2>1. PICK own \in seen : own.turn = Turn(s)
    BY <1>6 DEF RowsFor
  <2> HIDE DEF Touched
  <2>2. \A r \in seen' : IF r.turn = Turn(s) THEN r.last = now[s] ELSE r \in seen
    BY <1>1, <1>3
  <2>3. \A r \in seen : r.turn # Turn(s) => r \in seen'
    BY <1>1, <1>3
  <2>4. (\E r \in seen' : r.turn = Turn(s)) /\ seen' \subseteq Row
    BY <1>1, <1>3, <2>1
  <2> QED BY <1>1, <1>2, <1>4, <1>6, <2>2, <2>3, <2>4, RecordTable
<1> QED BY <1>5, <1>6

\* The clock only takes turns out of the window, and the prune only rows that
\* are out of it.
LEMMA EnvironmentTable ==
    ASSUME TypeOK, TableInv, Tick \/ Prune \/ PurgeEpisodes \/ PurgeSeen
    PROVE  TableInv'
<1>0. clock \in Nat /\ \A t \in Turns : witnessed[t] = Never \/ witnessed[t] \in Nat
  BY DEF TypeOK, TablesOK, Time
<1>1. CASE Tick
  <2>1. \A t \in Turns : InWindow(witnessed[t])' => InWindow(witnessed[t])
    BY <1>0, <1>1, Bounds DEF Tick, InWindow
  <2> QED BY <1>1, <2>1 DEF Tick, TableInv, Recorded, RowKept
<1>2. CASE Prune
  <2>1. seen' = {r \in seen : r.last >= clock - TTL} /\ UNCHANGED <<witnessed, behind, clock, purging>>
    BY <1>2 DEF Prune
  <2>2. Recorded'
    BY <2>1 DEF TableInv, Recorded
  <2>3. ASSUME NEW t \in Turns \ behind, InWindow(witnessed[t])'
        PROVE  \E r \in seen' : r.turn = t /\ r.last = witnessed'[t]
    <3>1. InWindow(witnessed[t])
      BY <2>1, <2>3 DEF InWindow
    <3>2. PICK r \in seen : r.turn = t /\ r.last = witnessed[t]
      BY <3>1 DEF TableInv, RowKept
    <3>3. r.last >= clock - TTL
      BY <1>0, <3>1, <3>2, Bounds DEF InWindow
    <3> QED BY <2>1, <3>2, <3>3
  <2>4. IsFiniteSet(seen')
    BY <2>1, FS_Subset DEF TableInv
  <2> QED BY <2>1, <2>2, <2>3, <2>4 DEF TableInv, RowKept
<1>3. CASE PurgeEpisodes
  BY <1>3 DEF PurgeEpisodes, Forget, TableInv, Recorded, RowKept, InWindow
<1>4. CASE PurgeSeen
  BY <1>4, FS_EmptySet DEF PurgeSeen, Forget, TableInv, Recorded, RowKept, InWindow
<1> QED BY <1>1, <1>2, <1>3, <1>4

LEMMA TableStep ==
    ASSUME TypeOK, TableInv, [Next]_vars
    PROVE  TableInv'
<1>1. ASSUME NEW s \in Sessions,
             Arrive(s) \/ Detect(s) \/ Begin(s) \/ Select(s) \/ ArchiveRescued(s)
             \/ StatementError(s) \/ End(s)
      PROVE  TableInv'
  <2>1. UNCHANGED <<seen, witnessed, behind, clock, purging>>
    BY <1>1 DEF Arrive, Detect, DetectWith, Begin, Select, ArchiveRescued, StatementError,
                Raise, End
  <2> QED BY <2>1, TableKept
<1>2. CASE UNCHANGED vars
  BY <1>2, TableKept DEF vars
<1> QED BY <1>1, <1>2, InsertTable, UpdateTable, EnvironmentTable DEF Next

LEMMA RescueAlways == Spec => []RescueInv
<1>1. Init => RescueInv
  BY InitialTypes, InitialTable DEF RescueInv
<1>2. RescueInv /\ [Next]_vars => RescueInv'
  BY TypesStep, TableStep DEF RescueInv
<1> QED BY <1>1, <1>2, PTL DEF Spec

---------------------------------------------------------------------------
(* The rescue *)

\* Only a detection finds anything.
LEMMA OnlyDetectFinds ==
    ASSUME TypeOK, [Next]_vars, NEW s \in Sessions, NEW t \in missing'[s] \ missing[s]
    PROVE  Detect(s)
<1>1. ASSUME NEW e \in Sessions, Raise(e) PROVE missing'[s] \subseteq missing[s]
  BY <1>1 DEF TypeOK, RequestsOK, Raise
<1>2. ASSUME NEW e \in Sessions, Detect(e), e # s PROVE missing'[s] = missing[s]
  BY <1>2 DEF TypeOK, RequestsOK, Detect, DetectWith
<1>3. ASSUME NEW e \in Sessions, End(e) PROVE missing'[s] \subseteq missing[s]
  BY <1>3 DEF TypeOK, RequestsOK, End
<1>4. ASSUME NEW e \in Sessions,
             Arrive(e) \/ Begin(e) \/ Select(e) \/ Update(e) \/ ArchiveRescued(e)
      PROVE  UNCHANGED missing
  BY <1>4 DEF Arrive, Begin, Select, Update, ArchiveRescued
<1>5. ASSUME NEW e \in Sessions, Insert(e) PROVE missing' = missing \/ Raise(e)
  BY <1>5 DEF Insert
<1>6. ASSUME NEW e \in Sessions, StatementError(e) PROVE Raise(e)
  BY <1>6 DEF StatementError
<1>7. Tick \/ Prune \/ PurgeEpisodes \/ PurgeSeen \/ UNCHANGED vars => UNCHANGED missing
  BY DEF Tick, Prune, PurgeEpisodes, PurgeSeen, Forget, vars, request
<1> QED BY <1>1, <1>2, <1>3, <1>4, <1>5, <1>6, <1>7 DEF Next

\* Nothing is rescued from history: what a detection finds was recorded by some
\* request within the window, and is not in the payload at hand.
THEOREM OnlyRecentIsRescued == Spec => RescueIsRecent
<1>1. ASSUME RescueInv, [Next]_vars, NEW s \in Sessions, NEW t \in missing'[s] \ missing[s]
      PROVE  t \notin Elements(msgs[s]) /\ (InWindow(witnessed[t]) \/ purging)
  <2>1. Detect(s)
    BY <1>1, OnlyDetectFinds DEF RescueInv
  <2>2. PICK first \in Limited({r \in seen : InWindow(r.last)}) :
          missing' = [missing EXCEPT ![s] = {r.turn : r \in first} \ Elements(msgs[s])]
    BY <2>1 DEF Detect, DetectWith
  <2>3. t \in {r.turn : r \in first} \ Elements(msgs[s])
    BY <1>1, <2>2 DEF RescueInv, TypeOK, RequestsOK
  <2>4. PICK r \in seen : t = r.turn /\ InWindow(r.last)
    BY <2>2, <2>3 DEF Limited
  <2>5. ASSUME ~purging PROVE InWindow(witnessed[t])
    <3>1. witnessed[t] # Never /\ r.last <= witnessed[t] /\ r.last >= clock - Window
      BY <1>1, <2>4, <2>5 DEF RescueInv, TableInv, Recorded, InWindow
    <3>2. t \in Turns /\ r.last \in Time /\ witnessed[t] \in Time \union {Never}
      BY <1>1, <2>4 DEF RescueInv, TypeOK, TablesOK, Row
    <3> QED BY <1>1, <3>1, <3>2, Bounds DEF InWindow, RescueInv, TypeOK, TablesOK, Time
  <2> QED BY <2>3, <2>5
<1>2. RescueInv /\ [Next]_vars =>
        [\A s \in Sessions : \A t \in missing'[s] \ missing[s] :
          /\ t \notin Elements(msgs[s])
          /\ InWindow(witnessed[t]) \/ purging]_vars
  BY <1>1
<1> QED BY <1>2, RescueAlways, PTL DEF Spec, RescueIsRecent

\* A row the limit leaves out has at least max_rescue rows before it.
LEMMA LimitTakesFirst ==
    ASSUME RescueInv, NEW t \in Turns, NEW own \in RowsFor(t), InWindow(own.last),
           Cardinality(Before(t)) < MaxRescue,
           NEW first \in Limited({r \in seen : InWindow(r.last)})
    PROVE  own \in first
<1> DEFINE rows == {r \in seen : InWindow(r.last)}
<1>1. /\ first \subseteq rows /\ own \in rows
      /\ Cardinality(first) = IF Cardinality(rows) <= MaxRescue THEN Cardinality(rows)
                              ELSE MaxRescue
      /\ \A r \in first, other \in rows \ first : r.index <= other.index
  BY DEF Limited, RowsFor
<1>2. IsFiniteSet(rows) /\ IsFiniteSet(first) /\ IsFiniteSet(Before(t))
  BY <1>1, FS_Subset DEF RescueInv, TableInv, Before
<1>3. Cardinality(rows) \in Nat /\ Cardinality(first) \in Nat /\ Cardinality(Before(t)) \in Nat
  BY <1>2, FS_CardinalityType
<1>4. SUFFICES ASSUME own \notin first PROVE FALSE
  OBVIOUS
<1>5. Cardinality(first) = MaxRescue
  BY <1>1, <1>2, <1>3, <1>4, FS_Subset
<1>6. first \subseteq Before(t)
  BY <1>1, <1>4 DEF Before
<1>7. Cardinality(first) <= Cardinality(Before(t))
  BY <1>2, <1>6, FS_Subset
<1> QED BY <1>3, <1>5, <1>7, Bounds

\* A detection finds all that is due.
LEMMA DetectFindsAll ==
    ASSUME RescueInv, NEW s \in Sessions, Detect(s)
    PROVE  due'[s] \subseteq missing'[s]
<1>1. PICK first \in Limited({r \in seen : InWindow(r.last)}) :
        missing' = [missing EXCEPT ![s] = {r.turn : r \in first} \ Elements(msgs[s])]
  BY DEF Detect, DetectWith
<1>2. due'[s] = DueNow(s) /\ missing'[s] = {r.turn : r \in first} \ Elements(msgs[s])
  BY <1>1 DEF Detect, DetectWith, RescueInv, TypeOK, RequestsOK
<1>3. ASSUME NEW t \in DueNow(s) PROVE t \in {r.turn : r \in first} \ Elements(msgs[s])
  <2>1. /\ t \in Turns \ behind /\ InWindow(witnessed[t]) /\ t \notin Elements(msgs[s])
        /\ Cardinality(Before(t)) < MaxRescue
    BY DEF DueNow
  <2>2. PICK own \in seen : own.turn = t /\ own.last = witnessed[t]
    BY <2>1 DEF RescueInv, TableInv, RowKept
  <2>3. own \in first
    BY <2>1, <2>2, LimitTakesFirst DEF RowsFor
  <2> QED BY <2>1, <2>2, <2>3
<1> QED BY <1>2, <1>3

LEMMA RecordCovers ==
    ASSUME RequestsOK, Covered, NEW s \in Sessions, UNCHANGED <<missing, due, archived>>,
           NEW to, to = "forward" => missing[s] = {}, pc' = [pc EXCEPT ![s] = to]
    PROVE  Covered'
BY DEF RequestsOK, Covered

LEMMA RaiseCovers ==
    ASSUME RequestsOK, Covered, NEW s \in Sessions, Raise(s), UNCHANGED archived
    PROVE  Covered'
BY DEF RequestsOK, Covered, Raise, GoTo

LEMMA CoveredStep ==
    ASSUME RescueInv, Covered, [Next]_vars
    PROVE  Covered'
<1>0. RequestsOK
  BY DEF RescueInv, TypeOK
<1>1. ASSUME NEW s \in Sessions, Arrive(s) \/ Begin(s) \/ Select(s) PROVE Covered'
  <2>1. PICK to : /\ pc' = [pc EXCEPT ![s] = to]
                  /\ to = "forward" => missing[s] = {}
    BY <1>1 DEF Arrive, Begin, Select, GoTo, AfterRecord
  <2>2. UNCHANGED <<missing, due, archived>>
    BY <1>1 DEF Arrive, Begin, Select
  <2> QED BY <1>0, <2>1, <2>2, RecordCovers
<1>2. ASSUME NEW s \in Sessions, Detect(s) PROVE Covered'
  <2>1. due'[s] \subseteq missing'[s]
    BY <1>2, DetectFindsAll
  <2>2. /\ pc' = [pc EXCEPT ![s] = "begin"] /\ archived' = archived
        /\ \A e \in Sessions : e # s => due'[e] = due[e] /\ missing'[e] = missing[e]
    BY <1>0, <1>2 DEF Detect, DetectWith, GoTo, RequestsOK
  <2>3. pc'[s] = "begin" /\ \A e \in Sessions : e # s => pc'[e] = pc[e]
    BY <1>0, <2>2 DEF RequestsOK
  <2>4. ASSUME NEW e \in Sessions
        PROVE  /\ due'[e] \subseteq missing'[e] \union archived'
               /\ pc'[e] = "forward" => due'[e] \subseteq archived'
    <3>1. CASE e = s
      BY <2>1, <2>3, <3>1
    <3>2. CASE e # s
      BY <2>2, <2>3, <3>2 DEF Covered
    <3> QED BY <3>1, <3>2
  <2> QED BY <2>4 DEF Covered
<1>3. ASSUME NEW s \in Sessions, NextMessage(s), UNCHANGED <<missing, due, archived>>
      PROVE  Covered'
  <2>1. AfterRecord(s) = "forward" => missing[s] = {}
    BY DEF AfterRecord
  <2>2. CASE pos[s] = Len(msgs[s])
    BY <1>0, <1>3, <2>1, <2>2, RecordCovers DEF NextMessage, GoTo
  <2>3. CASE pos[s] # Len(msgs[s])
    BY <1>0, <1>3, <2>3, RecordCovers DEF NextMessage, GoTo
  <2> QED BY <2>2, <2>3
<1>4. ASSUME NEW s \in Sessions, Insert(s) PROVE Covered'
  BY <1>0, <1>3, <1>4, RaiseCovers DEF Insert
<1>5. ASSUME NEW s \in Sessions, Update(s) PROVE Covered'
  BY <1>3, <1>5 DEF Update
<1>6. ASSUME NEW s \in Sessions, ArchiveRescued(s) PROVE Covered'
  BY <1>0, <1>6 DEF ArchiveRescued, GoTo, Covered, RequestsOK
<1>7. ASSUME NEW s \in Sessions, StatementError(s) PROVE Covered'
  BY <1>0, <1>7, RaiseCovers DEF StatementError
<1>8. ASSUME NEW s \in Sessions, End(s) PROVE Covered'
  BY <1>0, <1>8 DEF End, GoTo, Covered, RequestsOK
<1>9. CASE Tick \/ Prune \/ UNCHANGED vars
  BY <1>9 DEF Tick, Prune, vars, request, Covered
<1>10. CASE PurgeEpisodes \/ PurgeSeen
  BY <1>10 DEF PurgeEpisodes, PurgeSeen, Forget, Covered
<1> QED BY <1>1, <1>2, <1>4, <1>5, <1>6, <1>7, <1>8, <1>9, <1>10 DEF Next

\* A request that gets as far as being forwarded has in the archive each lost
\* turn that was recorded within the window, was not put back to an older time
\* and has fewer than max_rescue rows before it: whatever records, prunes,
\* errors and purges ran between the statements, and for any number of turns.
THEOREM RescueComplete == Spec => []RescueIsComplete
<1>1. Init => Covered
  BY DEF Init, Covered
<1>2. RescueInv /\ Covered /\ [Next]_vars => Covered'
  BY CoveredStep
<1>3. Covered => RescueIsComplete
  BY DEF Covered, RescueIsComplete
<1> QED BY <1>1, <1>2, <1>3, RescueAlways, PTL DEF Spec
=============================================================================

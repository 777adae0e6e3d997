--------------------------- MODULE ExchangeProofs ---------------------------
(***************************************************************************)
(* The count of requests, the offer of archived ids to the facet queue,    *)
(* the usage the client is told, the stream it is sent, that all of it     *)
(* implements Request, and the one-shot fallback, for every set of modes   *)
(* and of stream bodies and every bound on ids and faults.                 *)
(***************************************************************************)
EXTENDS Exchange, FiniteSetTheorems, SequenceTheorems, WellFoundedInduction, TLAPS

USE DEF ids, upstream, body

Fields ==
    /\ mode \in Mode
    /\ status \in Statuses \union {"none"} /\ model \in Models
    /\ freed \in 0..MaxIds /\ evicted \in 0..MaxIds
    /\ archived \in Nat /\ ahead \in Nat /\ offered \in Nat
    /\ faults \in 0..MaxFaults

BeforeCall == {"arrived", "rescue", "evict", "retrieve", "call"}

\* The n-th call of a request goes to this model.
Nth == [i \in 1..3 |-> IF i = 2 THEN "fallback" ELSE "primary"]

\* What has been called so far, from where the request is; and what is left to
\* serve before the fallback has answered.
CallsInv ==
    /\ calls \in Seq(Models)
    /\ Len(calls) <= (IF mode.stream THEN 3 ELSE 2)
    /\ \A i \in 1..Len(calls) : calls[i] = Nth[i]
    /\ pc \in BeforeCall => Len(calls) = 0 /\ model = "primary"
    /\ pc = "fallback" => Len(calls) = 1 /\ model = "primary" /\ mode.fallback
    /\ pc = "reopen" => Len(calls) = 2 /\ model = "primary" /\ mode.stream
    /\ model = "fallback" => status = "ok" /\ mode.fallback /\ Len(calls) > 0

CountInv ==
    /\ pc # "done" => counted = 0
    /\ pc = "done" /\ answer \in Statuses => counted = 1

\* Ids are held only between _maybe_evict and the end.
OfferInv ==
    /\ pc \notin {"rewrite", "finish", "done"} => evicted = 0 /\ archived = offered + ahead
    /\ pc \in {"rewrite", "finish"} => archived = offered + ahead + evicted
    /\ counted = 1 => archived = offered + ahead

LEMMA FieldsInitially == Init => Fields
BY ExchangeAssumption DEF Init, Fields, Statuses, Models

LEMMA FieldsStep == Fields /\ [Next]_vars => Fields'
<1> SUFFICES ASSUME Fields, [Next]_vars PROVE Fields'
  OBVIOUS
<1> USE ExchangeAssumption DEF Fields
<1>1. CASE Intercept \/ Rescue \/ Retrieve \/ ServeJson \/ ServeStream
  BY <1>1 DEF Intercept, Rescue, Retrieve, ServeJson, ServeStream
<1>2. CASE PassOrKeep \/ EndOfStream \/ Close \/ NameError \/ RewriteJson \/ RewriteStream
  BY <1>2 DEF PassOrKeep, EndOfStream, Close, NameError, RewriteJson, RewriteStream
<1>3. CASE Evict \/ EvictFails
  <2>1. PICK n \in 0..MaxIds : archived' = archived + n /\ ahead' = ahead + n
    BY <1>3 DEF Evict, EvictFails, ArchiveAhead
  <2>2. MaxIds \in Nat /\ ahead \in Nat /\ archived \in Nat
    BY ExchangeAssumption
  <2>3. archived' \in Nat /\ ahead' \in Nat /\ ahead' - ahead \in 0..MaxIds
    BY <2>1, <2>2
  <2>4. CASE Evict
    BY <2>3, <2>4 DEF Evict
  <2>5. CASE EvictFails
    BY <2>3, <2>5 DEF EvictFails, Fault
  <2> QED
    BY <1>3, <2>4, <2>5
<1>4. CASE Call \/ Fallback \/ Reopen
  BY <1>4 DEF Call, Fallback, Reopen, Reply, Statuses, Models
<1>5. CASE PostEvict
  BY <1>5 DEF PostEvict
<1>6. CASE Finish
  BY <1>6 DEF Finish, Ends
<1>7. ASSUME Fault PROVE faults' \in 0..MaxFaults
  <2>1. MaxFaults \in Nat /\ faults \in 0..MaxFaults
    OBVIOUS
  <2> QED BY <1>7, <2>1 DEF Fault
<1>8. CASE RescueFails \/ PostEvictFails
  <2>1. PICK n \in 0..MaxIds : archived' = archived + n
    BY <1>8 DEF RescueFails, PostEvictFails
  <2>2. MaxIds \in Nat /\ archived \in Nat
    OBVIOUS
  <2>3. archived' \in Nat
    BY <2>1, <2>2
  <2>4. /\ Fault
        /\ UNCHANGED <<mode, status, model, freed, evicted, ahead, offered>>
    BY <1>8 DEF RescueFails, PostEvictFails
  <2> QED BY <1>7, <2>3, <2>4
<1>9. CASE CallFails \/ NotJson \/ UpstreamBreaks \/ ClientLeaves
  <2>1. /\ Fault
        /\ UNCHANGED <<mode, status, model, freed, evicted, archived, ahead, offered>>
    BY <1>9 DEF CallFails, NotJson, UpstreamBreaks, ClientLeaves
  <2> QED BY <1>7, <2>1
<1>10. CASE UNCHANGED vars
  BY <1>10 DEF vars
<1> QED
  BY <1>1, <1>2, <1>3, <1>4, <1>5, <1>6, <1>8, <1>9, <1>10 DEF Next, Handle, Disturb

LEMMA NthCalls == Nth[1] = "primary" /\ Nth[2] = "fallback" /\ Nth[3] = "primary"
BY DEF Nth

LEMMA NextCall ==
    ASSUME CallsInv, Len(calls) \in 0..2
    PROVE  LET longer == Append(calls, Nth[Len(calls) + 1])
           IN  /\ longer \in Seq(Models) /\ Len(longer) = Len(calls) + 1
               /\ \A i \in 1..Len(longer) : longer[i] = Nth[i]
<1>1. calls \in Seq(Models) /\ Nth[Len(calls) + 1] \in Models
  BY DEF CallsInv, Nth, Models
<1>2. \A i \in 1..Len(calls) : calls[i] = Nth[i]
  BY DEF CallsInv
<1> QED
  BY <1>1, <1>2, AppendProperties

LEMMA CallsStep == Fields /\ CallsInv /\ [Next]_vars => CallsInv'
<1> SUFFICES ASSUME Fields, CallsInv, [Next]_vars PROVE CallsInv'
  OBVIOUS
<1> USE DEF CallsInv, BeforeCall
<1>1. CASE Intercept \/ Rescue \/ Evict \/ Retrieve
  BY <1>1 DEF Intercept, Rescue, Evict, Retrieve
<1>2. CASE Call
  <2>1. calls' = Append(calls, Nth[Len(calls) + 1]) /\ Len(calls) = 0
    BY <1>2, NthCalls DEF Call, Reply
  <2>2. calls' \in Seq(Models) /\ Len(calls') = 1 /\ \A i \in 1..1 : calls'[i] = Nth[i]
    BY <2>1, NextCall
  <2>3. model' = "primary" /\ mode' = mode /\ (pc' = "serve" \/ (pc' = "fallback" /\ mode.fallback))
    BY <1>2 DEF Call, Reply, FallsBack
  <2> QED
    BY <2>2, <2>3
<1>3. CASE Fallback
  <2>1. calls' = Append(calls, Nth[Len(calls) + 1]) /\ Len(calls) = 1 /\ mode' = mode
    <3>1. calls' = Append(calls, "fallback") /\ Len(calls) = 1 /\ mode' = mode
      BY <1>3 DEF Fallback, Reply
    <3> QED
      BY <3>1, NthCalls
  <2>2. /\ calls' \in Seq(Models) /\ Len(calls') = 2
        /\ \A i \in 1..2 : calls'[i] = Nth[i]
    BY <2>1, NextCall
  <2>3. CASE Reply("fallback", "ok") /\ pc' = "serve"
    BY <1>3, <2>1, <2>2, <2>3 DEF Fallback, Reply
  <2>4. CASE pc' = (IF mode.stream THEN "reopen" ELSE "serve") /\ UNCHANGED <<status, model>>
    BY <1>3, <2>1, <2>2, <2>4 DEF Fallback
  <2> QED
    BY <1>3, <2>3, <2>4 DEF Fallback
<1>4. CASE Reopen
  <2>1. /\ calls' = Append(calls, Nth[Len(calls) + 1]) /\ Len(calls) = 2
        /\ model' = "primary" /\ mode.stream /\ mode' = mode /\ pc' = "serve"
    <3>1. /\ calls' = Append(calls, "primary") /\ Len(calls) = 2
          /\ model' = "primary" /\ mode.stream /\ mode' = mode /\ pc' = "serve"
      BY <1>4 DEF Reopen, Reply
    <3> QED
      BY <3>1, NthCalls
  <2>2. /\ calls' \in Seq(Models) /\ Len(calls') = 3
        /\ \A i \in 1..3 : calls'[i] = Nth[i]
    BY <2>1, NextCall
  <2> QED
    BY <2>1, <2>2
<1>5. CASE ServeJson \/ ServeStream \/ PassOrKeep \/ EndOfStream \/ Close
  BY <1>5 DEF ServeJson, ServeStream, PassOrKeep, EndOfStream, Close
<1>6. CASE PostEvict \/ NameError \/ RewriteJson \/ RewriteStream \/ Finish
  BY <1>6 DEF PostEvict, NameError, RewriteJson, RewriteStream, Finish, Ends, Raise
<1>7. CASE RescueFails \/ EvictFails
  BY <1>7 DEF RescueFails, EvictFails, Raise
<1>8. CASE CallFails \/ NotJson \/ UpstreamBreaks \/ ClientLeaves \/ PostEvictFails
  BY <1>8 DEF CallFails, NotJson, UpstreamBreaks, ClientLeaves, PostEvictFails, Raise
<1>9. CASE UNCHANGED vars
  BY <1>9 DEF vars
<1> QED
  BY <1>1, <1>2, <1>3, <1>4, <1>5, <1>6, <1>7, <1>8, <1>9 DEF Next, Handle, Disturb

LEMMA CountStep == CountInv /\ [Next]_vars => CountInv'
<1> SUFFICES ASSUME CountInv, [Next]_vars PROVE CountInv'
  OBVIOUS
<1> USE DEF CountInv
<1>1. CASE Intercept
  BY <1>1 DEF Intercept, Statuses
<1>2. CASE Rescue \/ Evict \/ Retrieve \/ Call \/ Fallback \/ Reopen
  BY <1>2 DEF Rescue, Evict, Retrieve, Call, Fallback, Reopen
<1>3. CASE ServeJson \/ ServeStream \/ PassOrKeep \/ EndOfStream \/ Close \/ PostEvict
  BY <1>3 DEF ServeJson, ServeStream, PassOrKeep, EndOfStream, Close, PostEvict
<1>4. CASE NameError \/ RewriteJson \/ RewriteStream
  BY <1>4 DEF NameError, RewriteJson, RewriteStream, Raise, Statuses
<1>5. CASE Finish
  BY <1>5 DEF Finish, Ends
<1>6. CASE RescueFails \/ EvictFails \/ CallFails
  BY <1>6 DEF RescueFails, EvictFails, CallFails, Raise, Statuses
<1>7. CASE NotJson \/ UpstreamBreaks \/ ClientLeaves \/ PostEvictFails
  BY <1>7 DEF NotJson, UpstreamBreaks, ClientLeaves, PostEvictFails, Raise, Statuses
<1>8. CASE UNCHANGED vars
  BY <1>8 DEF vars
<1> QED
  BY <1>1, <1>2, <1>3, <1>4, <1>5, <1>6, <1>7, <1>8 DEF Next, Handle, Disturb

LEMMA OfferStep == Fields /\ CountInv /\ OfferInv /\ [Next]_vars => OfferInv'
<1> SUFFICES ASSUME Fields, CountInv, OfferInv, [Next]_vars PROVE OfferInv'
  OBVIOUS
<1> USE ExchangeAssumption DEF OfferInv, CountInv, Fields
<1>1. CASE Intercept \/ Rescue \/ Retrieve \/ Call \/ Fallback \/ Reopen
  BY <1>1 DEF Intercept, Rescue, Retrieve, Call, Fallback, Reopen
<1>2. CASE Evict \/ EvictFails
  BY <1>2 DEF Evict, EvictFails, ArchiveAhead
<1>3. CASE ServeJson \/ ServeStream \/ PassOrKeep \/ EndOfStream \/ Close \/ PostEvict
  BY <1>3 DEF ServeJson, ServeStream, PassOrKeep, EndOfStream, Close, PostEvict
<1>4. CASE NameError \/ RewriteJson
  BY <1>4 DEF NameError, RewriteJson, Raise
<1>5. CASE RewriteStream
  BY <1>5 DEF RewriteStream, Raise
<1>6. CASE Finish
  BY <1>6 DEF Finish, Ends
<1>7. CASE RescueFails \/ CallFails \/ NotJson
  BY <1>7 DEF RescueFails, CallFails, NotJson, Raise
<1>8. CASE UpstreamBreaks \/ ClientLeaves \/ PostEvictFails
  BY <1>8 DEF UpstreamBreaks, ClientLeaves, PostEvictFails, Raise
<1>9. CASE UNCHANGED vars
  BY <1>9 DEF vars
<1> QED
  BY <1>1, <1>2, <1>3, <1>4, <1>5, <1>6, <1>7, <1>8, <1>9 DEF Next, Handle, Disturb

LEMMA Invariance == Spec => [](Fields /\ CallsInv /\ CountInv /\ OfferInv)
<1>1. Init => Fields /\ CallsInv /\ CountInv /\ OfferInv
  BY FieldsInitially DEF Init, CallsInv, BeforeCall, CountInv, OfferInv, Statuses
<1>2. Fields /\ CallsInv /\ CountInv /\ OfferInv /\ [Next]_vars
        => (Fields /\ CallsInv /\ CountInv /\ OfferInv)'
  BY FieldsStep, CallsStep, CountStep, OfferStep
<1> QED
  BY <1>1, <1>2, PTL DEF Spec

\* A request the client got an answer to has been counted in requests_total
\* exactly once, JSON or stream (proxy/app.py).
THEOREM AnsweredIsCounted == Spec => []CountedOnce
<1>1. CountInv => CountedOnce
  BY DEF CountInv, CountedOnce
<1> QED
  BY <1>1, Invariance, PTL

\* Of a request that has been counted, whatever failed on the way, every id that
\* its rescue and _maybe_evict archived has been given to the facet queue, and
\* none that pre-forward eviction did (proxy/app.py).
THEOREM OfferedAtTheEnd == Spec => []ArchivedIsOffered
<1>1. Fields /\ OfferInv => ArchivedIsOffered
  BY DEF Fields, OfferInv, ArchivedIsOffered
<1> QED
  BY <1>1, Invariance, PTL

---------------------------------------------------------------------------
(* What the client is told of the input *)

Marked(s) == \A i \in DOMAIN s : s[i].usage /\ s[i].of = 1 => s[i].marker

\* What was kept of a stream is all in tail_buffer.
StreamInv ==
    /\ coming \in Seq(Chunk) /\ sink \in Seq(Chunk) /\ tail \in Seq(Chunk)
    /\ Marked(coming) /\ Marked(sink)
    /\ \A i \in DOMAIN sink : IsKept(sink[i]) => \E j \in DOMAIN tail : tail[j] = sink[i]

WholeUsagesAreRewritten ==
    mode.stream /\ mode.rewrite /\ (Subtract > 0 \/ mode.cap > 0) =>
        \A i \in DOMAIN sink :
            sink[i].usage /\ sink[i].of = 1 => \E u \in rewritten : u.real = sink[i].input

\* From the rewrite on, the usages that were rewritten go by what rescue and
\* eviction had freed by then, and that is all they will free.
ReportInv ==
    /\ pc \notin {"finish", "done"} => rewritten = {}
    /\ ~mode.passive /\ (pc = "finish" \/ (pc = "done" /\ answer \in Statuses)) =>
        /\ \A u \in rewritten : u.real \in Nat /\ u.told = Reported(u.real)
        /\ WholeUsagesAreRewritten

LEMMA StreamInitially == Init => StreamInv
BY DEF Init, StreamInv, Marked

LEMMA StreamStep == Fields /\ StreamInv /\ [Next]_vars => StreamInv'
<1> SUFFICES ASSUME Fields, StreamInv, [Next]_vars PROVE StreamInv'
  OBVIOUS
<1>1. CASE ServeStream
  <2>1. coming' \in Seq(Chunk) /\ Marked(coming)'
    BY <1>1, ExchangeAssumption DEF ServeStream, Marked
  <2> QED BY <1>1, <2>1 DEF ServeStream, StreamInv, IsKept, Marked
<1>2. CASE PassOrKeep
  <2>1. /\ coming # <<>> /\ mode' = mode
        /\ sink' = Append(sink, Head(coming))
        /\ coming' = Tail(coming)
        /\ tail' = IF IsKept(Head(coming)) THEN Append(tail, Head(coming)) ELSE tail
    BY <1>2 DEF PassOrKeep
  <2>2. coming \in Seq(Chunk) /\ sink \in Seq(Chunk) /\ tail \in Seq(Chunk)
    BY DEF StreamInv
  <2>3. Head(coming) = coming[1] /\ coming[1] \in Chunk /\ 1 \in DOMAIN coming
    BY <2>1, <2>2
  <2>4. /\ coming' \in Seq(Chunk)
        /\ \A i \in DOMAIN coming' : i + 1 \in DOMAIN coming /\ coming'[i] = coming[i + 1]
    BY <2>1, <2>2, HeadTailProperties
  <2>5. Marked(coming)'
    BY <2>4 DEF StreamInv, Marked
  <2>6. /\ sink' \in Seq(Chunk)
        /\ DOMAIN sink' = DOMAIN sink \union {Len(sink) + 1}
        /\ \A i \in DOMAIN sink : sink'[i] = sink[i]
        /\ sink'[Len(sink) + 1] = coming[1]
    BY <2>1, <2>2, <2>3, AppendProperties
  <2>7. Marked(sink)'
    BY <2>3, <2>6 DEF StreamInv, Marked
  <2>8. /\ tail' \in Seq(Chunk)
        /\ \A j \in DOMAIN tail : j \in DOMAIN tail' /\ tail'[j] = tail[j]
        /\ IsKept(coming[1]) => \E j \in DOMAIN tail' : tail'[j] = coming[1]
    <3>1. CASE IsKept(coming[1])
      <4>1. tail' = Append(tail, coming[1])
        BY <2>1, <2>3, <3>1
      <4>2. /\ tail' \in Seq(Chunk)
            /\ \A j \in DOMAIN tail : j \in DOMAIN tail' /\ tail'[j] = tail[j]
            /\ Len(tail) + 1 \in DOMAIN tail' /\ tail'[Len(tail) + 1] = coming[1]
        BY <2>2, <2>3, <4>1, AppendProperties
      <4> QED BY <4>2
    <3>2. CASE ~IsKept(coming[1])
      BY <2>1, <2>2, <2>3, <3>2
    <3> QED BY <3>1, <3>2
  <2>9. ASSUME NEW i \in DOMAIN sink', IsKept(sink'[i])
        PROVE  \E j \in DOMAIN tail' : tail'[j] = sink'[i]
    <3>1. CASE i \in DOMAIN sink
      BY <2>6, <2>8, <2>9, <3>1 DEF StreamInv
    <3>2. CASE i = Len(sink) + 1
      BY <2>6, <2>8, <2>9, <3>2
    <3> QED BY <2>6, <3>1, <3>2
  <2> QED BY <2>1, <2>4, <2>5, <2>6, <2>7, <2>8, <2>9 DEF StreamInv, IsKept
<1>3. ASSUME UNCHANGED <<mode, coming, sink, tail>> PROVE StreamInv'
  BY <1>3 DEF StreamInv, Marked, IsKept
<1>4. CASE Intercept \/ Rescue \/ Evict \/ Retrieve \/ Call \/ Fallback \/ Reopen
  BY <1>3, <1>4 DEF Intercept, Rescue, Evict, Retrieve, Call, Fallback, Reopen
<1>5. CASE ServeJson \/ EndOfStream \/ Close \/ PostEvict \/ NameError
  BY <1>3, <1>5 DEF ServeJson, EndOfStream, Close, PostEvict, NameError
<1>6. CASE RewriteJson \/ RewriteStream \/ Finish
  BY <1>3, <1>6 DEF RewriteJson, RewriteStream, Finish, Ends
<1>7. CASE RescueFails \/ EvictFails \/ CallFails \/ NotJson
  BY <1>3, <1>7 DEF RescueFails, EvictFails, CallFails, NotJson
<1>8. CASE UpstreamBreaks \/ ClientLeaves \/ PostEvictFails \/ UNCHANGED vars
  BY <1>3, <1>8 DEF UpstreamBreaks, ClientLeaves, PostEvictFails, vars
<1> QED
  BY <1>1, <1>2, <1>4, <1>5, <1>6, <1>7, <1>8 DEF Next, Handle, Disturb

\* What is said in the usages of a stream are numbers, and what a usage says
\* that came in one piece is among them.
LEMMA InputsFound ==
    StreamInv /\ mode.rewrite =>
        \A i \in DOMAIN sink :
            sink[i].usage /\ sink[i].of = 1 => sink[i].input \in InputsIn(tail)
<1> SUFFICES ASSUME StreamInv, mode.rewrite, NEW i \in DOMAIN sink, sink[i].usage, sink[i].of = 1
             PROVE  sink[i].input \in InputsIn(tail)
  OBVIOUS
<1>1. IsKept(sink[i])
  BY DEF StreamInv, Marked, IsKept
<1>2. PICK j \in DOMAIN tail : tail[j] = sink[i]
  BY <1>1 DEF StreamInv
<1>3. tail[j].event \in UsageIn(tail)
  BY <1>2 DEF UsageIn, WholeIn
<1> QED BY <1>2, <1>3 DEF InputsIn

LEMMA InputsAreNumbers == StreamInv => InputsIn(tail) \subseteq Nat
<1>0. Inputs \subseteq Nat
  BY ExchangeAssumption
<1>1. \A c \in Chunk : c.input \in Nat
  <2> SUFFICES ASSUME NEW c \in Chunk PROVE c.input \in Nat
    OBVIOUS
  <2>1. c.input \in Inputs \union {0}
    BY DEF Chunk
  <2>2. CASE c.input \in Inputs
    BY <1>0, <2>2, Zenon
  <2>3. CASE c.input = 0
    BY <2>3
  <2> QED BY <2>1, <2>2, <2>3, Zenon
<1>2. StreamInv => \A i \in DOMAIN tail : tail[i] \in Chunk
  BY DEF StreamInv
<1> QED BY <1>1, <1>2 DEF InputsIn

LEMMA ReportStep == Fields /\ StreamInv /\ ReportInv /\ [Next]_vars => ReportInv'
<1> SUFFICES ASSUME Fields, StreamInv, ReportInv, [Next]_vars PROVE ReportInv'
  OBVIOUS
<1>1. CASE RewriteStream
  <2>1. CASE pc' = "done"
    BY <1>1, <2>1 DEF RewriteStream, ReportInv, Raise, Statuses
  <2>2. CASE pc' = "finish"
    <3>1. /\ pc' = "finish" /\ rewritten' = Rewritten(InputsIn(tail))
          /\ UNCHANGED <<mode, freed, evicted, sink>>
      BY <1>1, <2>2 DEF RewriteStream, Raise
    <3>2. \A u \in rewritten' : u.real \in Nat /\ u.told = Reported(u.real)
      BY <3>1, InputsAreNumbers DEF Rewritten
    <3>3. \A n : Reported(n)' = Reported(n)
      <4>1. Subtract' = Subtract /\ mode' = mode
        BY <3>1 DEF Subtract
      <4> QED BY <4>1 DEF Reported
    <3>4. WholeUsagesAreRewritten'
      <4>1. mode.rewrite => \A i \in DOMAIN sink :
              sink[i].usage /\ sink[i].of = 1 => sink[i].input \in InputsIn(tail)
        BY InputsFound, Zenon
      <4>2. Subtract > 0 \/ mode.cap > 0 =>
              \A n \in InputsIn(tail) : \E u \in rewritten' : u.real = n
        <5> SUFFICES ASSUME Subtract > 0 \/ mode.cap > 0, NEW n \in InputsIn(tail)
                     PROVE  \E u \in rewritten' : u.real = n
          OBVIOUS
        <5>1. rewritten' = {[real |-> real, told |-> Reported(real)] : real \in InputsIn(tail)}
          BY <3>1 DEF Rewritten
        <5>2. [real |-> n, told |-> Reported(n)] \in rewritten'
          BY <5>1, Zenon
        <5> QED BY <5>2
      <4>3. Subtract' = Subtract
        BY <3>1 DEF Subtract
      <4> QED BY <3>1, <4>1, <4>2, <4>3 DEF WholeUsagesAreRewritten
    <3> QED BY <3>1, <3>2, <3>3, <3>4 DEF ReportInv
  <2> QED BY <1>1, <2>1, <2>2 DEF RewriteStream, Raise
<1>2. CASE RewriteJson
  <2>1. PICK real \in Inputs : rewritten' = Rewritten({real})
    BY <1>2 DEF RewriteJson
  <2>2. UNCHANGED <<mode, freed, evicted, sink>> /\ ~mode.stream /\ pc' = "finish"
    BY <1>2 DEF RewriteJson
  <2>3. \A u \in rewritten' : u.real \in Nat /\ u.told = Reported(u.real)
    BY <2>1, ExchangeAssumption DEF Rewritten
  <2>4. \A n : Reported(n)' = Reported(n)
    <3>1. Subtract' = Subtract /\ mode' = mode
      BY <2>2 DEF Subtract
    <3> QED BY <3>1 DEF Reported
  <2> QED BY <2>2, <2>3, <2>4 DEF ReportInv, WholeUsagesAreRewritten
<1>3. CASE Finish
  BY <1>3 DEF Finish, Ends, ReportInv, WholeUsagesAreRewritten, Reported, Subtract
<1>4. CASE ServeJson
  BY <1>4 DEF ServeJson, ReportInv, WholeUsagesAreRewritten
<1>5. ASSUME pc' \notin {"finish", "done"}, UNCHANGED rewritten, pc \notin {"finish", "done"}
      PROVE  ReportInv'
  BY <1>5 DEF ReportInv
<1>6. CASE Rescue \/ Evict \/ Retrieve \/ Call \/ Fallback \/ Reopen
  BY <1>5, <1>6 DEF Rescue, Evict, Retrieve, Call, Fallback, Reopen
<1>7. CASE ServeStream \/ PassOrKeep \/ EndOfStream \/ Close \/ PostEvict
  BY <1>5, <1>7 DEF ServeStream, PassOrKeep, EndOfStream, Close, PostEvict
<1>8. CASE EvictFails \/ UpstreamBreaks
  BY <1>5, <1>8 DEF EvictFails, UpstreamBreaks
<1>9. ASSUME pc' = "done", answer' \notin Statuses PROVE ReportInv'
  BY <1>9 DEF ReportInv
<1>10. ASSUME Raise PROVE ReportInv'
  BY <1>9, <1>10 DEF Raise, Statuses
<1>11. CASE NameError \/ CallFails \/ NotJson \/ PostEvictFails
  BY <1>10, <1>11 DEF NameError, CallFails, NotJson, PostEvictFails
<1>12. CASE Intercept
  BY <1>5, <1>9, <1>12 DEF Intercept, Statuses
<1>13. CASE RescueFails
  BY <1>5, <1>10, <1>13 DEF RescueFails
<1>14. CASE ClientLeaves
  BY <1>5, <1>9, <1>14 DEF ClientLeaves, Statuses
<1>15. CASE UNCHANGED vars
  BY <1>15 DEF vars, ReportInv, WholeUsagesAreRewritten, Reported, Subtract
<1> QED
  BY <1>1, <1>2, <1>3, <1>4, <1>6, <1>7, <1>8, <1>11, <1>12, <1>13, <1>14, <1>15
     DEF Next, Handle, Disturb

\* A client that gets a whole answer is told, of every usage that came in one
\* piece, the provider's count less all that this request freed, and never
\* more than the cap (counter_compact/usage_rewrite.py).
THEOREM UsageIsTold == Spec => []UsageIsReported
<1>1. Init => ReportInv
  BY DEF Init, ReportInv
<1>2. Fields /\ ReportInv => UsageIsReported
  <2> SUFFICES ASSUME Fields, ReportInv, pc = "done", answer \in Statuses, ~mode.passive
               PROVE  UsageIsReported
    BY DEF UsageIsReported
  <2>1. mode.cap \in Nat /\ freed \in Nat /\ evicted \in Nat
    <3>1. Caps \subseteq Nat /\ MaxIds \in Nat
      BY ExchangeAssumption
    <3>2. mode.cap \in Caps
      BY DEF Fields, Mode
    <3>3. mode.cap \in Nat
      BY <3>1, <3>2, Zenon
    <3> QED BY <3>1, <3>3 DEF Fields
  <2>2. \A u \in rewritten : u.real \in Nat /\ u.told = Reported(u.real)
    BY DEF ReportInv
  <2>3. ASSUME NEW u \in rewritten
        PROVE  LET least == u.real - (freed + evicted)
               IN  /\ \/ u.told = mode.cap /\ mode.cap <= least
                      \/ u.told = least
                      \/ u.told = 1 /\ least < 1
                   /\ mode.cap > 0 => u.told <= mode.cap
    BY <2>1, <2>2 DEF Reported, Subtract
  <2>4. WholeUsagesAreRewritten
    BY DEF ReportInv
  <2>5. freed + evicted > 0 => Subtract > 0
    BY <2>1 DEF Subtract
  <2> QED BY <2>3, <2>4, <2>5 DEF UsageIsReported, WholeUsagesAreRewritten
<1> QED
  BY <1>1, <1>2, StreamInitially, StreamStep, ReportStep, Invariance, PTL DEF Spec

---------------------------------------------------------------------------
(* What Filtered computes, by its recursion and the least number for which *)
(* a statement about it would fail.                                        *)

LEMMA LeastNumber ==
    ASSUME NEW Bad, Bad \subseteq Nat, Bad # {}
    PROVE  \E n \in Bad : \A k \in Bad : ~(k < n)
<1>1. \E n \in Bad : \A k \in Bad : ~(<<k, n>> \in OpToRel(<, Nat))
  BY NatLessThanWellFounded, WFMin
<1> QED BY <1>1 DEF OpToRel

\* The n-th part, from the one before it.
NextPart(f, s, S, n) ==
    IF n = 0 THEN <<>>
    ELSE IF s[n] \in S THEN Append(f[n - 1], s[n]) ELSE f[n - 1]

AreParts(f, s, S) ==
    /\ f = [n \in 0..Len(s) |-> f[n]]
    /\ \A n \in 0..Len(s) : f[n] = NextPart(f, s, S, n)

LEMMA PartsExist ==
    ASSUME NEW s, Len(s) \in Nat, NEW S
    PROVE  \E f : AreParts(f, s, S)
<1> DEFINE Upto(f, m) ==
             /\ f = [n \in 0..Len(s) |-> f[n]]
             /\ \A n \in 0..Len(s) : n <= m => f[n] = NextPart(f, s, S, n)
           Bad == {m \in Nat : ~\E f : Upto(f, m)}
<1>1. \E f : Upto(f, 0)
  <2> DEFINE empty == [n \in 0..Len(s) |-> <<>>]
  <2>1. Upto(empty, 0)
    BY DEF NextPart
  <2> HIDE DEF empty
  <2> QED BY <2>1
<1>2. ASSUME NEW m \in Nat, NEW f, Upto(f, m)
      PROVE  \E g : Upto(g, m + 1)
  <2> DEFINE g == [n \in 0..Len(s) |-> NextPart(f, s, S, n)]
  <2>1. ASSUME NEW n \in 0..Len(s), n <= m + 1
        PROVE  g[n] = NextPart(g, s, S, n)
    <3>1. CASE n = 0
      BY <3>1 DEF NextPart
    <3>2. CASE n # 0
      <4>1. n - 1 \in 0..Len(s) /\ n - 1 <= m
        BY <2>1, <3>2
      <4>2. g[n - 1] = f[n - 1]
        BY <1>2, <4>1
      <4> QED BY <3>2, <4>2 DEF NextPart
    <3> QED BY <3>1, <3>2
  <2>2. g = [n \in 0..Len(s) |-> g[n]]
    OBVIOUS
  <2> HIDE DEF g
  <2> QED BY <2>1, <2>2
<1> HIDE DEF Upto
<1>3. Bad = {}
  <2> SUFFICES ASSUME Bad # {} PROVE FALSE
    OBVIOUS
  <2>1. PICK m \in Bad : \A k \in Bad : ~(k < m)
    BY LeastNumber
  <2>2. m # 0
    BY <1>1
  <2>3. m - 1 \in Nat /\ m - 1 \notin Bad
    BY <2>1, <2>2
  <2> QED BY <1>2, <2>3
<1>4. PICK f : Upto(f, Len(s))
  BY <1>3
<1>5. AreParts(f, s, S)
  BY <1>4 DEF Upto, AreParts
<1> QED BY <1>5

LEMMA FilteredIsPart ==
    ASSUME NEW s, Len(s) \in Nat, NEW S
    PROVE  \E f : AreParts(f, s, S) /\ Filtered(s, S) = f[Len(s)]
<1> DEFINE Equation(f) ==
             f = [n \in 0..Len(s) |->
                    IF n = 0 THEN <<>>
                    ELSE IF s[n] \in S THEN Append(f[n - 1], s[n]) ELSE f[n - 1]]
           upTo == CHOOSE f : Equation(f)
<1>1. PICK f : AreParts(f, s, S)
  BY PartsExist
<1>2. Equation(f)
  BY <1>1 DEF AreParts, NextPart
<1>3. Filtered(s, S) = upTo[Len(s)]
  BY DEF Filtered
<1>4. Equation(upTo)
  <2> HIDE DEF Equation
  <2> QED BY <1>2
<1>5. \A g : Equation(g) => AreParts(g, s, S)
  <2> SUFFICES ASSUME NEW g, Equation(g) PROVE AreParts(g, s, S)
    OBVIOUS
  <2>1. g = [n \in 0..Len(s) |-> NextPart(g, s, S, n)]
    BY Zenon DEF NextPart
  <2> HIDE DEF Equation
  <2>2. \A n \in 0..Len(s) : g[n] = NextPart(g, s, S, n)
    BY <2>1, Zenon
  <2>3. g = [n \in 0..Len(s) |-> g[n]]
    BY <2>1, Zenon
  <2> QED BY <2>2, <2>3 DEF AreParts
<1> HIDE DEF upTo, Equation
<1> QED BY <1>3, <1>4, <1>5

LEMMA FilteredEmpty == \A S : Filtered(<<>>, S) = <<>>
<1> SUFFICES ASSUME NEW S PROVE Filtered(<<>>, S) = <<>>
  OBVIOUS
<1>1. Len(<<>>) = 0
  OBVIOUS
<1>2. PICK f : AreParts(f, <<>>, S) /\ Filtered(<<>>, S) = f[0]
  BY <1>1, FilteredIsPart
<1> QED BY <1>1, <1>2 DEF AreParts, NextPart

\* Parts of a sequence and of one that begins with it agree as far as it goes.
LEMMA PartsAgree ==
    ASSUME NEW s, NEW t, NEW S, Len(s) \in Nat, Len(t) \in Nat, Len(s) <= Len(t),
           \A n \in 1..Len(s) : s[n] = t[n],
           NEW f, AreParts(f, s, S), NEW g, AreParts(g, t, S)
    PROVE  \A n \in 0..Len(s) : f[n] = g[n]
<1> DEFINE Bad == {n \in 0..Len(s) : f[n] # g[n]}
<1> SUFFICES ASSUME Bad # {} PROVE FALSE
  OBVIOUS
<1>1. PICK n \in Bad : \A k \in Bad : ~(k < n)
  <2>1. Bad \subseteq Nat
    OBVIOUS
  <2> HIDE DEF Bad
  <2> QED BY <2>1, LeastNumber
<1>2. f[n] = NextPart(f, s, S, n) /\ g[n] = NextPart(g, t, S, n)
  BY <1>1 DEF AreParts
<1>3. n # 0
  BY <1>1, <1>2 DEF NextPart
<1>4. n - 1 \in 0..Len(s) /\ n - 1 \notin Bad /\ n \in 1..Len(s)
  BY <1>1, <1>3
<1>5. f[n - 1] = g[n - 1] /\ s[n] = t[n]
  BY <1>4
<1> QED BY <1>1, <1>2, <1>3, <1>5 DEF NextPart

LEMMA FilteredAppend ==
    ASSUME NEW T, NEW s \in Seq(T), NEW e \in T, NEW S
    PROVE  Filtered(Append(s, e), S) =
               IF e \in S THEN Append(Filtered(s, S), e) ELSE Filtered(s, S)
<1> DEFINE t == Append(s, e)
<1>1. /\ Len(s) \in Nat /\ Len(t) = Len(s) + 1 /\ t[Len(s) + 1] = e
      /\ \A n \in 1..Len(s) : s[n] = t[n]
  BY AppendProperties
<1> HIDE DEF t
<1>2. PICK f : AreParts(f, s, S) /\ Filtered(s, S) = f[Len(s)]
  BY <1>1, FilteredIsPart
<1>3. PICK g : AreParts(g, t, S) /\ Filtered(t, S) = g[Len(t)]
  BY <1>1, FilteredIsPart
<1>4. f[Len(s)] = g[Len(s)]
  <2>1. Len(t) \in Nat /\ Len(s) <= Len(t) /\ Len(s) \in 0..Len(s)
    BY <1>1
  <2>2. \A n \in 0..Len(s) : f[n] = g[n]
    <3>1. AreParts(f, s, S) /\ AreParts(g, t, S) /\ Len(s) \in Nat
          /\ \A n \in 1..Len(s) : s[n] = t[n]
      BY <1>1, <1>2, <1>3
    <3> QED BY <2>1, <3>1, PartsAgree
  <2> QED BY <2>1, <2>2
<1>5. g[Len(t)] = NextPart(g, t, S, Len(t))
  BY <1>1, <1>3 DEF AreParts
<1>6. Len(t) # 0 /\ Len(t) - 1 = Len(s)
  BY <1>1
<1>7. NextPart(g, t, S, Len(t)) = IF e \in S THEN Append(g[Len(s)], e) ELSE g[Len(s)]
  BY <1>1, <1>6 DEF NextPart
<1> QED BY <1>2, <1>3, <1>4, <1>5, <1>7 DEF t

LEMMA FilteredType ==
    ASSUME NEW T, NEW s \in Seq(T), NEW S
    PROVE  Filtered(s, S) \in Seq(T)
<1>1. Len(s) \in Nat /\ \A n \in 1..Len(s) : s[n] \in T
  BY ElementOfSeq
<1>2. PICK f : AreParts(f, s, S) /\ Filtered(s, S) = f[Len(s)]
  BY <1>1, FilteredIsPart
<1> DEFINE Bad == {n \in 0..Len(s) : f[n] \notin Seq(T)}
<1>3. Bad = {}
  <2> SUFFICES ASSUME Bad # {} PROVE FALSE
    OBVIOUS
  <2>1. PICK n \in Bad : \A k \in Bad : ~(k < n)
    <3>1. Bad \subseteq Nat
      OBVIOUS
    <3> HIDE DEF Bad
    <3> QED BY <3>1, LeastNumber
  <2>2. f[n] = NextPart(f, s, S, n)
    BY <1>2, <2>1 DEF AreParts
  <2>3. n # 0
    BY <2>1, <2>2, EmptySeq DEF NextPart
  <2>4. n - 1 \in 0..Len(s) /\ n - 1 \notin Bad /\ s[n] \in T
    BY <1>1, <2>1, <2>3
  <2>5. f[n - 1] \in Seq(T)
    BY <2>4
  <2>6. Append(f[n - 1], s[n]) \in Seq(T)
    BY <2>4, <2>5, AppendProperties
  <2> QED BY <2>1, <2>2, <2>3, <2>5, <2>6 DEF NextPart
<1>4. Len(s) \in 0..Len(s)
  BY <1>1
<1> QED BY <1>2, <1>3, <1>4

\* What follows and is all in S stays.
LEMMA FilteredConcat ==
    ASSUME NEW T, NEW s \in Seq(T), NEW t \in Seq(T), NEW S, \A i \in 1..Len(t) : t[i] \in S
    PROVE  Filtered(s \o t, S) = Filtered(s, S) \o t
<1> DEFINE first(n) == SubSeq(t, 1, n)
           Bad == {n \in 0..Len(t) : Filtered(s \o first(n), S) # Filtered(s, S) \o first(n)}
<1>1. Len(t) \in Nat /\ \A n \in 1..Len(t) : t[n] \in T
  BY ElementOfSeq
<1>2. Filtered(s, S) \in Seq(T)
  BY FilteredType
<1>3. Bad = {}
  <2> SUFFICES ASSUME Bad # {} PROVE FALSE
    OBVIOUS
  <2>1. PICK n \in Bad : \A k \in Bad : ~(k < n)
    <3>1. Bad \subseteq Nat
      OBVIOUS
    <3> HIDE DEF Bad
    <3> QED BY <3>1, LeastNumber
  <2>2. n # 0
    <3> SUFFICES ASSUME n = 0 PROVE FALSE
      OBVIOUS
    <3>1. first(n) = <<>>
      BY SubSeqEmpty
    <3>2. s \o <<>> = s /\ Filtered(s, S) \o <<>> = Filtered(s, S)
      BY <1>2, ConcatEmptySeq
    <3> QED BY <2>1, <3>1, <3>2
  <2>3. n - 1 \in 0..Len(t) /\ n - 1 \notin Bad /\ n \in 1..Len(t)
    BY <1>1, <2>1, <2>2
  <2>4. Filtered(s \o first(n - 1), S) = Filtered(s, S) \o first(n - 1)
    BY <2>3
  <2> DEFINE u == first(n - 1)
             e == t[n]
  <2>5. first(n) = u \o <<e>>
    <3>1. 1 \in 1..Len(t) /\ n \in 1..Len(t)
      BY <2>3
    <3> QED BY <3>1, SubSeqRecursiveSecond
  <2>6. u \in Seq(T) /\ e \in T /\ e \in S
    <3>1. \A i \in 1..(n - 1) : t[i] \in T
      BY <1>1, <2>3
    <3>2. n - 1 \in Int /\ 1 \in Int
      BY <2>3
    <3> QED BY <1>1, <2>3, <3>1, <3>2, SubSeqProperties
  <2>7. Bad = Bad /\ Filtered(s \o first(n), S) # Filtered(s, S) \o first(n)
    BY <2>1
  <2> HIDE DEF u, e, first, Bad
  <2>8. \A v \in Seq(T) : v \o (u \o <<e>>) = Append(v \o u, e)
    <3> SUFFICES ASSUME NEW v \in Seq(T) PROVE v \o (u \o <<e>>) = Append(v \o u, e)
      OBVIOUS
    <3>1. <<e>> \in Seq(T)
      BY <2>6
    <3>2. v \o (u \o <<e>>) = (v \o u) \o <<e>>
      BY <2>6, <3>1, ConcatAssociative
    <3>3. v \o u \in Seq(T)
      BY <2>6, ConcatProperties
    <3> QED BY <2>6, <3>2, <3>3, AppendIsConcat
  <2>9. s \o u \in Seq(T)
    BY <2>6, ConcatProperties
  <2>10. Filtered(Append(s \o u, e), S) = Append(Filtered(s \o u, S), e)
    <3> DEFINE v == s \o u
    <3> SUFFICES Filtered(Append(v, e), S) = Append(Filtered(v, S), e)
      OBVIOUS
    <3>1. v \in Seq(T)
      BY <2>9
    <3> HIDE DEF v
    <3>2. Filtered(Append(v, e), S) = IF e \in S THEN Append(Filtered(v, S), e) ELSE Filtered(v, S)
      BY <2>6, <3>1, FilteredAppend
    <3> QED BY <2>6, <3>2
  <2>11. Filtered(s \o u, S) = Filtered(s, S) \o u
    BY <2>4 DEF u
  <2> QED BY <1>2, <2>5, <2>7, <2>8, <2>10, <2>11
<1>4. Len(t) \in 0..Len(t) /\ first(Len(t)) = t
  BY <1>1, SubSeqFull
<1> QED BY <1>3, <1>4

---------------------------------------------------------------------------
(* Streaming *)

BeforeStream == BeforeCall \union {"fallback", "reopen", "serve"}

NoBanner(s) == \A i \in DOMAIN s : s[i].event > 0

\* What has been kept is in tail_buffer, in order, and what has been passed on
\* has been sent; the buffer follows when its usages have been rewritten, and
\* only a request that has come so far is finished.
BodyInv ==
    /\ sent \in Seq(Chunk)
    /\ NoBanner(coming) /\ NoBanner(tail)
    /\ tail = Kept
    /\ pc \in BeforeStream => sink = <<>> /\ sent = <<>>
    /\ pc \notin {"finish", "done"} => FromUpstream = Passed
    /\ mode.stream /\ ~mode.passive =>
        /\ pc = "finish" => FromUpstream = Passed \o Kept
        /\ pc = "done" => FromUpstream \in {Passed, Passed \o Kept}
        /\ pc = "done" /\ ~gone /\ answer = status => FromUpstream = Passed \o Kept

LEMMA BannerIsChunk == Banner \in Chunk /\ ~(Banner.event > 0)
BY DEF Banner, Chunk

LEMMA BodyInitially == Init => BodyInv
<1> SUFFICES ASSUME Init PROVE BodyInv
  OBVIOUS
<1>1. /\ sent = <<>> /\ coming = <<>> /\ sink = <<>> /\ tail = <<>> /\ pc = "arrived"
  BY DEF Init
<1>2. Kept = <<>> /\ Passed = <<>> /\ FromUpstream = <<>>
  BY <1>1, FilteredEmpty DEF Kept, Passed, FromUpstream
<1> QED BY <1>1, <1>2, EmptySeq DEF BodyInv, NoBanner

\* Where nothing of the stream moves, only the end of the request matters.
LEMMA BodyStays ==
    ASSUME BodyInv, UNCHANGED <<mode, sink, sent, tail>>, NoBanner(coming)',
           pc' \in BeforeStream => pc \in BeforeStream,
           pc' \notin {"finish", "done"} => pc \notin {"finish", "done"},
           mode.stream /\ ~mode.passive =>
               /\ pc' = "finish" => pc = "finish"
               /\ pc' = "done" /\ ~gone' /\ answer' = status' =>
                      pc = "finish" \/ (pc = "done" /\ ~gone /\ answer = status)
    PROVE  BodyInv'
<1>1. Kept' = Kept /\ Passed' = Passed /\ FromUpstream' = FromUpstream
  BY DEF Kept, Passed, FromUpstream, IsKept
<1>2. pc \notin {"finish", "done"} \/ pc = "finish" \/ pc = "done"
  OBVIOUS
<1>3. mode.stream /\ ~mode.passive => FromUpstream \in {Passed, Passed \o Kept}
  BY <1>2 DEF BodyInv
<1>4. NoBanner(tail)' /\ sent' \in Seq(Chunk) /\ tail' = Kept'
  BY <1>1 DEF BodyInv, NoBanner
<1> QED BY <1>1, <1>3, <1>4 DEF BodyInv

LEMMA ServeStreamBody ==
    ASSUME BodyInv, ServeStream
    PROVE  BodyInv'
<1>1. /\ coming' \in Bodies /\ pc = "serve" /\ pc' = "stream"
      /\ sent' = IF model = "fallback" THEN <<Banner>> ELSE <<>>
      /\ UNCHANGED <<mode, sink, tail>>
  BY DEF ServeStream
<1>2. NoBanner(coming)'
  BY <1>1, ExchangeAssumption DEF NoBanner
<1>3. FromUpstream = <<>> /\ FromUpstream = Passed
  BY <1>1, FilteredEmpty DEF BodyInv, BeforeStream, FromUpstream
<1>4. FromUpstream' = <<>> /\ sent' \in Seq(Chunk)
  <2>1. CASE sent' = <<>>
    BY <2>1, FilteredEmpty, EmptySeq DEF FromUpstream
  <2>2. CASE sent' = <<Banner>>
    <3>1. <<Banner>> = Append(<<>>, Banner) /\ <<>> \in Seq(Chunk) /\ <<Banner>> \in Seq(Chunk)
      BY BannerIsChunk
    <3>2. Filtered(Append(<<>>, Banner), Chunk \ {Banner}) = Filtered(<<>>, Chunk \ {Banner})
      BY <3>1, BannerIsChunk, FilteredAppend
    <3>3. FromUpstream' = Filtered(<<>>, Chunk \ {Banner})
      BY <2>2, <3>1, <3>2 DEF FromUpstream
    <3> QED BY <2>2, <3>1, <3>3, FilteredEmpty
  <2> QED BY <1>1, <2>1, <2>2
<1>5. Kept' = Kept /\ Passed' = Passed
  BY <1>1 DEF Kept, Passed, IsKept
<1> QED BY <1>1, <1>2, <1>3, <1>4, <1>5 DEF BodyInv, NoBanner, BeforeStream, BeforeCall

LEMMA PassOrKeepBody ==
    ASSUME Fields, StreamInv, BodyInv, PassOrKeep
    PROVE  BodyInv'
<1> DEFINE c == Head(coming)
<1>1. /\ pc = "stream" /\ pc' = "stream" /\ mode' = mode /\ coming # <<>>
      /\ coming' = Tail(coming) /\ sink' = Append(sink, c)
      /\ IF IsKept(c) THEN tail' = Append(tail, c) /\ sent' = sent
                      ELSE sent' = Append(sent, c) /\ tail' = tail
  BY DEF PassOrKeep
<1>2. coming \in Seq(Chunk) /\ sink \in Seq(Chunk) /\ tail \in Seq(Chunk) /\ sent \in Seq(Chunk)
  BY DEF StreamInv, BodyInv
<1>3. c = coming[1] /\ c \in Chunk /\ 1 \in DOMAIN coming
  BY <1>1, <1>2
<1>4. c.event > 0 /\ c # Banner
  BY <1>3, BannerIsChunk DEF BodyInv, NoBanner
<1>5. NoBanner(coming)'
  <2>1. \A i \in DOMAIN Tail(coming) : i + 1 \in DOMAIN coming /\ Tail(coming)[i] = coming[i + 1]
    BY <1>1, <1>2, HeadTailProperties
  <2> QED BY <1>1, <2>1 DEF BodyInv, NoBanner
<1> HIDE DEF c
<1>6. NoBanner(Append(tail, c))
  <2>1. \A i \in DOMAIN Append(tail, c) :
            \/ i \in DOMAIN tail /\ Append(tail, c)[i] = tail[i]
            \/ Append(tail, c)[i] = c
    BY <1>2, <1>3, AppendProperties
  <2> QED BY <1>4, <2>1 DEF BodyInv, NoBanner
<1> DEFINE K == {d \in Chunk : IsKept(d)}
           P == {d \in Chunk : ~IsKept(d)}
           U == Chunk \ {Banner}
<1>7. (c \in K <=> IsKept(c)) /\ (c \in P <=> ~IsKept(c)) /\ c \in U
  BY <1>3, <1>4
<1>8. /\ Kept = Filtered(sink, K) /\ Kept' = Filtered(sink', K)
      /\ Passed = Filtered(sink, P) /\ Passed' = Filtered(sink', P)
      /\ FromUpstream = Filtered(sent, U) /\ FromUpstream' = Filtered(sent', U)
  BY <1>1 DEF Kept, Passed, FromUpstream, IsKept
<1> HIDE DEF K, P, U
<1>9. /\ Kept' = IF IsKept(c) THEN Append(Kept, c) ELSE Kept
      /\ Passed' = IF IsKept(c) THEN Passed ELSE Append(Passed, c)
  <2>1. \A S : Filtered(Append(sink, c), S) =
                   IF c \in S THEN Append(Filtered(sink, S), c) ELSE Filtered(sink, S)
    BY <1>2, <1>3, FilteredAppend
  <2>2. /\ Filtered(Append(sink, c), K) = IF c \in K THEN Append(Kept, c) ELSE Kept
        /\ Filtered(Append(sink, c), P) = IF c \in P THEN Append(Passed, c) ELSE Passed
    BY <1>8, <2>1, Zenon
  <2>3. Kept' = Filtered(Append(sink, c), K) /\ Passed' = Filtered(Append(sink, c), P)
    BY <1>1, <1>8, Zenon
  <2> QED BY <1>7, <2>2, <2>3, Zenon
<1>10. Filtered(Append(sent, c), U) = Append(FromUpstream, c)
  <2>1. Filtered(Append(sent, c), U) =
            IF c \in U THEN Append(Filtered(sent, U), c) ELSE Filtered(sent, U)
    BY <1>2, <1>3, FilteredAppend
  <2> QED BY <1>7, <1>8, <2>1, Zenon
<1>11. FromUpstream = Passed /\ tail = Kept
  BY <1>1 DEF BodyInv
<1>12. sent' \in Seq(Chunk)
  <2>1. Append(sent, c) \in Seq(Chunk)
    BY <1>2, <1>3, AppendProperties
  <2>2. sent' = sent \/ sent' = Append(sent, c)
    BY <1>1
  <2> QED BY <1>2, <2>1, <2>2, Zenon
<1>13. CASE IsKept(c)
  <2>1. tail' = Append(tail, c) /\ sent' = sent
    BY <1>1, <1>13
  <2>2. tail' = Kept' /\ FromUpstream' = Passed' /\ NoBanner(tail)'
    BY <1>6, <1>8, <1>9, <1>11, <1>13, <2>1 DEF NoBanner
  <2> QED BY <1>1, <1>5, <1>12, <2>2 DEF BodyInv, BeforeStream, BeforeCall
<1>14. CASE ~IsKept(c)
  <2>1. tail' = tail /\ sent' = Append(sent, c)
    BY <1>1, <1>14
  <2>2. tail' = Kept' /\ FromUpstream' = Passed' /\ NoBanner(tail)'
    BY <1>8, <1>9, <1>10, <1>11, <1>14, <2>1 DEF NoBanner, BodyInv
  <2> QED BY <1>1, <1>5, <1>12, <2>2 DEF BodyInv, BeforeStream, BeforeCall
<1> QED BY <1>13, <1>14

LEMMA RewriteStreamBody ==
    ASSUME Fields, StreamInv, BodyInv, RewriteStream
    PROVE  BodyInv'
<1>1. /\ pc = "rewrite" /\ UNCHANGED <<mode, coming, sink, tail, gone, status>>
      /\ IF gone /\ tail # <<>> THEN Raise /\ sent' = sent
                                ELSE sent' = sent \o tail /\ pc' = "finish"
  BY DEF RewriteStream
<1>2. NoBanner(coming)' /\ NoBanner(tail)'
  BY <1>1 DEF BodyInv, NoBanner
<1>3. Kept' = Kept /\ Passed' = Passed
  BY <1>1 DEF Kept, Passed, IsKept
<1>4. FromUpstream = Passed /\ tail = Kept /\ sent \in Seq(Chunk) /\ tail \in Seq(Chunk)
  BY <1>1 DEF BodyInv, StreamInv
<1>5. CASE gone /\ tail # <<>>
  <2>1. pc' = "done" /\ sent' = sent /\ gone'
    BY <1>1, <1>5 DEF Raise
  <2>2. FromUpstream' = FromUpstream
    BY <2>1 DEF FromUpstream
  <2> QED BY <1>1, <1>2, <1>3, <1>4, <2>1, <2>2 DEF BodyInv, BeforeStream, BeforeCall
<1>6. CASE ~(gone /\ tail # <<>>)
  <2>1. sent' = sent \o tail /\ pc' = "finish"
    BY <1>1, <1>6
  <2>2. \A i \in 1..Len(tail) : tail[i] \in Chunk \ {Banner}
    <3>1. \A i \in 1..Len(tail) : i \in DOMAIN tail /\ tail[i] \in Chunk
      BY <1>4, ElementOfSeq, LenProperties
    <3> QED BY <3>1, BannerIsChunk DEF BodyInv, NoBanner
  <2>3. Filtered(sent \o tail, Chunk \ {Banner}) = Filtered(sent, Chunk \ {Banner}) \o tail
    BY <1>4, <2>2, FilteredConcat
  <2>4. FromUpstream' = Passed' \o Kept'
    BY <1>3, <1>4, <2>1, <2>3 DEF FromUpstream
  <2>5. sent' \in Seq(Chunk)
    BY <1>4, <2>1, ConcatProperties
  <2> QED BY <1>1, <1>2, <1>3, <1>4, <2>1, <2>4, <2>5 DEF BodyInv, BeforeStream, BeforeCall
<1> QED BY <1>5, <1>6

LEMMA BodyStep == Fields /\ StreamInv /\ BodyInv /\ [Next]_vars => BodyInv'
<1> SUFFICES ASSUME Fields, StreamInv, BodyInv, [Next]_vars PROVE BodyInv'
  OBVIOUS
<1>1. CASE ServeStream \/ PassOrKeep \/ RewriteStream
  BY <1>1, ServeStreamBody, PassOrKeepBody, RewriteStreamBody
<1>2. ASSUME UNCHANGED <<mode, coming, sink, sent, tail>>,
             pc' \in BeforeStream => pc \in BeforeStream,
             pc' \notin {"finish", "done"} => pc \notin {"finish", "done"},
             pc' = "finish" => ~mode.stream \/ pc = "finish",
             pc' = "done" => \/ pc = "finish" \/ gone' \/ answer' # status' \/ mode.passive
                             \/ pc = "done" /\ ~gone /\ answer = status
      PROVE  BodyInv'
  BY <1>2, BodyStays DEF BodyInv, NoBanner
<1>3. Raise => pc' = "done" /\ answer' \notin Statuses \union {"none"}
  BY DEF Raise, Statuses
<1> USE DEF BeforeStream, BeforeCall
<1>4. CASE Intercept \/ Rescue \/ Evict \/ Retrieve
  BY <1>2, <1>4 DEF Intercept, Rescue, Evict, Retrieve, Fields, Statuses
<1>5. CASE Call \/ Fallback \/ Reopen
  BY <1>2, <1>5 DEF Call, Fallback, Reopen
<1>6. CASE ServeJson \/ EndOfStream \/ Close \/ PostEvict
  BY <1>2, <1>6 DEF ServeJson, EndOfStream, Close, PostEvict
<1>7. CASE NameError \/ RewriteJson \/ Finish
  BY <1>2, <1>3, <1>7 DEF NameError, RewriteJson, Finish, Ends
<1>8. CASE RescueFails \/ EvictFails \/ CallFails
  BY <1>2, <1>3, <1>8 DEF RescueFails, EvictFails, CallFails, Fields
<1>9. CASE NotJson \/ UpstreamBreaks \/ PostEvictFails
  BY <1>2, <1>3, <1>9 DEF NotJson, UpstreamBreaks, PostEvictFails, Fields
<1>10. CASE ClientLeaves
  BY <1>2, <1>10 DEF ClientLeaves
<1>11. CASE UNCHANGED vars
  BY <1>2, <1>11 DEF vars
<1> QED
  BY <1>1, <1>4, <1>5, <1>6, <1>7, <1>8, <1>9, <1>10, <1>11 DEF Next, Handle, Disturb

\* A client that stays is sent all of the stream, once and in order but for the
\* chunks with a usage, which come last, even if the upstream breaks off; one
\* that leaves has been sent a prefix of it (proxy/app.py, the generator of
\* _handle_request).
THEOREM StreamIsWhole == Spec => []StreamIsComplete
<1>1. StreamInv /\ BodyInv => StreamIsComplete
  <2> SUFFICES ASSUME StreamInv, BodyInv, mode.stream, ~mode.passive
               PROVE  /\ IsPrefix(Passed, FromUpstream)
                      /\ ~gone /\ (pc = "finish" \/ (pc = "done" /\ answer = status)) =>
                            FromUpstream = Passed \o Kept
    BY DEF StreamIsComplete
  <2>1. Passed \in Seq(Chunk) /\ Kept \in Seq(Chunk)
    BY FilteredType DEF Passed, Kept, StreamInv
  <2>2. FromUpstream \in {Passed, Passed \o Kept}
    BY DEF BodyInv
  <2>3. IsPrefix(Passed, Passed)
    BY <2>1 DEF IsPrefix
  <2>4. IsPrefix(Passed, Passed \o Kept)
    <3> DEFINE p == Passed
               k == Kept
    <3>1. p \in Seq(Chunk) /\ k \in Seq(Chunk)
      BY <2>1
    <3> HIDE DEF p, k
    <3>2. Len(p) <= Len(p \o k)
      BY <3>1, ConcatProperties, LenProperties
    <3>3. SubSeq(p \o k, 1, Len(p)) = SubSeq(p, 1, Len(p))
      <4>1. CASE Len(p) = 0
        BY <3>1, <4>1, SubSeqEmpty
      <4>2. CASE Len(p) # 0
        <5>1. 1 \in 1..Len(p) /\ Len(p) \in 1..Len(p)
          BY <3>1, <4>2, LenProperties
        <5> QED BY <3>1, <5>1, SubSeqOfConcat1
      <4> QED BY <4>1, <4>2
    <3> QED BY <3>2, <3>3 DEF IsPrefix, p, k
  <2>5. ~gone /\ (pc = "finish" \/ (pc = "done" /\ answer = status)) =>
            FromUpstream = Passed \o Kept
    BY DEF BodyInv
  <2> QED BY <2>2, <2>3, <2>4, <2>5
<1> QED
  BY <1>1, BodyInitially, BodyStep, StreamInitially, StreamStep, Invariance, PTL DEF Spec

ProgressOK ==
    /\ pc \in BeforeStream \union {"stream", "close", "post_evict", "rewrite", "finish", "done"}
    /\ answer \in Statuses \union {"none", "intercepted", "error", "broken"}
    /\ counted \in 0..1

LEMMA ProgressStep == Fields /\ CountInv /\ ProgressOK /\ [Next]_vars => ProgressOK'
<1> SUFFICES ASSUME Fields, CountInv, ProgressOK, [Next]_vars PROVE ProgressOK'
  OBVIOUS
<1> USE DEF ProgressOK, BeforeStream, BeforeCall
<1>1. CASE Intercept \/ Rescue \/ Evict \/ Retrieve \/ Call \/ Fallback \/ Reopen
  BY <1>1 DEF Intercept, Rescue, Evict, Retrieve, Call, Fallback, Reopen
<1>2. CASE ServeJson \/ PassOrKeep \/ EndOfStream \/ Close \/ PostEvict \/ RewriteJson
  BY <1>2 DEF ServeJson, PassOrKeep, EndOfStream, Close, PostEvict, RewriteJson
<1>3. CASE ServeStream
  BY <1>3 DEF ServeStream, Fields
<1>4. CASE NameError \/ RewriteStream \/ RescueFails \/ EvictFails \/ CallFails
  BY <1>4 DEF NameError, RewriteStream, RescueFails, EvictFails, CallFails, Raise
<1>5. CASE NotJson \/ Finish
  BY <1>5 DEF NotJson, Finish, Ends, CountInv, Raise, Fields
<1>6. CASE UpstreamBreaks \/ ClientLeaves \/ PostEvictFails
  BY <1>6 DEF UpstreamBreaks, ClientLeaves, PostEvictFails, Raise
<1>7. CASE UNCHANGED vars
  BY <1>7 DEF vars
<1> QED
  BY <1>1, <1>2, <1>3, <1>4, <1>5, <1>6, <1>7 DEF Next, Handle, Disturb

---------------------------------------------------------------------------
(* The request as the client sees it *)

Answering == {"serve", "stream", "close", "post_evict", "rewrite", "finish"}
Offered == UNION {ToSet(b) : b \in Bodies}

\* Who is answered by whom, and how far; only a stream has been answered before
\* it is over; and what is still to come is of the upstream's body.
PromiseInv ==
    /\ pc \in Answering \union {"fallback", "reopen"} => Len(calls) > 0 /\ status \in Statuses
    /\ pc = "serve" /\ mode.stream => (model = "fallback" <=> Len(calls) = 2)
    /\ pc \in BeforeStream \/ (pc # "done" /\ ~mode.stream) => answer = "none"
    /\ pc \in Answering \ {"serve"} /\ mode.stream => answer = status
    /\ pc \in {"stream", "close"} => mode.stream
    /\ ~mode.stream => ~cut /\ ~gone
    /\ \A i \in DOMAIN coming : coming[i] \in Offered

LEMMA OneCallMore ==
    ASSUME CallsInv, NEW m \in Models, calls' = Append(calls, m)
    PROVE  Len(calls') = Len(calls) + 1
<1>1. calls \in Seq(Models)
  BY DEF CallsInv
<1> QED BY <1>1, AppendProperties

LEMMA PromiseInitially == Init => PromiseInv
BY DEF Init, PromiseInv, Answering, BeforeStream, BeforeCall

LEMMA PromiseStep ==
    Fields /\ CallsInv /\ StreamInv /\ ProgressOK /\ PromiseInv /\ [Next]_vars => PromiseInv'
<1> SUFFICES ASSUME Fields, CallsInv, StreamInv, ProgressOK, PromiseInv, [Next]_vars PROVE PromiseInv'
  OBVIOUS
<1> USE DEF PromiseInv, Answering, BeforeStream, BeforeCall
<1>1. CASE Intercept \/ Rescue \/ Evict \/ Retrieve
  BY <1>1 DEF Intercept, Rescue, Evict, Retrieve
<1>2. CASE Call
  <2>1. /\ pc = "call" /\ pc' \in {"fallback", "serve"} /\ status' \in Statuses /\ model' = "primary"
        /\ calls' = Append(calls, "primary") /\ UNCHANGED <<mode, coming, cut, gone, answer>>
    BY <1>2 DEF Call, Reply
  <2>2. Len(calls') = 1
    BY <2>1 DEF CallsInv
  <2> QED BY <2>1, <2>2
<1>3. CASE Fallback
  <2>1. /\ pc = "fallback" /\ calls' = Append(calls, "fallback")
        /\ UNCHANGED <<mode, coming, cut, gone, answer>>
        /\ \/ pc' = "serve" /\ status' = "ok" /\ model' = "fallback"
           \/ /\ pc' = (IF mode.stream THEN "reopen" ELSE "serve")
              /\ status' = status /\ model' = model
    BY <1>3 DEF Fallback, Reply
  <2>2. Len(calls') = 2
    <3>1. Len(calls) = 1 /\ "fallback" \in Models
      BY <2>1 DEF CallsInv, Models
    <3>2. Len(calls') = Len(calls) + 1
      BY <2>1, <3>1, OneCallMore
    <3> QED BY <3>1, <3>2
  <2> QED BY <2>1, <2>2 DEF Statuses
<1>4. CASE Reopen
  <2>1. /\ pc = "reopen" /\ pc' = "serve" /\ status' \in Statuses /\ model' = "primary"
        /\ calls' = Append(calls, "primary") /\ UNCHANGED <<mode, coming, cut, gone, answer>>
    BY <1>4 DEF Reopen, Reply
  <2>2. Len(calls') = 3
    <3>1. Len(calls) = 2 /\ "primary" \in Models
      BY <2>1 DEF CallsInv, Models
    <3>2. Len(calls') = Len(calls) + 1
      BY <2>1, <3>1, OneCallMore
    <3> QED BY <3>1, <3>2
  <2> QED BY <2>1, <2>2
<1>5. CASE ServeJson
  BY <1>5 DEF ServeJson
<1>6. CASE ServeStream
  <2>1. /\ pc = "serve" /\ pc' = "stream" /\ mode.stream /\ answer' = status /\ coming' \in Bodies
        /\ UNCHANGED <<mode, calls, status, model, cut, gone>>
    BY <1>6 DEF ServeStream
  <2>2. \A i \in DOMAIN coming' : coming'[i] \in Offered
    BY <2>1 DEF Offered, ToSet
  <2> QED BY <2>1, <2>2
<1>7. CASE PassOrKeep
  <2>1. /\ coming # <<>> /\ coming \in Seq(Chunk) /\ coming' = Tail(coming)
        /\ UNCHANGED <<mode, pc, calls, status, model, answer, cut, gone>>
    BY <1>7 DEF PassOrKeep, StreamInv
  <2>2. \A i \in DOMAIN Tail(coming) : i + 1 \in DOMAIN coming /\ Tail(coming)[i] = coming[i + 1]
    BY <2>1, HeadTailProperties
  <2>3. \A i \in DOMAIN coming' : coming'[i] \in Offered
    BY <2>1, <2>2
  <2> QED BY <2>1, <2>3
<1>8. CASE EndOfStream \/ Close \/ PostEvict \/ RewriteJson
  BY <1>8 DEF EndOfStream, Close, PostEvict, RewriteJson
<1>9. CASE NameError \/ RewriteStream \/ Finish
  BY <1>9 DEF NameError, RewriteStream, Finish, Ends, Raise
<1>10. CASE RescueFails \/ EvictFails \/ CallFails \/ NotJson
  BY <1>10 DEF RescueFails, EvictFails, CallFails, NotJson, Raise
<1>11. CASE UpstreamBreaks \/ ClientLeaves \/ PostEvictFails
  BY <1>11 DEF UpstreamBreaks, ClientLeaves, PostEvictFails, Raise
<1>12. CASE UNCHANGED vars
  BY <1>12 DEF vars
<1> QED
  BY <1>1, <1>2, <1>3, <1>4, <1>5, <1>6, <1>7, <1>8, <1>9, <1>10, <1>11, <1>12
     DEF Next, Handle, Disturb

LEMMA PromiseBegins == Init => Promise!Init
BY ExchangeAssumption DEF Init, Promise!Init, Phase, Mode

\* A step the client does not see.
Unseen == UNCHANGED <<mode, Phase, calls, answer, sent, tail, counted>>

\* An exception, before the answer and after it.
LEMMA RaiseIsFail ==
    ASSUME ProgressOK, PromiseInv, pc \notin {"finish", "done"}, Raise,
           UNCHANGED <<mode, calls, sent, tail>>,
           \/ counted' = counted
           \/ pc = "serve" /\ ~mode.stream /\ counted' = counted + 1
    PROVE  Promise!Fail
<1>1. Phase' = "over"
  BY DEF Raise, Phase
<1>2. Phase \in {"asking", "relaying"}
      /\ answer' = IF Phase = "asking" THEN "error" ELSE "broken"
  BY DEF Raise, Phase, ProgressOK, PromiseInv, Answering, BeforeStream, BeforeCall, Statuses
<1>3. pc = "serve" /\ ~mode.stream => Phase = "asking" /\ calls # <<>>
  BY DEF Phase, PromiseInv, Answering
<1> QED BY <1>1, <1>2, <1>3 DEF Promise!Fail, Promise!relay

LEMMA RequestStep ==
    ASSUME Fields, CallsInv, StreamInv, BodyInv, CountInv, ProgressOK, PromiseInv, [Next]_vars
    PROVE  Promise!Next \/ Unseen
<1> USE DEF BeforeStream, BeforeCall
<1>1. CASE Intercept
  <2>1. CASE pc' = "rescue" /\ answer' = answer
    BY <1>1, <2>1 DEF Intercept, Unseen, Phase
  <2>2. CASE pc' = "done" /\ answer' = "intercepted"
    <3>1. Phase = "asking" /\ Phase' = "over" /\ calls = <<>>
      BY <1>1, <2>2 DEF Intercept, Phase, CallsInv
    <3>2. Promise!Intercept
      BY <1>1, <2>2, <3>1 DEF Intercept, Promise!Intercept, Promise!relay
    <3> QED BY <3>2 DEF Promise!Next
  <2> QED BY <1>1, <2>1, <2>2 DEF Intercept
<1>2. CASE Rescue \/ Evict \/ EvictFails \/ Retrieve
  BY <1>2 DEF Rescue, Evict, EvictFails, Retrieve, Unseen, Phase
<1>3. CASE Call \/ Fallback \/ Reopen
  <2>1. /\ Phase = "asking" /\ Phase' = "asking"
        /\ UNCHANGED <<mode, answer, sent, tail, counted>>
    BY <1>3 DEF Call, Fallback, Reopen, Reply, Phase
  <2>2. /\ Len(calls) = (IF pc = "call" THEN 0 ELSE IF pc = "fallback" THEN 1 ELSE 2)
        /\ calls' = Append(calls, IF pc = "fallback" THEN "fallback" ELSE "primary")
        /\ pc \in {"call", "fallback", "reopen"} /\ (pc = "reopen" => mode.stream)
    BY <1>3 DEF Call, Fallback, Reopen, Reply, CallsInv
  <2>3. /\ Len(calls) < Len(Promise!Order)
        /\ calls' = Append(calls, Promise!Order[Len(calls) + 1])
    BY <2>2 DEF Promise!Order
  <2>4. Promise!Ask
    BY <2>1, <2>3 DEF Promise!Ask, Promise!relay
  <2> QED BY <2>4 DEF Promise!Next
<1>4. CASE ServeJson
  <2>1. CASE pc' = "post_evict"
    BY <1>4, <2>1 DEF ServeJson, Unseen, Phase
  <2>2. CASE pc' = "finish"
    <3>1. Phase = "asking" /\ Phase' = "concluding" /\ calls # <<>> /\ ~mode.stream
      BY <1>4, <2>2 DEF ServeJson, Phase, PromiseInv, Answering
    <3>2. Promise!Prepare
      BY <1>4, <3>1 DEF ServeJson, Promise!Prepare, Promise!relay
    <3> QED BY <3>2 DEF Promise!Next
  <2> QED BY <1>4, <2>1, <2>2 DEF ServeJson
<1>5. CASE ServeStream
  <2>1. /\ Phase = "asking" /\ Phase' = "relaying" /\ mode.stream /\ mode' = mode /\ calls # <<>>
        /\ answer' = status /\ status \in Statuses
    BY <1>5 DEF ServeStream, Phase, PromiseInv, Answering
  <2>2. sent' = IF Len(calls) = 2 THEN <<Banner>> ELSE <<>>
    BY <1>5 DEF ServeStream, PromiseInv
  <2>3. Promise!Start
    BY <1>5, <2>1, <2>2 DEF ServeStream, Promise!Start
  <2> QED BY <2>3 DEF Promise!Next
<1>6. CASE PassOrKeep
  <2> DEFINE c == Head(coming)
  <2>1. c \in Offered
    <3>1. coming # <<>> /\ coming \in Seq(Chunk)
      BY <1>6 DEF PassOrKeep, StreamInv
    <3>2. c = coming[1] /\ 1 \in DOMAIN coming
      BY <3>1
    <3> QED BY <3>2 DEF PromiseInv
  <2>2. /\ Phase = "relaying" /\ Phase' = "relaying"
        /\ UNCHANGED <<mode, calls, answer, counted>>
        /\ \/ tail' = Append(tail, c) /\ sent' = sent
           \/ sent' = Append(sent, c) /\ tail' = tail
    BY <1>6 DEF PassOrKeep, Phase, PromiseInv
  <2> HIDE DEF c
  <2>3. Promise!Keep(c) \/ Promise!Pass(c)
    BY <2>2 DEF Promise!Keep, Promise!Pass
  <2> QED BY <2>1, <2>3 DEF Promise!Next, Offered
<1>7. CASE EndOfStream \/ Close \/ UpstreamBreaks \/ PostEvict
  <2>1. Phase' = Phase
    BY <1>7 DEF EndOfStream, Close, UpstreamBreaks, PostEvict, Phase, PromiseInv
  <2> QED BY <1>7, <2>1 DEF EndOfStream, Close, UpstreamBreaks, PostEvict, Unseen
<1>8. CASE RewriteJson
  <2>1. Phase = "asking" /\ Phase' = "concluding" /\ calls # <<>> /\ ~mode.stream
    BY <1>8 DEF RewriteJson, Phase, PromiseInv, Answering
  <2>2. Promise!Prepare
    BY <1>8, <2>1 DEF RewriteJson, Promise!Prepare, Promise!relay
  <2> QED BY <2>2 DEF Promise!Next
<1>9. CASE RewriteStream
  <2>1. CASE Raise /\ sent' = sent
    <3>1. Promise!Fail
      BY <1>9, <2>1, RaiseIsFail DEF RewriteStream
    <3> QED BY <3>1 DEF Promise!Next
  <2>2. CASE sent' = sent \o tail /\ pc' = "finish" /\ answer' = answer
    <3>1. Phase = "relaying" /\ Phase' = "concluding"
      BY <1>9, <2>2 DEF RewriteStream, Phase
    <3>2. Promise!Release
      BY <1>9, <2>2, <3>1 DEF RewriteStream, Promise!Release
    <3> QED BY <3>2 DEF Promise!Next
  <2> QED BY <1>9, <2>1, <2>2 DEF RewriteStream
<1>10. CASE Finish
  <2>1. Phase = "concluding" /\ Phase' = "over"
    BY <1>10 DEF Finish, Ends, Phase
  <2>2. answer' \in (IF mode.stream THEN {answer, "broken"} ELSE Statuses)
    BY <1>10 DEF Finish, Ends, PromiseInv, Answering
  <2>3. Promise!Conclude
    BY <1>10, <2>1, <2>2 DEF Finish, Ends, Promise!Conclude, Promise!relay
  <2> QED BY <2>3 DEF Promise!Next
<1>11. CASE RescueFails
  <2>1. CASE pc' = "call" /\ answer' = answer
    BY <1>11, <2>1 DEF RescueFails, Unseen, Phase
  <2>2. CASE Raise
    <3>1. Promise!Fail
      BY <1>11, <2>2, RaiseIsFail DEF RescueFails
    <3> QED BY <3>1 DEF Promise!Next
  <2> QED BY <1>11, <2>1, <2>2 DEF RescueFails
<1>12. CASE NameError \/ CallFails \/ NotJson \/ PostEvictFails
  <2>1. Promise!Fail
    BY <1>12, RaiseIsFail DEF NameError, CallFails, NotJson, PostEvictFails
  <2> QED BY <2>1 DEF Promise!Next
<1>13. CASE ClientLeaves
  <2>1. CASE pc' = "close" /\ answer' = answer
    <3>1. Phase' = Phase
      BY <1>13, <2>1 DEF ClientLeaves, Phase, PromiseInv
    <3> QED BY <1>13, <2>1, <3>1 DEF ClientLeaves, Unseen
  <2>2. CASE pc' = "done" /\ answer' = "broken"
    <3>1. Phase = "relaying" /\ Phase' = "over"
      BY <1>13, <2>2 DEF ClientLeaves, Phase, PromiseInv
    <3>2. Promise!Fail
      BY <1>13, <2>2, <3>1 DEF ClientLeaves, Promise!Fail, Promise!relay
    <3> QED BY <3>2 DEF Promise!Next
  <2> QED BY <1>13, <2>1, <2>2 DEF ClientLeaves
<1>14. CASE UNCHANGED vars
  BY <1>14 DEF vars, Unseen, Phase
<1> QED
  BY <1>1, <1>2, <1>3, <1>4, <1>5, <1>6, <1>7, <1>8, <1>9, <1>10, <1>11, <1>12, <1>13, <1>14
     DEF Next, Handle, Disturb

\* Whatever fails, breaks off or is closed on the way, what _handle_request and
\* proxy_stream do is asking, relaying, releasing and concluding, in this order
\* and each as often as Request allows.
THEOREM ExchangeImplementsRequest == Spec => ExchangeIsRequest
<1>1. Init => ProgressOK
  BY DEF Init, ProgressOK, BeforeStream, BeforeCall
<1>2. Fields /\ CallsInv /\ StreamInv /\ BodyInv /\ CountInv /\ ProgressOK /\ PromiseInv /\ [Next]_vars
      => [Promise!Next]_Promise!vars
  BY RequestStep DEF Promise!vars, Unseen
<1> QED
  BY <1>1, <1>2, ProgressStep, BodyInitially, BodyStep, StreamInitially, StreamStep,
     PromiseInitially, PromiseStep, PromiseBegins, Invariance, PTL
  DEF Spec, ExchangeIsRequest, Promise!Spec

---------------------------------------------------------------------------
(* The fallback *)

\* Whose answer is served, by what the upstream has said.
ServedRight ==
    LET n == Len(calls)
        fellBack == n >= 2 /\ replies[2] = "ok"
    IN
    /\ n >= 1
    /\ replies[1] = "limited" /\ mode.fallback => n >= 2
    /\ mode.stream /\ n >= 2 /\ ~fellBack => n = 3
    /\ model = IF fellBack THEN "fallback" ELSE "primary"
    /\ status = IF fellBack THEN "ok" ELSE replies[IF n = 3 THEN 3 ELSE 1]

RepliesInv ==
    /\ replies \in Seq(Statuses) /\ Len(replies) = Len(calls)
    /\ Len(calls) >= 2 => replies[1] = "limited" /\ mode.fallback
    /\ Len(calls) = 3 => replies[2] # "ok" /\ mode.stream
    /\ pc = "fallback" => replies[1] = "limited" /\ status = "limited"
    /\ pc = "reopen" => replies[2] # "ok"
    /\ pc \in Answering \/ answer \in Statuses => ServedRight

\* The client is told when it is answered.
AnnouncedInv ==
    /\ announced \in BOOLEAN
    /\ pc \in BeforeStream \/ (pc # "done" /\ ~mode.stream) => ~announced
    /\ pc \in Answering \ {"serve"} /\ mode.stream => (announced <=> model = "fallback")
    /\ answer \in Statuses => answer = status /\ (announced <=> model = "fallback")

BannerFirst ==
    mode.stream =>
        /\ \A i \in DOMAIN sent : sent[i] = Banner <=> announced /\ i = 1
        /\ announced => sent # <<>>

LEMMA OneReplyMore ==
    ASSUME replies \in Seq(Statuses), NEW s \in Statuses, replies' = Append(replies, s)
    PROVE  /\ replies' \in Seq(Statuses) /\ Len(replies') = Len(replies) + 1
           /\ replies'[Len(replies) + 1] = s
           /\ \A i \in 1..Len(replies) : replies'[i] = replies[i]
BY AppendProperties

\* What has been said stays, and so does who is served by it.
LEMMA RepliesStay ==
    ASSUME RepliesInv, UNCHANGED <<mode, calls, replies, status, model>>,
           pc' \notin {"fallback", "reopen"},
           pc' \in Answering => pc \in Answering,
           answer' \in Statuses => pc \in Answering \/ answer \in Statuses
    PROVE  RepliesInv'
<1>1. pc' \in Answering \/ answer' \in Statuses => ServedRight'
  BY DEF RepliesInv, ServedRight
<1> QED BY <1>1 DEF RepliesInv

LEMMA RepliesStep == Fields /\ CallsInv /\ PromiseInv /\ RepliesInv /\ [Next]_vars => RepliesInv'
<1> SUFFICES ASSUME Fields, CallsInv, PromiseInv, RepliesInv, [Next]_vars PROVE RepliesInv'
  OBVIOUS
<1> USE DEF Answering, BeforeStream, BeforeCall
<1>1. CASE Call
  <2>1. PICK s \in Statuses :
            /\ replies' = Append(replies, s) /\ calls' = Append(calls, "primary")
            /\ status' = s /\ model' = "primary"
            /\ pc' = IF FallsBack(s) THEN "fallback" ELSE "serve"
    BY <1>1 DEF Call, Reply
  <2>2. UNCHANGED <<mode, answer>> /\ pc = "call" /\ Len(calls) = 0 /\ answer = "none"
    BY <1>1 DEF Call, CallsInv, PromiseInv
  <2>3. Len(calls') = 1 /\ Len(replies) = 0
    BY <2>1, <2>2, OneCallMore DEF RepliesInv, Models
  <2>4. replies' \in Seq(Statuses) /\ Len(replies') = 1 /\ replies'[1] = s
    BY <2>1, <2>3, OneReplyMore DEF RepliesInv
  <2> QED
    BY <2>1, <2>2, <2>3, <2>4 DEF RepliesInv, ServedRight, FallsBack, Statuses
<1>2. CASE Fallback
  <2>1. PICK s \in Statuses :
            /\ replies' = Append(replies, s) /\ calls' = Append(calls, "fallback")
            /\ \/ s = "ok" /\ status' = s /\ model' = "fallback" /\ pc' = "serve"
               \/ /\ s # "ok" /\ UNCHANGED <<status, model>>
                  /\ pc' = IF mode.stream THEN "reopen" ELSE "serve"
    BY <1>2 DEF Fallback, Reply, Statuses
  <2>2. /\ UNCHANGED <<mode, answer>> /\ Len(calls) = 1 /\ answer = "none"
        /\ model = "primary" /\ mode.fallback /\ replies[1] = "limited" /\ status = "limited"
    BY <1>2 DEF Fallback, CallsInv, PromiseInv, RepliesInv
  <2>3. Len(calls') = 2 /\ Len(replies) = 1
    BY <2>1, <2>2, OneCallMore DEF RepliesInv, Models
  <2>4. /\ replies' \in Seq(Statuses) /\ Len(replies') = 2
        /\ replies'[2] = s /\ replies'[1] = "limited"
    BY <2>1, <2>2, <2>3, OneReplyMore DEF RepliesInv
  <2> QED
    BY <2>1, <2>2, <2>3, <2>4 DEF RepliesInv, ServedRight, Statuses
<1>3. CASE Reopen
  <2>1. PICK s \in Statuses :
            /\ replies' = Append(replies, s) /\ calls' = Append(calls, "primary")
            /\ status' = s /\ model' = "primary" /\ pc' = "serve"
    BY <1>3 DEF Reopen, Reply
  <2>2. /\ UNCHANGED <<mode, answer>> /\ Len(calls) = 2 /\ answer = "none" /\ mode.stream
        /\ mode.fallback /\ replies[1] = "limited" /\ replies[2] # "ok"
    BY <1>3 DEF Reopen, CallsInv, PromiseInv, RepliesInv
  <2>3. Len(calls') = 3 /\ Len(replies) = 2
    BY <2>1, <2>2, OneCallMore DEF RepliesInv, Models
  <2>4. /\ replies' \in Seq(Statuses) /\ Len(replies') = 3
        /\ replies'[3] = s /\ replies'[2] # "ok" /\ replies'[1] = "limited"
    BY <2>1, <2>2, <2>3, OneReplyMore DEF RepliesInv
  <2> QED
    BY <2>1, <2>2, <2>3, <2>4 DEF RepliesInv, ServedRight, Statuses
<1>4. CASE Intercept \/ Rescue \/ Evict \/ Retrieve
  BY <1>4, RepliesStay DEF Intercept, Rescue, Evict, Retrieve, Statuses
<1>5. CASE ServeJson \/ ServeStream \/ PassOrKeep \/ EndOfStream \/ Close
  BY <1>5, RepliesStay DEF ServeJson, ServeStream, PassOrKeep, EndOfStream, Close
<1>6. CASE PostEvict \/ NameError \/ RewriteJson \/ RewriteStream \/ Finish
  BY <1>6, RepliesStay DEF PostEvict, NameError, RewriteJson, RewriteStream, Finish, Ends, Raise
<1>7. CASE RescueFails \/ EvictFails \/ CallFails \/ NotJson
  BY <1>7, RepliesStay DEF RescueFails, EvictFails, CallFails, NotJson, Raise, Statuses
<1>8. CASE UpstreamBreaks \/ ClientLeaves \/ PostEvictFails
  BY <1>8, RepliesStay DEF UpstreamBreaks, ClientLeaves, PostEvictFails, Raise, Statuses
<1>9. CASE UNCHANGED vars
  BY <1>9 DEF vars, RepliesInv, ServedRight
<1> QED
  BY <1>1, <1>2, <1>3, <1>4, <1>5, <1>6, <1>7, <1>8, <1>9 DEF Next, Handle, Disturb

LEMMA AnnouncedStep ==
    Fields /\ PromiseInv /\ ProgressOK /\ AnnouncedInv /\ [Next]_vars => AnnouncedInv'
<1> SUFFICES ASSUME Fields, PromiseInv, ProgressOK, AnnouncedInv, [Next]_vars PROVE AnnouncedInv'
  OBVIOUS
<1> USE DEF AnnouncedInv, PromiseInv, Answering, BeforeStream, BeforeCall
<1>1. CASE Intercept \/ Rescue \/ Evict \/ Retrieve
  BY <1>1 DEF Intercept, Rescue, Evict, Retrieve, Statuses
<1>2. CASE Call \/ Fallback \/ Reopen
  BY <1>2 DEF Call, Fallback, Reopen, Reply, Statuses
<1>3. CASE ServeJson \/ ServeStream
  <2>1. CASE ServeJson
    BY <2>1 DEF ServeJson, Statuses
  <2>2. CASE ServeStream
    <3>1. /\ pc' = "stream" /\ mode' = mode /\ mode.stream /\ model' = model /\ status' = status
          /\ announced' = (model = "fallback") /\ answer' = status
      BY <2>2 DEF ServeStream
    <3>2. announced' \in BOOLEAN /\ (announced' <=> model' = "fallback")
      BY <3>1, Zenon
    <3> QED BY <3>1, <3>2
  <2> QED BY <1>3, <2>1, <2>2
<1>4. CASE PassOrKeep \/ EndOfStream \/ Close \/ PostEvict \/ RewriteJson
  BY <1>4 DEF PassOrKeep, EndOfStream, Close, PostEvict, RewriteJson, Statuses
<1>5. CASE NameError \/ RewriteStream
  BY <1>5 DEF NameError, RewriteStream, Raise, Statuses
<1>6. CASE Finish
  BY <1>6 DEF Finish, Ends, Statuses
<1>7. CASE RescueFails \/ EvictFails \/ CallFails \/ NotJson
  BY <1>7 DEF RescueFails, EvictFails, CallFails, NotJson, Raise, Statuses
<1>8. CASE UpstreamBreaks \/ ClientLeaves \/ PostEvictFails
  BY <1>8 DEF UpstreamBreaks, ClientLeaves, PostEvictFails, Raise, Statuses
<1>9. CASE UNCHANGED vars
  BY <1>9 DEF vars
<1> QED
  BY <1>1, <1>2, <1>3, <1>4, <1>5, <1>6, <1>7, <1>8, <1>9 DEF Next, Handle, Disturb

LEMMA BannerStep ==
    Fields /\ StreamInv /\ BodyInv /\ PromiseInv /\ AnnouncedInv /\ BannerFirst /\ [Next]_vars
        => BannerFirst'
<1> SUFFICES ASSUME Fields, StreamInv, BodyInv, PromiseInv, AnnouncedInv, BannerFirst, [Next]_vars
             PROVE  BannerFirst'
  OBVIOUS
<1>1. CASE ServeStream
  BY <1>1 DEF ServeStream, BannerFirst
<1>2. CASE PassOrKeep
  <2>1. CASE sent' = sent
    BY <1>2, <2>1 DEF PassOrKeep, BannerFirst
  <2>2. CASE sent' # sent
    <3> DEFINE c == Head(coming)
    <3>1. /\ coming # <<>> /\ coming \in Seq(Chunk) /\ sent \in Seq(Chunk)
          /\ sent' = Append(sent, c) /\ UNCHANGED <<mode, announced>>
      BY <1>2, <2>2 DEF PassOrKeep, StreamInv, BodyInv
    <3>2. c = coming[1] /\ c \in Chunk /\ 1 \in DOMAIN coming
      BY <3>1
    <3>3. c # Banner
      BY <3>2, BannerIsChunk DEF BodyInv, NoBanner
    <3> HIDE DEF c
    <3>4. /\ Len(sent) \in Nat /\ DOMAIN sent = 1..Len(sent)
          /\ DOMAIN sent' = 1..(Len(sent) + 1)
          /\ sent'[Len(sent) + 1] = c /\ \A i \in 1..Len(sent) : sent'[i] = sent[i]
      BY <3>1, <3>2, AppendProperties, LenProperties
    <3>5. sent # <<>> => Len(sent) > 0
      BY <3>1, EmptySeq
    <3> QED BY <3>1, <3>3, <3>4, <3>5 DEF BannerFirst
  <2> QED BY <2>1, <2>2
<1>3. CASE RewriteStream
  <2>1. CASE sent' = sent
    BY <1>3, <2>1 DEF RewriteStream, BannerFirst
  <2>2. CASE sent' # sent
    <3>1. /\ sent \in Seq(Chunk) /\ tail \in Seq(Chunk)
          /\ sent' = sent \o tail /\ UNCHANGED <<mode, announced>>
      BY <1>3, <2>2 DEF RewriteStream, StreamInv, BodyInv
    <3>2. \A i \in 1..Len(tail) : tail[i] # Banner
      BY <3>1, BannerIsChunk, LenProperties DEF BodyInv, NoBanner
    <3>3. /\ Len(sent) \in Nat /\ Len(tail) \in Nat /\ DOMAIN sent = 1..Len(sent)
          /\ DOMAIN sent' = 1..(Len(sent) + Len(tail))
          /\ \A i \in 1..Len(sent) : sent'[i] = sent[i]
          /\ \A i \in 1..Len(tail) : sent'[Len(sent) + i] = tail[i]
      BY <3>1, ConcatProperties, LenProperties
    <3>4. sent # <<>> => Len(sent) > 0
      BY <3>1, EmptySeq
    <3>5. ASSUME mode.stream, NEW i \in DOMAIN sent'
          PROVE  sent'[i] = Banner <=> announced /\ i = 1
      <4>1. CASE i \in 1..Len(sent)
        BY <3>3, <3>5, <4>1 DEF BannerFirst
      <4>2. CASE i \notin 1..Len(sent)
        <5>1. i - Len(sent) \in 1..Len(tail) /\ i = Len(sent) + (i - Len(sent))
          BY <3>3, <4>2
        <5>2. sent'[i] # Banner
          BY <3>2, <3>3, <5>1
        <5> QED BY <3>3, <3>4, <3>5, <4>2, <5>2 DEF BannerFirst
      <4> QED BY <4>1, <4>2
    <3>6. mode.stream /\ announced => sent' # <<>>
      BY <3>1, <3>3, <3>4, EmptySeq DEF BannerFirst
    <3> QED BY <3>1, <3>5, <3>6 DEF BannerFirst
  <2> QED BY <2>1, <2>2
<1>4. ASSUME UNCHANGED <<mode, sent>>, mode.stream => announced' = announced PROVE BannerFirst'
  BY <1>4 DEF BannerFirst
<1>5. CASE Intercept \/ Rescue \/ Evict \/ Retrieve \/ Call \/ Fallback \/ Reopen
  BY <1>4, <1>5 DEF Intercept, Rescue, Evict, Retrieve, Call, Fallback, Reopen
<1>6. CASE ServeJson \/ EndOfStream \/ Close \/ PostEvict \/ NameError \/ RewriteJson
  BY <1>4, <1>6 DEF ServeJson, EndOfStream, Close, PostEvict, NameError, RewriteJson
<1>7. CASE Finish
  BY <1>4, <1>7 DEF Finish, Ends, AnnouncedInv, Answering
<1>8. CASE RescueFails \/ EvictFails \/ CallFails \/ NotJson
  BY <1>4, <1>8 DEF RescueFails, EvictFails, CallFails, NotJson
<1>9. CASE UpstreamBreaks \/ ClientLeaves \/ PostEvictFails \/ UNCHANGED vars
  BY <1>4, <1>9 DEF UpstreamBreaks, ClientLeaves, PostEvictFails, vars
<1> QED
  BY <1>1, <1>2, <1>3, <1>5, <1>6, <1>7, <1>8, <1>9 DEF Next, Handle, Disturb

LEMMA AnswerInvariance ==
    Spec => [](/\ Fields /\ CallsInv /\ StreamInv /\ BodyInv /\ ProgressOK
               /\ PromiseInv /\ RepliesInv /\ AnnouncedInv /\ BannerFirst)
<1>1. Init => ProgressOK
  BY DEF Init, ProgressOK, BeforeStream, BeforeCall
<1>2. Init => RepliesInv /\ AnnouncedInv /\ BannerFirst
  <2> SUFFICES ASSUME Init PROVE RepliesInv /\ AnnouncedInv /\ BannerFirst
    OBVIOUS
  <2>1. Len(<<>>) = 0 /\ <<>> \in Seq(Statuses) /\ DOMAIN <<>> = {}
    BY EmptySeq
  <2>2. pc \notin Answering /\ pc \in BeforeStream /\ answer \notin Statuses
    BY DEF Init, Answering, BeforeStream, BeforeCall, Statuses
  <2>3. RepliesInv
    BY <2>1, <2>2 DEF Init, RepliesInv
  <2>4. AnnouncedInv
    BY <2>2 DEF Init, AnnouncedInv
  <2> QED BY <2>1, <2>3, <2>4 DEF Init, BannerFirst
<1> QED
  BY <1>1, <1>2, ProgressStep, BodyInitially, BodyStep, StreamInitially, StreamStep,
     PromiseInitially, PromiseStep, RepliesStep, AnnouncedStep, BannerStep, Invariance, PTL
  DEF Spec

\* Whatever the upstream answers and however a request fails: the fallback model
\* is asked once at most, when the primary one was limited, and then always; it
\* is served, and announced, exactly if it answered; otherwise the client gets
\* the last word of the primary model (proxy/fallback.py, proxy/app.py).
THEOREM FallbackOnce == Spec => []FallbackIsOneShot
<1>1. CallsInv /\ RepliesInv /\ AnnouncedInv /\ BannerFirst => FallbackIsOneShot
  <2> SUFFICES ASSUME CallsInv, RepliesInv, AnnouncedInv, BannerFirst PROVE FallbackIsOneShot
    OBVIOUS
  <2>1. calls \in Seq(Models) /\ Len(calls) \in 0..3
    <3> DEFINE n == Len(calls)
    <3>1. calls \in Seq(Models) /\ (n <= 3 \/ n <= 2)
      BY DEF CallsInv
    <3>2. n \in Nat
      BY <3>1, LenProperties
    <3> HIDE DEF n
    <3>3. n \in 0..3
      BY <3>1, <3>2
    <3> QED BY <3>1, <3>3 DEF n
  <2>2. /\ Len(calls) >= 1 => calls[1] = "primary"
        /\ Len(calls) >= 2 => calls[2] = "fallback"
        /\ Len(calls) >= 3 => calls[3] = "primary"
    BY <2>1, NthCalls DEF CallsInv
  <2>3. answer \in Statuses => ServedRight /\ answer = status /\ (announced <=> model = "fallback")
    BY DEF RepliesInv, AnnouncedInv
  <2> QED
    BY <2>1, <2>2, <2>3 DEF RepliesInv, ServedRight, BannerFirst, FallbackIsOneShot
<1> QED
  BY <1>1, AnswerInvariance, PTL

\* Numbers, calls and chunks are what they should be.
THEOREM TypeCorrect == Spec => []TypeOK
<1>1. /\ Fields /\ CallsInv /\ StreamInv /\ BodyInv /\ ProgressOK /\ RepliesInv /\ AnnouncedInv
      /\ mode \in Modes
      => TypeOK
  BY DEF Fields, CallsInv, StreamInv, BodyInv, ProgressOK, RepliesInv, AnnouncedInv,
         BeforeStream, BeforeCall, TypeOK
<1>2. Init => mode \in Modes
  BY DEF Init
<1>3. mode \in Modes /\ [Next]_vars => (mode \in Modes)'
  BY DEF Next, Handle, Disturb, vars, Intercept, Rescue, Evict, Retrieve, Call, Fallback,
         Reopen, ServeJson, ServeStream, PassOrKeep, EndOfStream, Close, PostEvict, NameError,
         RewriteJson, RewriteStream, Finish, Ends, RescueFails, EvictFails, CallFails, NotJson,
         UpstreamBreaks, ClientLeaves, PostEvictFails
<1> QED
  BY <1>1, <1>2, <1>3, AnswerInvariance, PTL DEF Spec
=============================================================================

------------------------------ MODULE Exchange ------------------------------
(***************************************************************************)
(* One request through _handle_request (proxy/app.py): interception,       *)
(* rescue, eviction, retrieval, the upstream call with its one-shot        *)
(* fallback (proxy/fallback.py), and the response, as JSON or as a stream  *)
(* whose usage is rewritten on the way (counter_compact/sse_rewrite.py).   *)
(*                                                                         *)
(* What rescue, eviction and retrieval do inside is the matter of          *)
(* CounterCompact, Inbound, Selector and Archive; here they succeed, with  *)
(* more or less to show for it, or raise.  The body of a stream is the     *)
(* sequence of its chunks; an SSE event may be cut into two of them.       *)
(***************************************************************************)
EXTENDS Integers, SequencesExt

CONSTANTS
    Modes,       \* how requests come: see Mode
    Caps,        \* values of SPILLOVER_REPORTED_INPUT_CAP, 0 for none
    Inputs,      \* input_tokens of a usage, 0 where it says nothing of them
    Bodies,      \* stream bodies: sequences of Chunk
    MaxIds,      \* bound: ids one call archives
    MaxFaults    \* bound: errors, broken connections, clients that leave

Mode == [passive : BOOLEAN,     \* SPILLOVER_PASSIVE
         stream : BOOLEAN,      \* payload["stream"]
         fallback : BOOLEAN,    \* a fallback model is configured, and another
         compact : BOOLEAN,     \* should_intercept_request
         rewrite : BOOLEAN,     \* SPILLOVER_STREAM_REWRITE
         cap : Caps]

\* A piece of an SSE event: part p of its n parts.  `usage` says that the event
\* has a usage, `input` what it says, `marker` that '"usage"' is found in this
\* very chunk.
Chunk == [event : Nat, part : 1..2, of : 1..2, usage : BOOLEAN, marker : BOOLEAN, input : Inputs \union {0}]

ASSUME ExchangeAssumption ==
    /\ Caps \subseteq Nat /\ Inputs \subseteq Nat /\ Modes \subseteq Mode
    /\ \A b \in Bodies : b \in Seq(Chunk)
    \* An event that comes in one piece has its '"usage"' in that piece.
    /\ \A b \in Bodies : \A i \in DOMAIN b : b[i].usage /\ b[i].of = 1 => b[i].marker
    \* Events are numbered from 1; 0 is the banner.
    /\ \A b \in Bodies : \A i \in DOMAIN b : b[i].event > 0
    /\ MaxIds \in Nat \ {0} /\ MaxFaults \in Nat

VARIABLES
    mode,
    pc,
    freed,        \* pre_forward_tokens_freed
    evicted,      \* what _maybe_evict archived: archived_ids, and tokens_archived
    archived,     \* how many ids the request has archived
    ahead,        \* those of them that pre-forward eviction archived
    offered,      \* how many ids were given to _enqueue_facets
    calls,        \* the models the upstream has answered for
    replies,      \* what it answered each time
    status,       \* status of the response being served
    model,        \* the model it comes from
    coming,       \* what the upstream has still to send
    sink,         \* what it has sent
    sent,         \* what the client has been sent
    tail,         \* tail_buffer
    rewritten,    \* the usages that were rewritten: [real, told]
    cut,          \* the stream from the upstream broke off
    gone,         \* the client has left
    announced,    \* the client is told of the fallback model
    answer,       \* how the request ended for the client
    counted,      \* requests_total
    faults

ids == <<archived, ahead, offered>>
upstream == <<calls, replies, status, model>>
body == <<coming, sink, sent, tail, rewritten, cut, gone, announced>>
vars == <<mode, pc, freed, evicted, ids, upstream, body, answer, counted, faults>>

Statuses == {"ok", "limited", "refused"}    \* 200; _RETRYABLE_STATUS; the rest
Models == {"primary", "fallback"}
Banner == [event |-> 0, part |-> 1, of |-> 1, usage |-> FALSE, marker |-> FALSE, input |-> 0]

TypeOK ==
    /\ mode \in Modes
    /\ pc \in {"arrived", "rescue", "evict", "retrieve", "call", "fallback", "reopen",
               "serve", "stream", "close", "post_evict", "rewrite", "finish", "done"}
    /\ freed \in 0..MaxIds /\ evicted \in 0..MaxIds
    /\ archived \in Nat /\ ahead \in Nat /\ offered \in Nat
    /\ calls \in Seq(Models) /\ Len(calls) <= 3 /\ replies \in Seq(Statuses)
    /\ announced \in BOOLEAN
    /\ status \in Statuses \union {"none"} /\ model \in Models
    /\ sent \in Seq(Chunk) /\ tail \in Seq(Chunk)
    /\ answer \in Statuses \union {"none", "intercepted", "error", "broken"}
    /\ counted \in 0..1 /\ faults \in 0..MaxFaults

Init ==
    /\ mode \in Modes
    /\ pc = "arrived"
    /\ freed = 0 /\ evicted = 0 /\ archived = 0 /\ ahead = 0 /\ offered = 0
    /\ calls = <<>> /\ replies = <<>> /\ status = "none" /\ model = "primary"
    /\ coming = <<>> /\ sink = <<>> /\ sent = <<>> /\ tail = <<>>
    /\ rewritten = {} /\ cut = FALSE /\ gone = FALSE /\ announced = FALSE
    /\ answer = "none" /\ counted = 0 /\ faults = 0

Fault == faults < MaxFaults /\ faults' = faults + 1

\* An exception leaves the handler, or the generator of the stream.
Raise ==
    /\ pc' = "done"
    /\ answer' = IF answer = "none" THEN "error" ELSE "broken"

---------------------------------------------------------------------------
(* Before the call *)

Intercept ==
    /\ pc = "arrived"
    /\ IF mode.compact /\ ~mode.passive
       THEN pc' = "done" /\ answer' = "intercepted"
       ELSE pc' = "rescue" /\ UNCHANGED answer
    /\ UNCHANGED <<mode, freed, evicted, ids, upstream, body, counted, faults>>

\* The ids of a rescue are enqueued at once.  In passive mode turns are only
\* recorded, and an error there is logged.
Rescue ==
    /\ pc = "rescue"
    /\ \/ mode.passive /\ pc' = "call" /\ UNCHANGED ids
       \/ /\ ~mode.passive /\ pc' = "evict"
          /\ \E n \in 0..MaxIds : archived' = archived + n /\ offered' = offered + n
          /\ UNCHANGED ahead
    /\ UNCHANGED <<mode, freed, evicted, upstream, body, answer, counted, faults>>

\* The active mode does not catch an error of _detect_and_rescue; some turns
\* may have been archived by then.
RescueFails ==
    /\ pc = "rescue" /\ Fault
    /\ IF mode.passive
       THEN pc' = "call" /\ UNCHANGED <<ids, answer>>
       ELSE /\ \E n \in 0..MaxIds : archived' = archived + n
            /\ UNCHANGED <<ahead, offered>>
            /\ Raise
    /\ UNCHANGED <<mode, freed, evicted, upstream, body, counted>>

\* Pre-forward eviction says how many ids it has archived, and not which: they
\* are never enqueued.
ArchiveAhead == \E n \in 0..MaxIds : archived' = archived + n /\ ahead' = ahead + n

Evict ==
    /\ pc = "evict"
    /\ ArchiveAhead
    /\ freed' = ahead' - ahead
    /\ pc' = "retrieve"
    /\ UNCHANGED <<mode, evicted, offered, upstream, body, answer, counted, faults>>

\* An error of eviction is logged; what was archived by then stays archived.
EvictFails ==
    /\ pc = "evict" /\ Fault
    /\ ArchiveAhead
    /\ pc' = "retrieve"
    /\ UNCHANGED <<mode, freed, evicted, offered, upstream, body, answer, counted>>

\* An error of retrieval is logged, and there is no block: all the same here.
Retrieve ==
    /\ pc = "retrieve"
    /\ pc' = "call"
    /\ UNCHANGED <<mode, freed, evicted, ids, upstream, body, answer,
                   counted, faults>>

---------------------------------------------------------------------------
(* The upstream *)

Reply(m, s) ==
    /\ calls' = Append(calls, m)
    /\ replies' = Append(replies, s)
    /\ status' = s
    /\ model' = m

\* should_fallback
FallsBack(s) == s = "limited" /\ mode.fallback

\* A mutation: the reopened call may fall back again.
ReopenLikeCall ==
    /\ pc = "reopen"
    /\ \E s \in Statuses :
        /\ Reply("primary", s)
        /\ pc' = IF FallsBack(s) THEN "fallback" ELSE "serve"
    /\ UNCHANGED <<mode, freed, evicted, ids, body, answer, counted, faults>>

Call ==
    /\ pc = "call"
    /\ \E s \in Statuses :
        /\ Reply("primary", s)
        /\ pc' = IF FallsBack(s) THEN "fallback" ELSE "serve"
    /\ UNCHANGED <<mode, freed, evicted, ids, body, answer, counted, faults>>

\* One attempt.  If it fails too, a JSON request is left with the response it
\* had; a stream, which has been closed, is opened once more.
Fallback ==
    /\ pc = "fallback"
    /\ \/ Reply("fallback", "ok") /\ pc' = "serve"
       \/ /\ calls' = Append(calls, "fallback")
          /\ \E s \in Statuses \ {"ok"} : replies' = Append(replies, s)
          /\ pc' = IF mode.stream THEN "reopen" ELSE "serve"
          /\ UNCHANGED <<status, model>>
    /\ UNCHANGED <<mode, freed, evicted, ids, body, answer, counted, faults>>

Reopen ==
    /\ pc = "reopen"
    /\ \E s \in Statuses : Reply("primary", s)
    /\ pc' = "serve"
    /\ UNCHANGED <<mode, freed, evicted, ids, body, answer, counted, faults>>

\* The connection fails or times out: nobody catches it.
CallFails ==
    /\ pc \in {"call", "fallback", "reopen"} /\ Fault
    /\ Raise
    /\ UNCHANGED <<mode, freed, evicted, ids, upstream, body, counted>>

---------------------------------------------------------------------------
(* The response *)

\* A JSON response: whether it has a usage decides on post-forward eviction.
ServeJson ==
    /\ pc = "serve" /\ ~mode.stream
    /\ \/ status = "ok" /\ pc' = "post_evict"
       \/ pc' = "finish"
    /\ UNCHANGED <<mode, freed, evicted, ids, upstream, body, answer,
                   counted, faults>>

\* What is served is parsed once more: another body, the HTML page of a gateway
\* for one, becomes an error, counted under the status of the upstream.
NotJson ==
    /\ pc = "serve" /\ ~mode.stream /\ Fault
    /\ counted' = counted + 1
    /\ Raise
    /\ UNCHANGED <<mode, freed, evicted, ids, upstream, body>>

\* The response has started: status and headers are out, the banner is first.
ServeStream ==
    /\ pc = "serve" /\ mode.stream
    /\ coming' \in Bodies
    /\ announced' = (model = "fallback")
    /\ sent' = IF announced' THEN <<Banner>> ELSE <<>>
    /\ answer' = status
    /\ pc' = "stream"
    /\ UNCHANGED <<mode, freed, evicted, ids, upstream, sink, tail,
                   rewritten, cut, gone, counted, faults>>

\* rewrite_enabled and has_usage_marker(chunk)
IsKept(chunk) == mode.rewrite /\ chunk.marker

\* A chunk is passed on, or, where '"usage"' is in it, kept for the end.
PassOrKeep ==
    /\ pc = "stream" /\ coming # <<>>
    /\ IF IsKept(Head(coming))
       THEN tail' = Append(tail, Head(coming)) /\ UNCHANGED sent
       ELSE sent' = Append(sent, Head(coming)) /\ UNCHANGED tail
    /\ sink' = Append(sink, Head(coming))
    /\ coming' = Tail(coming)
    /\ UNCHANGED <<mode, pc, freed, evicted, ids, upstream, rewritten,
                   cut, gone, announced, answer, counted, faults>>

\* A mutation: a stream is read until a usage has come.
EndOfStreamWithUsage ==
    /\ pc = "stream" /\ coming = <<>> /\ \E i \in DOMAIN sink : sink[i].usage
    /\ pc' = "close"
    /\ UNCHANGED <<mode, freed, evicted, ids, upstream, body, answer,
                   counted, faults>>

EndOfStream ==
    /\ pc = "stream" /\ coming = <<>>
    /\ pc' = "close"
    /\ UNCHANGED <<mode, freed, evicted, ids, upstream, body, answer,
                   counted, faults>>

\* A mutation: a stream that breaks off is opened once more.
UpstreamBreaksAndReopens ==
    /\ pc = "stream" /\ Fault
    /\ cut' = TRUE
    /\ pc' = IF Len(calls) < 2 THEN "reopen" ELSE "close"
    /\ UNCHANGED <<mode, freed, evicted, ids, upstream, coming, sink, sent,
                   tail, rewritten, gone, announced, answer, counted>>

\* The upstream breaks off, and the `finally` block runs on the way out.
UpstreamBreaks ==
    /\ pc = "stream" /\ Fault
    /\ cut' = TRUE
    /\ pc' = "close"
    /\ UNCHANGED <<mode, freed, evicted, ids, upstream, coming, sink, sent,
                   tail, rewritten, gone, announced, answer, counted>>

\* The client leaves.  The task is cancelled, and with it the awaits of the
\* `finally` block, or the generator is closed and the block runs.
ClientLeaves ==
    /\ pc = "stream" /\ Fault
    /\ gone' = TRUE
    /\ \/ pc' = "done" /\ answer' = "broken"
       \/ pc' = "close" /\ UNCHANGED answer
    /\ UNCHANGED <<mode, freed, evicted, ids, upstream, coming, sink, sent,
                   tail, rewritten, cut, announced, counted>>

\* The events of which every part is in s, one after the other.
WholeIn(s) ==
    {s[i].event : i \in {i \in DOMAIN s :
        \/ s[i].of = 1
        \/ /\ s[i].part = 1 /\ i + 1 \in DOMAIN s
           /\ s[i + 1].event = s[i].event}}

UsageIn(s) == WholeIn(s) \intersect {s[i].event : i \in {i \in DOMAIN s : s[i].usage}}

\* extract_usage_sse, which gives None without any.
HasUsage(s) == UsageIn(s) # {}

\* It looks at everything the upstream sent.
Close ==
    /\ pc = "close"
    /\ pc' = IF status = "ok" /\ HasUsage(sink) THEN "post_evict" ELSE "rewrite"
    /\ UNCHANGED <<mode, freed, evicted, ids, upstream, body, answer,
                   counted, faults>>

\* _maybe_evict
PostEvict ==
    /\ pc = "post_evict"
    /\ \E n \in 0..MaxIds : evicted' = n /\ archived' = archived + n
    /\ pc' = "rewrite"
    /\ UNCHANGED <<mode, freed, ahead, offered, upstream, body, answer, counted, faults>>

\* Nothing catches its errors: the response, or the end of it, is lost.
PostEvictFails ==
    /\ pc = "post_evict" /\ Fault
    /\ \E n \in 0..MaxIds : archived' = archived + n
    /\ Raise
    /\ UNCHANGED <<mode, freed, evicted, ahead, offered, upstream, body, counted>>

\* total_subtract = tokens_archived + pre_forward_tokens_freed: in passive mode
\* there is no such variable, and NameError is raised.
\* A mutation: only what was archived after the response counts.
SubtractArchived == evicted

Subtract == evicted + freed

\* rewrite_usage, of the inputs that are rewritten: there is something to
\* subtract, or the cap is set.
Reported(real) ==
    LET new == IF real > Subtract THEN real - Subtract ELSE 1
    IN  IF mode.cap > 0 /\ new > mode.cap THEN mode.cap ELSE new
Rewritten(reals) ==
    IF Subtract > 0 \/ mode.cap > 0
    THEN {[real |-> real, told |-> Reported(real)] : real \in reals} ELSE {}

NameError ==
    /\ pc = "rewrite" /\ mode.passive
    /\ Raise
    /\ UNCHANGED <<mode, freed, evicted, ids, upstream, body, counted, faults>>

RewriteJson ==
    /\ pc = "rewrite" /\ ~mode.passive /\ ~mode.stream
    /\ \E real \in Inputs : rewritten' = Rewritten({real})
    /\ pc' = "finish"
    /\ UNCHANGED <<mode, freed, evicted, ids, upstream, coming, sink, sent,
                   tail, cut, gone, announced, answer, counted, faults>>

\* What the whole usages in s say.
InputsIn(s) == {s[i].input : i \in {i \in DOMAIN s : s[i].event \in UsageIn(s)}}

\* A mutation: the kept chunks are sent only when there is something to rewrite.
RewriteOrNothing ==
    /\ pc = "rewrite" /\ ~mode.passive /\ mode.stream
    /\ sent' = IF Subtract > 0 THEN sent \o tail ELSE sent
    /\ rewritten' = Rewritten(InputsIn(tail))
    /\ pc' = "finish"
    /\ UNCHANGED <<mode, freed, evicted, ids, upstream, coming, sink, tail,
                   cut, gone, announced, answer, counted, faults>>

\* rewrite_sse_body: each whole data line among what was kept.  A generator
\* that is being closed may not yield, and ends there.
RewriteStream ==
    /\ pc = "rewrite" /\ ~mode.passive /\ mode.stream
    /\ IF gone /\ tail # <<>>
       THEN Raise /\ UNCHANGED <<sent, rewritten>>
       ELSE /\ sent' = sent \o tail
            /\ rewritten' = Rewritten(InputsIn(tail))
            /\ pc' = "finish"
            /\ UNCHANGED answer
    /\ UNCHANGED <<mode, freed, evicted, ids, upstream, coming, sink, tail,
                   cut, gone, announced, counted, faults>>

\* The end of a request, with so many ids offered and requests counted.  The
\* headers of a JSON response name the fallback model.
Ends(ids_offered, requests) ==
    /\ pc = "finish"
    /\ offered' = ids_offered
    /\ counted' = requests
    /\ announced' = (model = "fallback")
    /\ answer' = IF cut \/ gone THEN "broken" ELSE status
    /\ pc' = "done"
    /\ UNCHANGED <<mode, freed, evicted, archived, ahead, upstream, coming, sink, sent, tail,
                   rewritten, cut, gone, faults>>

\* A mutation: in a stream the ids of _maybe_evict are not enqueued.
FinishStreamWithoutIds ==
    Ends(IF mode.stream THEN offered ELSE offered + evicted, counted + 1)

\* A mutation: only successes are counted.
FinishCountingSuccess ==
    Ends(offered + evicted, IF status = "ok" THEN counted + 1 ELSE counted)

\* _enqueue_facets, requests_total, and the response or the end of it.
Finish == Ends(offered + evicted, counted + 1)

Handle ==
    \/ Intercept \/ Rescue \/ Evict \/ Retrieve
    \/ Call \/ Fallback \/ Reopen
    \/ ServeJson \/ ServeStream \/ PassOrKeep \/ EndOfStream \/ Close
    \/ PostEvict \/ NameError \/ RewriteJson \/ RewriteStream \/ Finish

Disturb ==
    \/ RescueFails \/ EvictFails \/ CallFails \/ NotJson \/ UpstreamBreaks \/ ClientLeaves \/ PostEvictFails

Next == Handle \/ Disturb
Spec == Init /\ [][Next]_vars

\* The handler is a task of the event loop and its calls run in executor
\* threads; the HTTP client gives up on a silent upstream after 120 seconds,
\* and a stream has an end.
FairSpec == Spec /\ WF_vars(Handle)

---------------------------------------------------------------------------
(* Properties *)

\* The members of s that are in S, in their order.
Filtered(s, S) ==
    LET upTo[n \in 0..Len(s)] ==
            IF n = 0 THEN <<>>
            ELSE IF s[n] \in S THEN Append(upTo[n - 1], s[n]) ELSE upTo[n - 1]
    IN  upTo[Len(s)]

Kept == Filtered(sink, {c \in Chunk : IsKept(c)})
Passed == Filtered(sink, {c \in Chunk : ~IsKept(c)})
FromUpstream == Filtered(sent, Chunk \ {Banner})

\* Streaming loses and repeats nothing: as long as the client is there, it has
\* been sent every chunk without a usage so far, in order; and at the end, all
\* the others after them, even if the upstream broke off; only an error of the
\* eviction before that end can lose them.
StreamIsComplete ==
    mode.stream /\ ~mode.passive =>
        /\ IsPrefix(Passed, FromUpstream)
        /\ ~gone /\ (pc = "finish" \/ (pc = "done" /\ answer = status)) =>
            FromUpstream = Passed \o Kept

\* Every request that gets as far as being counted, answered, refused or broken
\* off, has offered to the facet queue all that its rescue and _maybe_evict
\* archived, and nothing of what pre-forward eviction archived, whatever failed
\* before.
ArchivedIsOffered ==
    counted = 1 => offered = archived - ahead

\* The fallback is tried once at most: when it is configured and the primary
\* model was limited, and then always.  Its answer is served if it is a success,
\* and then, and only then, the client is told, in a stream before anything else;
\* otherwise a stream asks the primary model once more, and what the primary model
\* said last is what the client gets.
FallbackIsOneShot ==
    LET n == Len(calls)
        fellBack == n >= 2 /\ replies[2] = "ok"
    IN
    /\ n >= 1 => calls[1] = "primary"
    /\ n >= 2 => calls[2] = "fallback" /\ replies[1] = "limited" /\ mode.fallback
    /\ n >= 3 => calls[3] = "primary" /\ ~fellBack /\ mode.stream
    /\ n <= 3
    /\ answer \in Statuses =>
        /\ replies[1] = "limited" /\ mode.fallback => n >= 2
        /\ mode.stream /\ n >= 2 /\ ~fellBack => n = 3
        /\ model = IF fellBack THEN "fallback" ELSE "primary"
        /\ answer = IF fellBack THEN "ok" ELSE replies[IF n = 3 THEN 3 ELSE 1]
        /\ announced <=> fellBack
    /\ mode.stream => \A i \in DOMAIN sent : sent[i] = Banner <=> announced /\ i = 1
    /\ mode.stream /\ announced => sent # <<>>

\* The client is told the input the provider counted, less all that this request
\* has taken out of the conversation, before the call and after it, and never
\* more than the cap; and no usage that came whole goes out as it was.
UsageIsReported ==
    pc = "done" /\ answer \in Statuses /\ ~mode.passive =>
        /\ \A u \in rewritten :
            LET least == u.real - (freed + evicted) IN
            \/ u.told = mode.cap /\ mode.cap <= least
            \/ u.told = least
            \/ u.told = 1 /\ least < 1
        /\ mode.cap > 0 => \A u \in rewritten : u.told <= mode.cap
        /\ mode.stream /\ mode.rewrite /\ (freed + evicted > 0 \/ mode.cap > 0) =>
            \A i \in DOMAIN sink :
                sink[i].usage /\ sink[i].of = 1 => \E u \in rewritten : u.real = sink[i].input

\* Every request that is answered is counted, once.
CountedOnce ==
    pc = "done" /\ answer \in Statuses => counted = 1

\* Whatever fails, a request comes to its end.
ComesToAnEnd == <>(pc = "done")

---------------------------------------------------------------------------
(* What a request promises *)

\* How far the request is for the client.
Phase ==
    IF pc = "done" THEN "over"
    ELSE IF pc = "finish" THEN "concluding"
    ELSE IF mode.stream /\ pc \in {"stream", "close", "post_evict", "rewrite"} THEN "relaying"
    ELSE "asking"

Promise == INSTANCE Request WITH
    streamed <- mode.stream, phase <- Phase, asked <- calls, received <- sent, kept <- tail,
    Chunks <- UNION {ToSet(b) : b \in Bodies}, Notice <- Banner

\* Nothing is asked of the provider once the client has been told something, a
\* stream only grows, and what was kept back comes at its end and once; a request
\* that has ended, in whatever way, says, asks and counts nothing more.
ExchangeIsRequest == Promise!Spec

---------------------------------------------------------------------------
(* What the documentation says of a request *)

\* cli.py:322: passive mode is observe-only.  Where nothing fails, the client
\* gets the status of the upstream, and all of its stream.
PassiveObservesOnly ==
    pc = "done" /\ mode.passive /\ faults = 0 =>
        answer = status /\ (mode.stream => Len(FromUpstream) = Len(sink))

\* README.md:185: each archived turn produces an embedding, entities, decisions
\* and references.  Where nothing fails, then, all the ids of a request that was
\* answered have been offered to the queue of the worker that makes them.
EachArchivedIsOffered ==
    pc = "done" /\ answer \in Statuses /\ ~mode.passive /\ faults = 0 => offered = archived
=============================================================================

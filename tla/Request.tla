------------------------------ MODULE Request ------------------------------
(***************************************************************************)
(* What a request promises the client, the provider and the counters,      *)
(* without rescue, eviction, retrieval and the arithmetic of usages: the   *)
(* provider is asked one model after the other, before anything is said to *)
(* the client; a stream is relayed chunk by chunk, some of it kept back    *)
(* and released at the end; and where the request has ended nothing more   *)
(* is asked, sent or counted.                                              *)
(***************************************************************************)
EXTENDS Naturals, Sequences

CONSTANTS Statuses, Chunks, Notice

VARIABLES
    streamed,    \* the client has asked for a stream
    phase,       \* "asking", "relaying", "concluding" or "over"
    asked,       \* the models the provider has answered for
    answer,      \* what the client was answered, "none" as long as nothing was
    received,    \* the stream it has received
    kept,        \* what is kept back for its end
    counted      \* how often the request was counted

vars == <<streamed, phase, asked, answer, received, kept, counted>>
relay == <<received, kept>>

\* A stream that nobody serves has been closed and is opened again.
Order == IF streamed THEN <<"primary", "fallback", "primary">> ELSE <<"primary", "fallback">>

Init ==
    /\ streamed \in BOOLEAN
    /\ phase = "asking" /\ asked = <<>> /\ answer = "none"
    /\ received = <<>> /\ kept = <<>> /\ counted = 0

\* A prompt of the client's own compaction goes nowhere.
Intercept ==
    /\ phase = "asking" /\ asked = <<>>
    /\ phase' = "over" /\ answer' = "intercepted"
    /\ UNCHANGED <<streamed, asked, relay, counted>>

Ask ==
    /\ phase = "asking" /\ Len(asked) < Len(Order)
    /\ asked' = Append(asked, Order[Len(asked) + 1])
    /\ UNCHANGED <<streamed, phase, answer, relay, counted>>

\* A stream begins, with a notice if the fallback's answer is served.
Start ==
    /\ phase = "asking" /\ streamed /\ asked # <<>>
    /\ phase' = "relaying"
    /\ answer' \in Statuses
    /\ received' = IF Len(asked) = 2 THEN <<Notice>> ELSE <<>>
    /\ UNCHANGED <<streamed, asked, kept, counted>>

Pass(chunk) ==
    /\ phase = "relaying"
    /\ received' = Append(received, chunk)
    /\ UNCHANGED <<streamed, phase, asked, answer, kept, counted>>

Keep(chunk) ==
    /\ phase = "relaying"
    /\ kept' = Append(kept, chunk)
    /\ UNCHANGED <<streamed, phase, asked, answer, received, counted>>

\* The end of a stream: what was kept, all of it, after all that was passed on.
Release ==
    /\ phase = "relaying"
    /\ phase' = "concluding"
    /\ received' = received \o kept
    /\ UNCHANGED <<streamed, asked, answer, kept, counted>>

\* An answer that is no stream is ready.
Prepare ==
    /\ phase = "asking" /\ ~streamed /\ asked # <<>>
    /\ phase' = "concluding"
    /\ UNCHANGED <<streamed, asked, answer, relay, counted>>

\* A stream has had its answer, and may yet turn out to be broken.
Conclude ==
    /\ phase = "concluding"
    /\ phase' = "over"
    /\ answer' \in (IF streamed THEN {answer, "broken"} ELSE Statuses)
    /\ counted' = counted + 1
    /\ UNCHANGED <<streamed, asked, relay>>

\* An error that nobody catches.  An answer that cannot be read has been counted.
Fail ==
    /\ phase \in {"asking", "relaying"}
    /\ phase' = "over"
    /\ answer' = IF phase = "asking" THEN "error" ELSE "broken"
    /\ \/ UNCHANGED counted
       \/ phase = "asking" /\ ~streamed /\ asked # <<>> /\ counted' = counted + 1
    /\ UNCHANGED <<streamed, asked, relay>>

Next ==
    \/ Intercept \/ Ask \/ Start \/ Prepare \/ Release \/ Conclude \/ Fail
    \/ \E chunk \in Chunks : Pass(chunk) \/ Keep(chunk)

Spec == Init /\ [][Next]_vars
=============================================================================

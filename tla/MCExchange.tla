----------------------------- MODULE MCExchange -----------------------------
(* Small instances of Exchange for TLC. *)
EXTENDS Exchange

\* message_delta, which ends a stream, says nothing of the input.
Whole(e, u) ==
    [event |-> e, part |-> 1, of |-> 1, usage |-> u, marker |-> u, input |-> IF u /\ e = 1 THEN 4 ELSE 0]
Part(e, p, m) == [event |-> e, part |-> p, of |-> 2, usage |-> TRUE, marker |-> m, input |-> 4]

\* message_start and message_delta have a usage, the content between has none.
WholeEvents ==
    {<<Whole(1, TRUE), Whole(2, FALSE), Whole(3, FALSE), Whole(4, TRUE)>>,
     <<Whole(1, FALSE), Whole(2, FALSE), Whole(3, TRUE)>>,
     <<Whole(1, FALSE)>>,
     <<>>}

\* The last event arrives in two chunks, cut before, in or after '"usage"'.
CutEvents ==
    {<<Whole(1, FALSE), Part(2, 1, a), Part(2, 2, b)>> : a, b \in BOOLEAN}

AnyBody == WholeEvents \union CutEvents
AnyMode == Mode
Active == {m \in Mode : ~m.passive}
Passive == {m \in Mode : m.passive}
=============================================================================

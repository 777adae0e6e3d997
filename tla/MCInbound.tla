----------------------------- MODULE MCInbound -----------------------------
(* A small instance of Inbound for TLC, at about a thousandth of the sizes  *)
(* the code works with.                                                     *)
EXTENDS Inbound, TLC

DefaultSettings == [k \in Keys |->
    CASE k = "ceiling" -> 12 [] k = "archive" -> 25 [] k = "retrieval" -> 20]
SomeOptions == [k \in Keys |->
    CASE k = "ceiling" -> {6} [] k = "archive" -> {0, 60} [] k = "retrieval" -> {60}]

\* The proxy's environment says nothing, or more than the clamp lets pass.
SomeEnvironments == {Unset, [k \in {"archive", "retrieval"} |-> 120]}

Plain(n) == [chars |-> n, tool |-> FALSE]
AnyMessage == [chars : {8, 19}, tool : BOOLEAN]

\* Every middle of two turns between an anchor and a recent turn, one of one, one
\* with an empty turn, one of three, and conversations too short to trim.
Around(middle) == [system |-> 5, messages |-> <<Plain(9)>> \o middle \o <<Plain(3)>>]
Short == Around(<<Plain(16)>>)
AllPayloads ==
    {Around(middle) : middle \in [1..2 -> AnyMessage]}
    \union {Short, Around(<<Plain(0), Plain(19)>>), Around(<<Plain(8), Plain(19), Plain(8)>>)}
    \union {[system |-> 5, messages |-> m] : m \in {<<>>, <<Plain(12)>>}}

\* Where two requests or two commands cross, only the settings that a trim goes by
\* make a difference: conversations are short ones then, nothing fails, and nobody
\* sets the share of the block.
Settings == {file, env} \union {cli[w].change : w \in Writers}
CrossingIsSimple ==
    clashed \/ Cardinality({r \in Requests : req[r].pc # "idle"}) > 1 =>
        /\ \A r \in Requests : req[r].pc = "idle" \/ req[r].payload = Counted(Short)
        /\ \A s \in Settings : "retrieval" \notin DOMAIN s
        /\ faults = 0

Symmetry == Permutations(Requests) \union Permutations(Writers)
=============================================================================

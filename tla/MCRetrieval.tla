---------------------------- MODULE MCRetrieval ----------------------------
(* A small instance of Retrieval for TLC. *)
EXTENDS Retrieval

App == [name |-> "app", kind |-> "file"]
Db(kind) == [name |-> "db", kind |-> kind]

\* 1 ran a tool, 2 is a priority and leaves work to do, 3 is too large.
ThreeTokens == <<2, 3, 6>>
ThreeSignals == <<{"tools", "semantic"}, {"priority", "todo"}, {}>>
ThreeMatches == <<<<App>>, <<Db("command"), App>>, <<Db("identifier")>>>>

SomeQueries ==
    {[near |-> <<1, 2, 3>>, match |-> <<1, 3>>, entities |-> <<Db("command"), App, App>>],
     [near |-> <<3, 1, 2>>, match |-> <<3, 2, 1>>, entities |-> <<>>]}
=============================================================================

-------------------------- MODULE MCFacetPipeline --------------------------
(* A small instance of FacetPipeline for TLC: two episodes that mention one
   file, which the second edits twice and decides about. *)
EXTENDS FacetPipeline

CONSTANTS e1, e2

App == [name |-> "app.py", kind |-> "file"]
Edit == [name |-> "Edit", path |-> "app.py"]
Choice == "going with app.py"

TwoIds == {e1, e2}
TwoMessages ==
    [id \in TwoIds |->
        IF id = e1
        THEN [entities |-> <<App>>, calls |-> <<>>,
              decisions |-> [pt |-> <<>>, en |-> <<>>, because |-> <<>>]]
        ELSE [entities |-> <<>>, calls |-> <<Edit, Edit>>,
              decisions |-> [pt |-> <<>>, en |-> <<Choice>>, because |-> <<>>]]]
=============================================================================

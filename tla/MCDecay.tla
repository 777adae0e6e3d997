------------------------------ MODULE MCDecay ------------------------------
(* A small instance of Decay for TLC: three projects, the last of which is
   broken; a step of the clock is a week. *)
EXTENDS Decay

CONSTANTS e1, e2, e3

MCOrder == <<"a", "b", "c">>
MCEpisodes == {e1, e2, e3}
MCHome == [e \in MCEpisodes |-> IF e = e3 THEN "b" ELSE "a"]
MCType == [e \in MCEpisodes |-> IF e = e2 THEN "task" ELSE "episodic"]
MCTs == [e \in MCEpisodes |-> IF e = e1 THEN 0 ELSE 1]
MCTools == [e \in MCEpisodes |-> IF e = e2 THEN 2 ELSE 0]
MCHits == [e \in MCEpisodes |-> IF e = e1 THEN 1 ELSE 0]

\* exp(-7 * age / half_life in days)
MCFade ==
    [m \in {"priority", "procedural", "semantic", "episodic", "task"} |->
        [age \in 0..MaxTime |->
            CASE age = 0 -> 1000
              [] age # 0 /\ m = "episodic" -> <<368, 135, 50>>[age]
              [] age # 0 /\ m = "semantic" -> <<607, 368, 223>>[age]
              [] age # 0 /\ m = "procedural" -> <<792, 627, 497>>[age]
              [] age # 0 /\ m = "priority" -> <<890, 792, 705>>[age]
              [] age # 0 /\ m = "task" -> <<925, 856, 792>>[age]]]
=============================================================================

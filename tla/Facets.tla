------------------------------- MODULE Facets -------------------------------
(***************************************************************************)
(* What the facet worker finds out about an episode (facet/classifier.py,  *)
(* tasks.py, entities.py and decisions.py), and what a query's text is     *)
(* asked for.  A text stands here as what the regular expressions match in *)
(* it; the operators say what becomes of the matches.                      *)
(***************************************************************************)
EXTENDS SequencesExt

\* Each value once, where it came first.
Once(s) == FoldLeft(LAMBDA out, x : IF Contains(out, x) THEN out ELSE Append(out, x), <<>>, s)

---------------------------------------------------------------------------
(* The type of an episode *)

\* has_open_task: any of the patterns, each named by its first word.
OpenTask == {"todo", "fixme", "xxx", "hack", "pending", "not yet", "still", "next step",
             "faltam", "ainda", "proximo"}
has_open_task(found) == found \intersect OpenTask # {}

\* classify: the first that applies.
Markers == {"priority", "procedural", "semantic"}
Classify(found) ==
    IF has_open_task(found) THEN "task"
    ELSE IF "priority" \in found THEN "priority"
    ELSE IF {"tools", "procedural"} \intersect found # {} THEN "procedural"
    ELSE IF "semantic" \in found THEN "semantic"
    ELSE "episodic"

---------------------------------------------------------------------------
(* What it links to in the graph *)

Kinds == <<"file", "url", "identifier", "command">>
Entity == [name : STRING, kind : ToSet(Kinds)]

\* extract_entities: one pattern after the other, and nothing twice.
Extracted(matches) ==
    FlattenSeq([k \in DOMAIN Kinds |-> Once(SelectSeq(matches, LAMBDA x : x.kind = Kinds[k]))])
NamesIn(s) == {s[i].name : i \in DOMAIN s}

\* extract_decisions: what _DECISION_PT, _DECISION_EN and _BECAUSE find, cut to
\* 200 characters.  A line with words of both languages is one decision; its
\* reason is another.
Decisions == [pt : Seq(STRING), en : Seq(STRING), because : Seq(STRING)]
extract_decisions(found) == Once(found.pt \o found.en \o found.because)

\* extract_code_refs: the calls that name a file, by path and operation.
NoPath == "(no path)"
Calls == Seq([name : STRING, path : STRING])
Op(name) ==
    CASE name = "Read" -> "read" [] name = "Write" -> "write" [] name = "Edit" -> "edit"
      [] name \in {"Bash", "PowerShell"} -> "run" [] OTHER -> "none"
extract_code_refs(calls) ==
    LET named == SelectSeq(calls, LAMBDA c : c.path # NoPath)
    IN Once([i \in DOMAIN named |-> [path |-> named[i].path, op |-> Op(named[i].name)]])

\* What _process_one merges behind an episode's node, in this order: a node per
\* name, path or decision, and an edge to it.
Message == [entities : Seq(Entity), calls : Calls, decisions : Decisions]
Facet == [edge : {"MENTIONS", "TOUCHED", "IMPLEMENTS"}, to : STRING]
FacetsOf(m) ==
    LET entities == Extracted(m.entities)
        refs == extract_code_refs(m.calls)
        decisions == extract_decisions(m.decisions)
    IN [i \in DOMAIN entities |-> [edge |-> "MENTIONS", to |-> entities[i].name]]
       \o [i \in DOMAIN refs |-> [edge |-> "TOUCHED", to |-> refs[i].path]]
       \o [i \in DOMAIN decisions |-> [edge |-> "IMPLEMENTS", to |-> decisions[i]]]
=============================================================================

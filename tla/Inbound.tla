------------------------------ MODULE Inbound ------------------------------
(***************************************************************************)
(* The size rule of an outbound request: _ltm_budget_for reserves room for *)
(* the memory block, _evict_inbound_to_ceiling trims the conversation,     *)
(* _retrieve_ltm_block fills the room and inject_ltm puts the block in     *)
(* (proxy/app.py, retriever/budget.py), under settings that                *)
(* `spillover ceiling` and `spillover pct` change in runtime.env (cli.py)  *)
(* while requests run.                                                     *)
(*                                                                         *)
(* The reserve is computed on the event loop, the rest in executor         *)
(* threads.  Every request loads runtime.env into os.environ, which they   *)
(* share, one line at a time.  Percentages are whole numbers out of 100;   *)
(* the commands refuse 90 and more, and the proxy's own environment, which *)
(* may say anything, is clamped.                                           *)
(***************************************************************************)
EXTENDS Integers, Sequences, FiniteSetsExt

CONSTANTS
    Requests,        \* requests being handled
    Payloads,        \* what clients send, in characters: [system, messages]
    Defaults,        \* the settings where neither file nor environment says
    Environments,    \* settings the proxy's environment may come with
    Options,         \* for each setting, the values a user may choose
    Writers,         \* runs of `spillover ceiling` and `spillover pct`
    Anchor,          \* anchor (2): first turns that are kept
    Recent,          \* recent_buffer (4): last turns that are kept
    PctMinTotal,     \* SPILLOVER_PCT_MIN_TOTAL_TOKENS (5000)
    MinBudget,       \* SPILLOVER_LTM_MIN_TOKENS (500)
    MaxBudget,       \* SPILLOVER_LTM_MAX_TOKENS (20000)
    Frame,           \* tokens of the text render_ltm_block puts around a block
    MaxChanges,      \* bound: settings a user changes
    MaxFaults        \* bound: failures to archive a turn

Keys == {"ceiling", "archive", "retrieval"}

ASSUME InboundAssumption ==
    /\ Defaults \in [Keys -> Nat] /\ Options \in [Keys -> SUBSET Nat]
    /\ \A e \in Environments : DOMAIN e \subseteq Keys /\ \A k \in DOMAIN e : e[k] \in Nat
    /\ Anchor \in Nat /\ Recent \in Nat /\ PctMinTotal \in Nat
    /\ MinBudget \in Nat /\ MaxBudget \in Nat /\ MinBudget <= MaxBudget
    /\ Frame \in Nat /\ MaxChanges \in Nat /\ MaxFaults \in Nat
    /\ Payloads \subseteq [system : Nat, messages : Seq([chars : Nat, tool : BOOLEAN])]

VARIABLES
    file,        \* the settings in runtime.env
    env,         \* the settings in os.environ of the proxy
    chosen,      \* the settings users have been told are in effect
    cli,         \* each writer's run: see NoRun
    clashed,     \* history: two runs have been under way at once
    req,         \* each request: see NoRequest
    changes,
    faults

vars == <<file, env, chosen, cli, clashed, req, changes, faults>>

---------------------------------------------------------------------------
(* Settings: a function on the keys that are set *)

Unset == [k \in {} |-> 0]
Override(settings, change) ==
    [k \in DOMAIN settings \union DOMAIN change |->
        IF k \in DOMAIN change THEN change[k] ELSE settings[k]]
Only(settings, S) == [k \in S |-> settings[k]]
Setting(settings, key) ==
    IF key \in DOMAIN settings THEN settings[key] ELSE Defaults[key]

InEffect == [k \in Keys |-> Setting(env, k)]

(* Sizes *)

\* ~1 token per 4 characters, and at least one for what is not empty.
count_tokens(chars) == IF chars = 0 THEN 0 ELSE Max({1, chars \div 4})

\* Every place in the code that needs a size counts anew, to the same effect.
Counted(p) ==
    [system |-> count_tokens(p.system),
     messages |-> [i \in DOMAIN p.messages |->
        [tokens |-> count_tokens(p.messages[i].chars), tool |-> p.messages[i].tool]]]

TokensAt(messages, S) == MapThenSumSet(LAMBDA i : messages[i].tokens, S)
Total(p) == p.system + TokensAt(p.messages, DOMAIN p.messages)
Percent(n, pct) == (n * pct) \div 100

\* A percentage outside [0.0, 0.9] counts as the nearer end.
Share(settings, key) == Max({0, Min({90, Setting(settings, key)})})

\* _ltm_budget_for
LtmBudget(settings, total) ==
    LET remaining == Percent(total, 100 - Share(settings, "archive"))
    IN  Max({MinBudget, Min({Percent(remaining, Share(settings, "retrieval")), MaxBudget})})

\* A mutation: the reserve is forgotten.
ToEvictUnreserved(settings, total, reserve) ==
    LET byPct == IF total >= PctMinTotal THEN Percent(total, Share(settings, "archive")) ELSE 0
    IN  Max({0, byPct, total - Setting(settings, "ceiling")})

\* What _evict_inbound_to_ceiling wants out of a payload.
ToEvict(settings, total, reserve) ==
    LET byPct == IF total >= PctMinTotal THEN Percent(total, Share(settings, "archive")) ELSE 0
        byCeiling == total - (Setting(settings, "ceiling") - reserve)
    IN  Max({0, byPct, byCeiling})

\* _is_safely_evictable, between the anchor and the recent turns.
Candidates(messages) ==
    {i \in (Anchor + 1)..(Len(messages) - Recent) : ~messages[i].tool}

---------------------------------------------------------------------------

NoRequest ==
    [pc |-> "idle",
     payload |-> [system |-> 0, messages |-> <<>>],
     reserve |-> 0,         \* retrieval_reserve
     seen |-> Unset,        \* the settings the reserve went by
     lines |-> Unset,       \* lines of runtime.env read and not yet applied
     used |-> Unset,        \* the settings the eviction went by
     goal |-> 0,            \* `ceiling`, what the payload should shrink to
     running |-> 0,
     at |-> 0,              \* the candidate at hand
     gone |-> {},           \* positions with keep_mask false
     failed |-> FALSE,      \* archive_raw raised
     block |-> 0,           \* tokens of the injected block, frame included
     steady |-> FALSE,      \* no setting has changed since the request came
     fresh |-> FALSE]       \* then no other had older lines still to apply

NoRun ==
    [pc |-> "idle",
     change |-> Unset,      \* what the user wants to set
     merged |-> Unset]      \* `existing`, what the file is to say

Init ==
    /\ file = Unset /\ env \in Environments /\ chosen = Unset
    /\ cli = [w \in Writers |-> NoRun]
    /\ clashed = FALSE
    /\ req = [r \in Requests |-> NoRequest]
    /\ changes = 0 /\ faults = 0

Writing == \E w \in Writers : cli[w].pc # "idle"

\* What a request has read and not applied is what runtime.env says.
NoOldLines(r) ==
    \A k \in DOMAIN req[r].lines : k \in DOMAIN file /\ req[r].lines[k] = file[k]

Arrive(r) ==
    /\ req[r].pc = "idle"
    /\ \E p \in Payloads :
        req' = [req EXCEPT ![r].pc = "reserve", ![r].payload = Counted(p),
                           ![r].steady = ~Writing,
                           ![r].fresh = \A q \in Requests : NoOldLines(q)]
    /\ UNCHANGED <<file, env, chosen, cli, clashed, changes, faults>>

Reserve(r) ==
    /\ req[r].pc = "reserve"
    /\ req' = [req EXCEPT ![r].pc = "load",
                          ![r].seen = InEffect,
                          ![r].reserve = LtmBudget(env, Total(req[r].payload))]
    /\ UNCHANGED <<file, env, chosen, cli, clashed, changes, faults>>

\* runtime.env is read in one piece; a request without messages does not look.
Load(r) ==
    /\ req[r].pc = "load"
    /\ req' = IF req[r].payload.messages = <<>>
              THEN [req EXCEPT ![r].pc = "retrieve"]
              ELSE [req EXCEPT ![r].pc = "apply", ![r].lines = file]
    /\ UNCHANGED <<file, env, chosen, cli, clashed, changes, faults>>

\* os.environ[k] = v, line by line.
Apply(r) ==
    /\ req[r].pc = "apply"
    /\ \/ /\ req[r].lines = Unset
          /\ req' = [req EXCEPT ![r].pc = "plan"]
          /\ UNCHANGED env
       \/ \E k \in DOMAIN req[r].lines :
          /\ env' = Override(env, Only(req[r].lines, {k}))
          /\ req' = [req EXCEPT ![r].lines = Only(@, DOMAIN @ \ {k})]
    /\ UNCHANGED <<file, chosen, cli, clashed, changes, faults>>

\* A mutation: the settings are read once, when the request comes.
PlanByDefaults(r) ==
    /\ req[r].pc = "plan"
    /\ LET total == Total(req[r].payload)
           wanted == ToEvict(Unset, total, req[r].reserve)
       IN  req' = [req EXCEPT
                     ![r].pc = IF wanted = 0 \/ Candidates(req[r].payload.messages) = {}
                               THEN "retrieve" ELSE "walk",
                     ![r].used = [k \in Keys |-> Setting(Unset, k)],
                     ![r].goal = Max({0, total - wanted}),
                     ![r].running = total,
                     ![r].at = Anchor + 1]
    /\ UNCHANGED <<file, env, chosen, cli, clashed, changes, faults>>

Plan(r) ==
    /\ req[r].pc = "plan"
    /\ LET total == Total(req[r].payload)
           wanted == ToEvict(env, total, req[r].reserve)
       IN  req' = [req EXCEPT
                     ![r].pc = IF wanted = 0 \/ Candidates(req[r].payload.messages) = {}
                               THEN "retrieve" ELSE "walk",
                     ![r].used = InEffect,
                     ![r].goal = Max({0, total - wanted}),
                     ![r].running = total,
                     ![r].at = Anchor + 1]
    /\ UNCHANGED <<file, env, chosen, cli, clashed, changes, faults>>

Message(r) == req[r].payload.messages[req[r].at]
WalkOver(r) ==
    \/ req[r].at > Len(req[r].payload.messages) - Recent
    \/ req[r].running <= req[r].goal
Drops(r) == ~Message(r).tool /\ Message(r).tokens > 0

\* archive_raw raises: the walk is over, what was dropped stays dropped.
Fail(r) ==
    /\ req[r].pc = "walk" /\ ~WalkOver(r) /\ Drops(r)
    /\ faults < MaxFaults
    /\ faults' = faults + 1
    /\ req' = [req EXCEPT ![r].pc = "retrieve", ![r].failed = TRUE]
    /\ UNCHANGED <<file, env, chosen, cli, clashed, changes>>

\* A mutation: running -= tok, in the try block and once more after it.
WalkCountingTwice(r) ==
    /\ req[r].pc = "walk"
    /\ req' =
         IF WalkOver(r) THEN [req EXCEPT ![r].pc = "retrieve"]
         ELSE IF Drops(r)
         THEN [req EXCEPT ![r].gone = @ \union {req[r].at}, ![r].at = @ + 1,
                          ![r].running = @ - 2 * Message(r).tokens]
         ELSE [req EXCEPT ![r].at = @ + 1]
    /\ UNCHANGED <<file, env, chosen, cli, clashed, changes, faults>>

\* One candidate: archived, and masked out.
Walk(r) ==
    /\ req[r].pc = "walk"
    /\ req' =
         IF WalkOver(r) THEN [req EXCEPT ![r].pc = "retrieve"]
         ELSE IF Drops(r)
         THEN [req EXCEPT ![r].gone = @ \union {req[r].at}, ![r].at = @ + 1,
                          ![r].running = @ - Message(r).tokens]
         ELSE [req EXCEPT ![r].at = @ + 1]
    /\ UNCHANGED <<file, env, chosen, cli, clashed, changes, faults>>

Survivors(r) == DOMAIN req[r].payload.messages \ req[r].gone
Trimmed(r) == req[r].payload.system + TokensAt(req[r].payload.messages, Survivors(r))
Outbound(r) == Trimmed(r) + req[r].block

\* trim_to_budget takes hits while their tokens fit; the frame is not counted.
\* Nothing is injected if there is no hit, the first is too large, or
\* retrieval raises.
Retrieve(r) ==
    /\ req[r].pc = "retrieve"
    /\ \E n \in 0..(IF Survivors(r) = {} THEN 0 ELSE LtmBudget(env, Trimmed(r))) :
        req' = [req EXCEPT ![r].pc = "forward",
                           ![r].block = IF n = 0 THEN 0 ELSE n + Frame]
    /\ UNCHANGED <<file, env, chosen, cli, clashed, changes, faults>>

Forward(r) ==
    /\ req[r].pc = "forward"
    /\ req' = [req EXCEPT ![r] = NoRequest]
    /\ UNCHANGED <<file, env, chosen, cli, clashed, changes, faults>>

---------------------------------------------------------------------------
(* spillover ceiling N; spillover pct --archive F, --retrieval F or both *)

Changes ==
    UNION {{f \in [S -> UNION {Options[k] : k \in S}] : \A k \in S : f[k] \in Options[k]} :
           S \in {{"ceiling"}, {"archive"}, {"retrieval"}, {"archive", "retrieval"}}}

\* A mutation: the file is written from scratch.
MergeNothing(w) ==
    /\ cli[w].pc = "idle" /\ changes < MaxChanges
    /\ \E change \in Changes :
        cli' = [cli EXCEPT ![w] = [pc |-> "open", change |-> change, merged |-> change]]
    /\ changes' = changes + 1
    /\ clashed' = (clashed \/ Writing)
    /\ req' = [r \in Requests |-> [req[r] EXCEPT !.steady = FALSE]]
    /\ UNCHANGED <<file, env, chosen, faults>>

\* Reads runtime.env and puts the change over what it has read.
Merge(w) ==
    /\ cli[w].pc = "idle" /\ changes < MaxChanges
    /\ \E change \in Changes :
        cli' = [cli EXCEPT ![w] = [pc |-> "open", change |-> change,
                                   merged |-> Override(file, change)]]
    /\ changes' = changes + 1
    /\ clashed' = (clashed \/ Writing)
    /\ req' = [r \in Requests |-> [req[r] EXCEPT !.steady = FALSE]]
    /\ UNCHANGED <<file, env, chosen, faults>>

\* write_text truncates the file ...
Truncate(w) ==
    /\ cli[w].pc = "open"
    /\ file' = Unset
    /\ cli' = [cli EXCEPT ![w].pc = "write"]
    /\ UNCHANGED <<env, chosen, clashed, req, changes, faults>>

\* ... and then writes it; the command reports the setting.  If another one has
\* written in between, what of its text is longer stays behind this one's.
Write(w) ==
    /\ cli[w].pc = "write"
    /\ \E rest \in SUBSET DOMAIN file : file' = Override(cli[w].merged, Only(file, rest))
    /\ chosen' = Override(chosen, cli[w].change)
    /\ cli' = [cli EXCEPT ![w] = NoRun]
    /\ UNCHANGED <<env, clashed, req, changes, faults>>

Next ==
    \/ \E r \in Requests :
        \/ Arrive(r) \/ Reserve(r) \/ Load(r) \/ Apply(r) \/ Plan(r)
        \/ Walk(r) \/ Fail(r) \/ Retrieve(r) \/ Forward(r)
    \/ \E w \in Writers : Merge(w) \/ Truncate(w) \/ Write(w)

Spec == Init /\ [][Next]_vars

---------------------------------------------------------------------------
(* Properties *)

TypeOK ==
    /\ DOMAIN file \subseteq Keys /\ DOMAIN env \subseteq Keys
    /\ \A r \in Requests :
        /\ req[r].pc \in {"idle", "reserve", "load", "apply", "plan", "walk", "retrieve", "forward"}
        /\ req[r].gone \subseteq DOMAIN req[r].payload.messages
        /\ req[r].running \in Nat /\ req[r].reserve \in Nat /\ req[r].goal \in Nat
    /\ changes \in 0..MaxChanges /\ faults \in 0..MaxFaults

Planned(r) == req[r].used # Unset
Evicted(r) == Planned(r) /\ req[r].pc \in {"retrieve", "forward"}
Droppable(r) ==
    {i \in Candidates(req[r].payload.messages) : req[r].payload.messages[i].tokens > 0}

\* The eviction does its share: unless a turn could not be archived, the
\* conversation is down to the ceiling less the reserve, and by the archive
\* percentage, or nothing is left that may go.  And it does no more, whatever
\* failed: the oldest turns go, and without the last of them the conversation
\* would still be too large.
TrimsAsNeeded ==
    \A r \in Requests : Evicted(r) =>
        /\ \/ req[r].failed
           \/ Droppable(r) \subseteq req[r].gone
           \/ Trimmed(r) <= Total(req[r].payload) -
                            ToEvict(req[r].used, Total(req[r].payload), req[r].reserve)
        /\ req[r].gone # {} =>
            LET last == Max(req[r].gone)
            IN  /\ {i \in Droppable(r) : i < last} \subseteq req[r].gone
                /\ Trimmed(r) + req[r].payload.messages[last].tokens > req[r].goal

\* The block is cut by a budget computed anew from the trimmed conversation.
\* As long as the two percentages have not changed since the reserve was, the
\* request as a whole fits: it is at most the frame over the ceiling, unless
\* eviction fell short.
FitsCeiling ==
    [][\A r \in Requests :
        /\ req[r].pc = "retrieve" /\ req'[r].pc = "forward"
        /\ Planned(r) /\ ~req[r].failed
        /\ \A k \in {"archive", "retrieval"} : req[r].seen[k] = InEffect[k]
        =>
        \/ Droppable(r) \subseteq req[r].gone
        \/ Outbound(r)' <= req[r].used["ceiling"] + Frame]_vars

\* cli.py:149, :159 and :182, "takes effect on next request": a request that
\* comes after the setting was written, and during which none changes, is trimmed
\* by what runtime.env says, however many others load and apply it beside this
\* one: unless one of those had read it before the change and was still applying
\* it to os.environ, which they share, when this one came.
SettingTakesEffect ==
    \A r \in Requests : req[r].steady /\ req[r].fresh /\ Planned(r) =>
        \A k \in DOMAIN file \ {"retrieval"} : req[r].used[k] = file[k]

\* cli.py:157: a setting persists.  When no command is running, runtime.env has
\* what the users last chose, unless two commands have been under way at once.
SettingPersists == ~Writing /\ ~clashed => file = chosen

\* What cli.py:149 says as it says it.  It does not hold of the code: another
\* request may put the older lines it read back in the environment.
NextRequestObeys ==
    \A r \in Requests : req[r].steady /\ Planned(r) =>
        \A k \in DOMAIN file \ {"retrieval"} : req[r].used[k] = file[k]

\* What cli.py:157 says as it says it.  It does not hold of the code: two
\* commands that read the file before either writes it lose one's setting.
ReportedIsKept == ~Writing => file = chosen
=============================================================================

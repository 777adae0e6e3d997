--------------------------- MODULE InboundProofs ---------------------------
(***************************************************************************)
(* Proofs about Inbound, for any payloads, defaults, options and sizes and *)
(* any number of changes.                                                  *)
(*                                                                         *)
(* First the settings: what a user chooses stays in runtime.env unless     *)
(* commands cross, and the next request goes by it unless one from before  *)
(* the last change is still applying what it read.  Then the sizes: what   *)
(* is trimmed of a conversation, and what the request comes to with its    *)
(* memory block.                                                           *)
(***************************************************************************)
EXTENDS Inbound, FiniteSetTheorems, SequenceTheorems, WellFoundedInduction, TLAPS

LEMMA OverrideDomain ==
    \A f, g : DOMAIN Override(f, g) = DOMAIN f \union DOMAIN g
BY DEF Override

LEMMA NothingSet == DOMAIN Unset = {}
BY DEF Unset

LEMMA NoOneSet ==
    /\ NoRun.pc = "idle" /\ NoRequest.pc = "idle"
    /\ NoRequest.steady = FALSE /\ NoRequest.lines = Unset /\ NoRequest.used = Unset
BY DEF NoRun, NoRequest

---------------------------------------------------------------------------
(* The file *)

\* As long as no two commands have crossed, one is about to write, over nothing,
\* what has been chosen with its change put over it, and between two commands
\* the file says what has been chosen.
FileInv ==
    /\ DOMAIN cli = Writers /\ \A w \in Writers : DOMAIN cli[w] = DOMAIN NoRun
    /\ SettingPersists
    /\ ~clashed => \A v, w \in Writers : cli[v].pc # "idle" /\ cli[w].pc # "idle" => v = w
    /\ ~clashed => \A w \in Writers :
        /\ cli[w].pc # "idle" => cli[w].merged = Override(chosen, cli[w].change)
        /\ cli[w].pc = "write" => file = Unset

\* What a command finds in the file is what has been chosen, if it runs alone.
LEMMA MergeKeeps ==
    ASSUME FileInv, NEW w \in Writers, Merge(w)
    PROVE  FileInv'
<1>1. PICK change \in Changes :
        cli' = [cli EXCEPT ![w] = [pc |-> "open", change |-> change,
                                   merged |-> Override(file, change)]]
  BY DEF Merge
<1>2. UNCHANGED <<file, chosen>> /\ clashed' = (clashed \/ Writing)
  BY DEF Merge
<1>3. cli'[w] = [pc |-> "open", change |-> change, merged |-> Override(file, change)]
  BY <1>1 DEF FileInv
<1>4. \A v \in Writers : v # w => cli'[v] = cli[v]
  BY <1>1 DEF FileInv
<1>5. DOMAIN cli'[w] = DOMAIN NoRun
  BY <1>3 DEF NoRun
<1>6. DOMAIN cli' = Writers /\ \A v \in Writers : DOMAIN cli'[v] = DOMAIN NoRun
  BY <1>1, <1>4, <1>5 DEF FileInv
<1>7. Writing'
  BY <1>3 DEF Writing
<1>8. CASE clashed'
  BY <1>6, <1>8 DEF FileInv, SettingPersists
<1>9. CASE ~clashed'
  <2>1. file = chosen /\ \A v \in Writers : v # w => cli'[v].pc = "idle"
    BY <1>2, <1>4, <1>9 DEF FileInv, SettingPersists, Writing
  <2> QED BY <1>2, <1>3, <1>6, <1>7, <2>1 DEF FileInv, SettingPersists
<1> QED BY <1>8, <1>9

LEMMA TruncateKeeps ==
    ASSUME FileInv, NEW w \in Writers, Truncate(w)
    PROVE  FileInv'
<1>1. /\ cli[w].pc = "open" /\ cli' = [cli EXCEPT ![w].pc = "write"]
      /\ file' = Unset /\ UNCHANGED <<chosen, clashed>>
  BY DEF Truncate
<1>2. /\ cli'[w].pc = "write" /\ cli'[w].merged = cli[w].merged
      /\ cli'[w].change = cli[w].change
      /\ \A v \in Writers : v # w => cli'[v] = cli[v]
  BY <1>1 DEF FileInv, NoRun
<1>3. DOMAIN cli' = Writers /\ \A v \in Writers : DOMAIN cli'[v] = DOMAIN NoRun
  BY <1>1 DEF FileInv
<1>4. Writing'
  BY <1>2 DEF Writing
<1> QED BY <1>1, <1>2, <1>3, <1>4 DEF FileInv, SettingPersists

LEMMA WriteKeeps ==
    ASSUME FileInv, NEW w \in Writers, Write(w)
    PROVE  FileInv'
<1>1. PICK rest \in SUBSET DOMAIN file : file' = Override(cli[w].merged, Only(file, rest))
  BY DEF Write
<1>2. /\ cli[w].pc = "write" /\ cli' = [cli EXCEPT ![w] = NoRun]
      /\ chosen' = Override(chosen, cli[w].change) /\ UNCHANGED clashed
  BY DEF Write
<1>3. DOMAIN cli' = Writers /\ \A v \in Writers : DOMAIN cli'[v] = DOMAIN NoRun
  BY <1>2 DEF FileInv
<1>4. CASE clashed
  BY <1>2, <1>3, <1>4 DEF FileInv, SettingPersists
<1>5. CASE ~clashed
  <2>1. DOMAIN file = {} /\ cli[w].merged = Override(chosen, cli[w].change)
    BY <1>2, <1>5, NothingSet DEF FileInv
  <2>2. Only(file, rest) = Unset
    BY <2>1 DEF Only, Unset
  <2>3. Override(cli[w].merged, Unset) = cli[w].merged
    BY <2>1, NothingSet DEF Override
  <2>4. file' = chosen'
    BY <1>1, <1>2, <2>1, <2>2, <2>3
  <2>5. \A v \in Writers : cli'[v].pc = "idle"
    BY <1>2, <1>5, NoOneSet DEF FileInv
  <2> QED BY <1>3, <2>4, <2>5 DEF FileInv, SettingPersists
<1> QED BY <1>4, <1>5

\* Requests only read the file.
LEMMA RequestKeeps ==
    ASSUME FileInv, UNCHANGED <<file, chosen, cli, clashed>>
    PROVE  FileInv'
BY DEF FileInv, SettingPersists, Writing

LEMMA FileStep ==
    ASSUME FileInv, [Next]_vars
    PROVE  FileInv'
<1>1. ASSUME NEW r \in Requests,
             \/ Arrive(r) \/ Reserve(r) \/ Load(r) \/ Apply(r) \/ Plan(r)
             \/ Walk(r) \/ Fail(r) \/ Retrieve(r) \/ Forward(r)
      PROVE  FileInv'
  <2>1. UNCHANGED <<file, chosen, cli, clashed>>
    BY <1>1 DEF Arrive, Reserve, Load, Apply, Plan, Walk, Fail, Retrieve, Forward
  <2> QED BY <2>1, RequestKeeps
<1>2. ASSUME NEW w \in Writers, Merge(w) \/ Truncate(w) \/ Write(w)
      PROVE  FileInv'
  BY <1>2, MergeKeeps, TruncateKeeps, WriteKeeps
<1>3. CASE UNCHANGED vars
  BY <1>3, RequestKeeps DEF vars
<1> QED BY <1>1, <1>2, <1>3 DEF Next

\* cli.py:157: whatever the commands and however many, runtime.env says what has
\* been chosen, setting by setting, whenever none of them is running, as long as
\* none has begun while another was.
THEOREM SettingIsKept == Spec => []SettingPersists
<1>1. Init => FileInv
  BY NoOneSet DEF Init, FileInv, SettingPersists
<1>2. FileInv /\ [Next]_vars => FileInv'
  BY FileStep
<1>3. FileInv => SettingPersists
  BY DEF FileInv
<1> QED BY <1>1, <1>2, <1>3, PTL DEF Spec

---------------------------------------------------------------------------
(* The requests *)

\* Every request has the fields it began with, and one that has not come has
\* gone by nothing.
Shape ==
    /\ DOMAIN req = Requests /\ \A r \in Requests : DOMAIN req[r] = DOMAIN NoRequest
    /\ \A r \in Requests : req[r].pc = "idle" => req[r].used = Unset /\ ~req[r].steady

\* What the file says of a setting the environment says too.
InEnv(k) == k \in DOMAIN env /\ env[k] = file[k]

\* Every line some request has still to apply is one of the file.  A request of
\* its own has applied what the file says, or has it still among its lines; and
\* what it went by stays right.
OnTheWay(r) ==
    /\ \A q \in Requests : NoOldLines(q)
    /\ req[r].pc = "apply" => \A k \in DOMAIN file : k \in DOMAIN req[r].lines \/ InEnv(k)
    /\ req[r].pc = "plan" => \A k \in DOMAIN file : InEnv(k)
    /\ Planned(r) => \A k \in DOMAIN file \ {"retrieval"} : req[r].used[k] = file[k]

Steady(r) ==
    req[r].steady => /\ ~Writing /\ req[r].pc # "idle"
                     /\ req[r].fresh => OnTheWay(r)

SettingNames == DOMAIN file \subseteq Keys

EffectInv == Shape /\ \A r \in Requests : Steady(r)

\* A step of one request that leaves the file alone keeps the others steady: its
\* lines are still the file's, and if it has applied one that was what the file
\* says.
LEMMA OthersSteady ==
    ASSUME EffectInv, NEW r \in Requests, UNCHANGED <<file, cli>>,
           NEW new, req' = [req EXCEPT ![r] = new],
           NoOldLines(r) => NoOldLines(r)',
           NoOldLines(r) => \A k \in DOMAIN file : InEnv(k) => InEnv(k)',
           NEW q \in Requests, q # r
    PROVE  Steady(q)'
<1>1. \A p \in Requests : p # r => req'[p] = req[p]
  BY DEF EffectInv, Shape
<1>2. req'[q] = req[q]
  BY <1>1
<1>3. Writing' = Writing
  BY DEF Writing
<1> SUFFICES ASSUME req[q].steady PROVE Steady(q)'
  BY <1>2 DEF Steady
<1>4. ~Writing' /\ req'[q].pc # "idle"
  BY <1>2, <1>3 DEF EffectInv, Steady
<1>5. ASSUME req[q].fresh PROVE OnTheWay(q)'
  <2>1. OnTheWay(q)
    BY <1>5 DEF EffectInv, Steady
  <2>2. \A p \in Requests : NoOldLines(p)'
    BY <1>1, <2>1 DEF OnTheWay, NoOldLines
  <2>3. \A k \in DOMAIN file : InEnv(k) => InEnv(k)'
    BY <2>1 DEF OnTheWay
  <2> QED BY <1>2, <2>1, <2>2, <2>3 DEF OnTheWay, Planned
<1> QED BY <1>2, <1>4, <1>5 DEF Steady

\* A step of a request before or after it applies its lines and makes its plan.
LEMMA QuietStep ==
    ASSUME EffectInv, NEW r \in Requests, UNCHANGED <<file, env, cli>>,
           NEW new, req' = [req EXCEPT ![r] = new],
           DOMAIN new = DOMAIN NoRequest, new.pc \notin {"idle", "plan"}, req[r].pc # "idle",
           (new.lines = req[r].lines /\ new.pc # "apply") \/ new.lines = file,
           new.used = req[r].used, new.steady = req[r].steady, new.fresh = req[r].fresh
    PROVE  EffectInv'
<1>1. req'[r] = new /\ DOMAIN req' = Requests /\ \A q \in Requests : q # r => req'[q] = req[q]
  BY DEF EffectInv, Shape
<1>2. Shape'
  BY <1>1 DEF EffectInv, Shape
<1>3. NoOldLines(r) => NoOldLines(r)'
  BY <1>1 DEF NoOldLines
<1>4. \A k : InEnv(k)' = InEnv(k)
  BY DEF InEnv
<1>5. \A q \in Requests : q # r => Steady(q)'
  BY <1>3, <1>4, OthersSteady
<1>6. Steady(r)'
  <2> SUFFICES ASSUME req[r].steady PROVE Steady(r)'
    BY <1>1 DEF Steady
  <2>1. ~Writing' /\ req'[r].pc # "idle"
    BY <1>1 DEF EffectInv, Steady, Writing
  <2>2. ASSUME req[r].fresh PROVE OnTheWay(r)'
    <3>1. OnTheWay(r)
      BY <2>2 DEF EffectInv, Steady
    <3>2. \A p \in Requests : NoOldLines(p)'
      BY <1>1, <1>3, <3>1 DEF OnTheWay, NoOldLines
    <3> QED BY <1>1, <3>1, <3>2 DEF OnTheWay, Planned
  <2> QED BY <1>1, <2>1, <2>2 DEF Steady
<1> QED BY <1>2, <1>5, <1>6 DEF EffectInv

LEMMA ArriveSettings ==
    ASSUME EffectInv, NEW r \in Requests, Arrive(r)
    PROVE  EffectInv'
<1>1. PICK p \in Payloads :
        req' = [req EXCEPT ![r].pc = "reserve", ![r].payload = Counted(p),
                           ![r].steady = ~Writing,
                           ![r].fresh = \A q \in Requests : NoOldLines(q)]
  BY DEF Arrive
<1> DEFINE free == \A q \in Requests : NoOldLines(q)
           new == [req[r] EXCEPT !.pc = "reserve", !.payload = Counted(p), !.steady = ~Writing,
                                 !.fresh = free]
<1>2. /\ req' = [req EXCEPT ![r] = new] /\ UNCHANGED <<file, env, cli>>
  BY <1>1 DEF Arrive
<1> HIDE DEF free
<1>3. /\ DOMAIN new = DOMAIN NoRequest /\ new.pc = "reserve" /\ new.lines = req[r].lines
      /\ new.used = Unset /\ new.steady = ~Writing /\ new.fresh = free
  <2>1. DOMAIN req[r] = DOMAIN NoRequest /\ req[r].used = Unset
    BY DEF Arrive, EffectInv, Shape
  <2> QED BY <2>1 DEF NoRequest
<1> HIDE DEF new
<1>4. req'[r] = new /\ DOMAIN req' = Requests /\ \A q \in Requests : q # r => req'[q] = req[q]
  BY <1>2 DEF EffectInv, Shape
<1>5. Shape'
  BY <1>3, <1>4 DEF EffectInv, Shape
<1>6. \A q \in Requests : NoOldLines(q)' = NoOldLines(q)
  BY <1>2, <1>3, <1>4 DEF NoOldLines
<1>7. Steady(r)'
  BY <1>2, <1>3, <1>4, <1>6 DEF Steady, OnTheWay, Planned, Writing, free
<1>8. \A q \in Requests : q # r => Steady(q)'
  BY <1>2, <1>6, OthersSteady DEF InEnv
<1> QED BY <1>5, <1>7, <1>8 DEF EffectInv

LEMMA ReserveSettings ==
    ASSUME EffectInv, NEW r \in Requests, Reserve(r)
    PROVE  EffectInv'
<1> DEFINE new == [req[r] EXCEPT !.pc = "load", !.seen = InEffect,
                                 !.reserve = LtmBudget(env, Total(req[r].payload))]
<1>1. /\ req' = [req EXCEPT ![r] = new] /\ UNCHANGED <<file, env, cli>>
      /\ req[r].pc = "reserve"
  BY DEF Reserve
<1>2. /\ DOMAIN new = DOMAIN NoRequest /\ new.pc = "load" /\ new.lines = req[r].lines
      /\ new.used = req[r].used /\ new.steady = req[r].steady /\ new.fresh = req[r].fresh
  BY DEF EffectInv, Shape, NoRequest
<1> HIDE DEF new
<1> QED BY <1>1, <1>2, QuietStep

LEMMA LoadSettings ==
    ASSUME EffectInv, NEW r \in Requests, Load(r)
    PROVE  EffectInv'
<1>1. UNCHANGED <<file, env, cli>> /\ req[r].pc = "load"
  BY DEF Load
<1>2. CASE req[r].payload.messages = <<>>
  <2> DEFINE new == [req[r] EXCEPT !.pc = "retrieve"]
  <2>1. req' = [req EXCEPT ![r] = new]
    BY <1>2 DEF Load
  <2>2. /\ DOMAIN new = DOMAIN NoRequest /\ new.pc = "retrieve" /\ new.lines = req[r].lines
        /\ new.used = req[r].used /\ new.steady = req[r].steady /\ new.fresh = req[r].fresh
    BY DEF EffectInv, Shape, NoRequest
  <2> HIDE DEF new
  <2> QED BY <1>1, <2>1, <2>2, QuietStep
<1>3. CASE req[r].payload.messages # <<>>
  <2> DEFINE new == [req[r] EXCEPT !.pc = "apply", !.lines = file]
  <2>1. req' = [req EXCEPT ![r] = new]
    BY <1>3 DEF Load
  <2>2. /\ DOMAIN new = DOMAIN NoRequest /\ new.pc = "apply" /\ new.lines = file
        /\ new.used = req[r].used /\ new.steady = req[r].steady /\ new.fresh = req[r].fresh
    BY DEF EffectInv, Shape, NoRequest
  <2> HIDE DEF new
  <2> QED BY <1>1, <2>1, <2>2, QuietStep
<1> QED BY <1>2, <1>3

LEMMA PlanSettings ==
    ASSUME EffectInv, SettingNames, NEW r \in Requests, Plan(r)
    PROVE  EffectInv'
<1>1. UNCHANGED <<file, env, cli>> /\ req[r].pc = "plan"
  BY DEF Plan
<1> DEFINE total == Total(req[r].payload)
           wanted == ToEvict(env, total, req[r].reserve)
           new == [req[r] EXCEPT
                     !.pc = IF wanted = 0 \/ Candidates(req[r].payload.messages) = {}
                            THEN "retrieve" ELSE "walk",
                     !.used = InEffect,
                     !.goal = Max({0, total - wanted}),
                     !.running = total,
                     !.at = Anchor + 1]
<1>2. req' = [req EXCEPT ![r] = new]
  BY DEF Plan
<1>3. /\ DOMAIN new = DOMAIN NoRequest /\ new.pc \in {"retrieve", "walk"}
      /\ new.lines = req[r].lines /\ new.used = InEffect
      /\ new.steady = req[r].steady /\ new.fresh = req[r].fresh
  BY DEF EffectInv, Shape, NoRequest
<1> HIDE DEF new
<1>4. req'[r] = new /\ DOMAIN req' = Requests /\ \A q \in Requests : q # r => req'[q] = req[q]
  BY <1>2 DEF EffectInv, Shape
<1>5. Shape'
  BY <1>3, <1>4 DEF EffectInv, Shape
<1>6. \A q \in Requests : NoOldLines(q)' = NoOldLines(q)
  BY <1>1, <1>3, <1>4 DEF NoOldLines
<1>7. Steady(r)'
  <2> SUFFICES ASSUME req[r].steady PROVE Steady(r)'
    BY <1>3, <1>4 DEF Steady
  <2>1. ~Writing' /\ req'[r].pc # "idle"
    BY <1>1, <1>3, <1>4 DEF EffectInv, Steady, Writing
  <2>2. ASSUME req[r].fresh PROVE OnTheWay(r)'
    <3>1. (\A q \in Requests : NoOldLines(q)) /\ \A k \in DOMAIN file : InEnv(k)
      BY <1>1, <2>2 DEF EffectInv, Steady, OnTheWay
    <3>2. \A k \in DOMAIN file : InEffect[k] = file[k]
      BY <3>1 DEF InEffect, Setting, InEnv, SettingNames
    <3> QED BY <1>1, <1>3, <1>4, <1>6, <3>1, <3>2 DEF OnTheWay, Planned
  <2> QED BY <1>3, <1>4, <2>1, <2>2 DEF Steady
<1>8. \A q \in Requests : q # r => Steady(q)'
  BY <1>1, <1>2, <1>6, OthersSteady DEF InEnv
<1> QED BY <1>5, <1>7, <1>8 DEF EffectInv

LEMMA ForwardSettings ==
    ASSUME EffectInv, NEW r \in Requests, Forward(r)
    PROVE  EffectInv'
<1>1. req' = [req EXCEPT ![r] = NoRequest] /\ UNCHANGED <<file, env, cli>>
  BY DEF Forward
<1>2. req'[r] = NoRequest /\ DOMAIN req' = Requests /\ \A q \in Requests : q # r => req'[q] = req[q]
  BY <1>1 DEF EffectInv, Shape
<1>3. Shape' /\ Steady(r)'
  BY <1>2, NoOneSet DEF EffectInv, Shape, Steady
<1>4. NoOldLines(r)'
  BY <1>2, NoOneSet, NothingSet DEF NoOldLines
<1>5. \A q \in Requests : q # r => Steady(q)'
  BY <1>1, <1>4, OthersSteady DEF InEnv
<1> QED BY <1>3, <1>5 DEF EffectInv

\* Line by line, what the file says goes to the environment.  Where another
\* request is steady, the line is what the file still says.
LEMMA ApplySettings ==
    ASSUME EffectInv, NEW r \in Requests, Apply(r)
    PROVE  EffectInv'
<1>1. UNCHANGED <<file, cli>> /\ req[r].pc = "apply"
  BY DEF Apply
<1>2. ASSUME NEW new, req' = [req EXCEPT ![r] = new], DOMAIN new = DOMAIN NoRequest,
             new.pc \in {"apply", "plan"}, new.used = req[r].used,
             new.steady = req[r].steady, new.fresh = req[r].fresh,
             NoOldLines(r) => NoOldLines(r)',
             NoOldLines(r) => \A k \in DOMAIN file :
                /\ InEnv(k) => InEnv(k)'
                /\ k \in DOMAIN req[r].lines => (new.pc = "apply" /\ k \in DOMAIN new.lines) \/ InEnv(k)'
      PROVE  EffectInv'
  <2>1. req'[r] = new /\ DOMAIN req' = Requests /\ \A q \in Requests : q # r => req'[q] = req[q]
    BY <1>2 DEF EffectInv, Shape
  <2>2. Shape'
    BY <1>2, <2>1 DEF EffectInv, Shape
  <2>3. \A q \in Requests : q # r => Steady(q)'
    BY <1>1, <1>2, OthersSteady
  <2>4. Steady(r)'
    <3> SUFFICES ASSUME req[r].steady PROVE Steady(r)'
      BY <1>2, <2>1 DEF Steady
    <3>1. ~Writing' /\ req'[r].pc # "idle"
      BY <1>1, <1>2, <2>1 DEF EffectInv, Steady, Writing
    <3>2. ASSUME req[r].fresh PROVE OnTheWay(r)'
      <4>1. /\ \A q \in Requests : NoOldLines(q)
            /\ \A k \in DOMAIN file : k \in DOMAIN req[r].lines \/ InEnv(k)
            /\ Planned(r) => \A k \in DOMAIN file \ {"retrieval"} : req[r].used[k] = file[k]
        BY <1>1, <3>2 DEF EffectInv, Steady, OnTheWay
      <4>2. \A q \in Requests : NoOldLines(q)'
        BY <1>1, <1>2, <2>1, <4>1 DEF NoOldLines
      <4>3. \A k \in DOMAIN file : (new.pc = "apply" /\ k \in DOMAIN new.lines) \/ InEnv(k)'
        BY <1>2, <4>1
      <4> QED BY <1>1, <1>2, <2>1, <4>1, <4>2, <4>3 DEF OnTheWay, Planned
    <3> QED BY <1>2, <2>1, <3>1, <3>2 DEF Steady
  <2> QED BY <2>2, <2>3, <2>4 DEF EffectInv
<1>3. CASE req[r].lines = Unset /\ req' = [req EXCEPT ![r].pc = "plan"] /\ UNCHANGED env
  <2> DEFINE new == [req[r] EXCEPT !.pc = "plan"]
  <2>1. req' = [req EXCEPT ![r] = new]
    BY <1>3
  <2>2. /\ DOMAIN new = DOMAIN NoRequest /\ new.pc = "plan" /\ new.lines = req[r].lines
        /\ new.used = req[r].used /\ new.steady = req[r].steady /\ new.fresh = req[r].fresh
    BY DEF EffectInv, Shape, NoRequest
  <2> HIDE DEF new
  <2>3. NoOldLines(r) => NoOldLines(r)'
    <3>1. req'[r] = new
      BY <2>1 DEF EffectInv, Shape
    <3> QED BY <1>1, <2>2, <3>1 DEF NoOldLines
  <2>4. \A k \in DOMAIN file : /\ InEnv(k) => InEnv(k)'
                              /\ k \notin DOMAIN req[r].lines
    BY <1>1, <1>3, NothingSet DEF InEnv
  <2> QED BY <1>2, <2>1, <2>2, <2>3, <2>4
<1>4. ASSUME NEW k \in DOMAIN req[r].lines,
             env' = Override(env, Only(req[r].lines, {k})),
             req' = [req EXCEPT ![r].lines = Only(@, DOMAIN @ \ {k})]
      PROVE  EffectInv'
  <2> DEFINE rest == Only(req[r].lines, DOMAIN req[r].lines \ {k})
             new == [req[r] EXCEPT !.lines = rest]
  <2>1. /\ DOMAIN rest = DOMAIN req[r].lines \ {k}
        /\ \A l \in DOMAIN rest : rest[l] = req[r].lines[l]
    BY DEF Only
  <2>2. /\ DOMAIN env' = DOMAIN env \union {k} /\ env'[k] = req[r].lines[k]
        /\ \A l \in DOMAIN env : l # k => env'[l] = env[l]
    BY <1>4 DEF Only, Override
  <2> HIDE DEF rest
  <2>3. req' = [req EXCEPT ![r] = new]
    BY <1>4 DEF rest
  <2>4. /\ DOMAIN new = DOMAIN NoRequest /\ new.pc = "apply" /\ new.lines = rest
        /\ new.used = req[r].used /\ new.steady = req[r].steady /\ new.fresh = req[r].fresh
    BY <1>1 DEF EffectInv, Shape, NoRequest
  <2> HIDE DEF new
  <2>5. NoOldLines(r) => NoOldLines(r)'
    <3>1. req'[r] = new
      BY <2>3 DEF EffectInv, Shape
    <3> QED BY <1>1, <2>1, <2>4, <3>1 DEF NoOldLines
  <2>6. ASSUME NoOldLines(r), NEW l \in DOMAIN file
        PROVE  /\ InEnv(l) => InEnv(l)'
               /\ l \in DOMAIN req[r].lines => (new.pc = "apply" /\ l \in DOMAIN new.lines) \/ InEnv(l)'
    <3>1. k \in DOMAIN file /\ req[r].lines[k] = file[k]
      BY <2>6 DEF NoOldLines
    <3> QED BY <1>1, <2>1, <2>2, <2>4, <3>1 DEF InEnv
  <2> QED BY <1>2, <2>3, <2>4, <2>5, <2>6
<1> QED BY <1>3, <1>4 DEF Apply

LEMMA WalkSettings ==
    ASSUME EffectInv, NEW r \in Requests, Walk(r) \/ Fail(r) \/ Retrieve(r)
    PROVE  EffectInv'
<1>1. UNCHANGED <<file, env, cli>> /\ req[r].pc \in {"walk", "retrieve"}
  BY DEF Walk, Fail, Retrieve
<1>2. DOMAIN req[r] = DOMAIN NoRequest
  BY DEF EffectInv, Shape
<1>3. CASE Walk(r)
  <2>1. CASE WalkOver(r)
    <3>1. req' = [req EXCEPT ![r] = [req[r] EXCEPT !.pc = "retrieve"]]
      BY <1>3, <2>1 DEF Walk
    <3> QED BY <1>1, <1>2, <3>1, QuietStep DEF NoRequest
  <2>2. CASE ~WalkOver(r) /\ Drops(r)
    <3>1. req' = [req EXCEPT ![r] = [req[r] EXCEPT !.gone = @ \union {req[r].at}, !.at = @ + 1,
                                                   !.running = @ - Message(r).tokens]]
      BY <1>3, <2>2 DEF Walk
    <3> QED BY <1>1, <1>2, <1>3, <3>1, QuietStep DEF NoRequest, Walk
  <2>3. CASE ~WalkOver(r) /\ ~Drops(r)
    <3>1. req' = [req EXCEPT ![r] = [req[r] EXCEPT !.at = @ + 1]]
      BY <1>3, <2>3 DEF Walk
    <3> QED BY <1>1, <1>2, <1>3, <3>1, QuietStep DEF NoRequest, Walk
  <2> QED BY <2>1, <2>2, <2>3
<1>4. CASE Fail(r)
  <2>1. req' = [req EXCEPT ![r] = [req[r] EXCEPT !.pc = "retrieve", !.failed = TRUE]]
    BY <1>4 DEF Fail
  <2> QED BY <1>1, <1>2, <2>1, QuietStep DEF NoRequest
<1>5. CASE Retrieve(r)
  <2>1. PICK n \in 0..(IF Survivors(r) = {} THEN 0 ELSE LtmBudget(env, Trimmed(r))) :
          req' = [req EXCEPT ![r] = [req[r] EXCEPT !.pc = "forward",
                                                   !.block = IF n = 0 THEN 0 ELSE n + Frame]]
    BY <1>5 DEF Retrieve
  <2> QED BY <1>1, <1>2, <2>1, QuietStep DEF NoRequest
<1> QED BY <1>3, <1>4, <1>5

\* A change that is being made is one no request is steady across.
LEMMA CommandSettings ==
    ASSUME EffectInv, NEW w \in Writers, DOMAIN cli = Writers,
           Merge(w) \/ Truncate(w) \/ Write(w)
    PROVE  EffectInv'
<1>1. CASE Merge(w)
  <2>1. req' = [r \in Requests |-> [req[r] EXCEPT !.steady = FALSE]]
    BY <1>1 DEF Merge
  <2>2. ASSUME NEW r \in Requests
        PROVE  /\ DOMAIN req'[r] = DOMAIN NoRequest /\ req'[r].pc = req[r].pc
               /\ req'[r].steady = FALSE /\ req'[r].used = req[r].used
    <3>1. req'[r] = [req[r] EXCEPT !.steady = FALSE]
      BY <2>1
    <3> QED BY <3>1 DEF EffectInv, Shape, NoRequest
  <2> QED BY <2>1, <2>2 DEF EffectInv, Shape, Steady
<1>2. CASE Truncate(w) \/ Write(w)
  <2>1. Writing /\ UNCHANGED req
    BY <1>2 DEF Truncate, Write, Writing
  <2>2. \A r \in Requests : ~req[r].steady
    BY <2>1 DEF EffectInv, Steady
  <2> QED BY <2>1, <2>2 DEF EffectInv, Shape, Steady
<1> QED BY <1>1, <1>2

LEMMA SettingsStep ==
    ASSUME EffectInv, SettingNames, DOMAIN cli = Writers, [Next]_vars
    PROVE  EffectInv'
<1>1. ASSUME NEW r \in Requests,
             \/ Arrive(r) \/ Reserve(r) \/ Load(r) \/ Apply(r) \/ Plan(r)
             \/ Walk(r) \/ Fail(r) \/ Retrieve(r) \/ Forward(r)
      PROVE  EffectInv'
  BY <1>1, ArriveSettings, ReserveSettings, LoadSettings, ApplySettings, PlanSettings,
     WalkSettings, ForwardSettings
<1>2. ASSUME NEW w \in Writers, Merge(w) \/ Truncate(w) \/ Write(w)
      PROVE  EffectInv'
  BY <1>2, CommandSettings
<1>3. CASE UNCHANGED vars
  BY <1>3 DEF vars, Shape, EffectInv, Steady, OnTheWay, NoOldLines, InEnv, Planned, Writing
<1> QED BY <1>1, <1>2, <1>3 DEF Next

---------------------------------------------------------------------------
(* Sums of tokens.  The induction theorems of the library take an operator; *)
(* what is used of them here is that a set of numbers, or of finite sets,   *)
(* that is not empty has a least member, so that a statement that fails for *)
(* some set fails for a smallest one.                                       *)

LEMMA LeastNumber ==
    ASSUME NEW Bad, Bad \subseteq Nat, Bad # {}
    PROVE  \E n \in Bad : \A k \in Bad : ~(k < n)
<1>1. \E n \in Bad : \A k \in Bad : ~(<<k, n>> \in OpToRel(<, Nat))
  BY NatLessThanWellFounded, WFMin
<1> QED BY <1>1 DEF OpToRel

LEMMA LeastSet ==
    ASSUME NEW S, IsFiniteSet(S), NEW Bad, Bad \subseteq SUBSET S, Bad # {}
    PROVE  \E T \in Bad : \A U \in Bad : U \subseteq T => U = T
<1>1. IsWellFoundedOn(StrictSubsetOrdering(S), SUBSET S)
  BY FS_FiniteSubsetsOfFinite, FS_StrictSubsetOrderingWellFounded
<1>2. \E T \in Bad : \A U \in Bad : ~(<<U, T>> \in StrictSubsetOrdering(S))
  BY <1>1, WFMin
<1> QED BY <1>2 DEF StrictSubsetOrdering

\* The member of a set that the sum takes first.
First(S) == CHOOSE x \in S : TRUE

LEMMA FirstIsMember == \A S : S # {} => First(S) \in S
BY DEF First

SumFrom(messages, sums, S) ==
    IF S = {} THEN 0 ELSE messages[First(S)].tokens + sums[S \ {First(S)}]

AreSums(messages, sums, S) ==
    sums = [T \in SUBSET S |-> sums[T]] /\ \A T \in SUBSET S : sums[T] = SumFrom(messages, sums, T)

\* The recursion of MapThenFoldSet defines a function: the sums of the sets of
\* n members make those of the sets of n + 1.
LEMMA SumsExist ==
    ASSUME NEW messages, NEW S, IsFiniteSet(S)
    PROVE  \E sums : AreSums(messages, sums, S)
<1> DEFINE Upto(sums, n) ==
             /\ sums = [T \in SUBSET S |-> sums[T]]
             /\ \A T \in SUBSET S : Cardinality(T) <= n => sums[T] = SumFrom(messages, sums, T)
           Bad == {n \in Nat : ~\E sums : Upto(sums, n)}
<1>1. \E sums : Upto(sums, 0)
  <2> DEFINE zero == [T \in SUBSET S |-> 0]
  <2>1. \A T \in SUBSET S : Cardinality(T) <= 0 => T = {}
    BY FS_Subset, FS_EmptySet, FS_CardinalityType
  <2>2. Upto(zero, 0)
    BY <2>1 DEF SumFrom
  <2> HIDE DEF zero
  <2> QED BY <2>2
<1>2. ASSUME NEW n \in Nat, NEW sums, Upto(sums, n)
      PROVE  \E more : Upto(more, n + 1)
  <2> DEFINE more == [T \in SUBSET S |-> SumFrom(messages, sums, T)]
  <2>1. ASSUME NEW T \in SUBSET S, Cardinality(T) <= n + 1
        PROVE  more[T] = SumFrom(messages, more, T)
    <3>1. CASE T = {}
      BY <3>1 DEF SumFrom
    <3>2. CASE T # {}
      <4> DEFINE rest == T \ {First(T)}
      <4>1. rest \in SUBSET S /\ Cardinality(rest) <= n
        BY <2>1, <3>2, FirstIsMember, FS_Subset, FS_RemoveElement, FS_CardinalityType
      <4>2. more[rest] = sums[rest]
        BY <1>2, <4>1
      <4> QED BY <3>2, <4>1, <4>2 DEF SumFrom
    <3> QED BY <3>1, <3>2
  <2>2. more = [T \in SUBSET S |-> more[T]]
    OBVIOUS
  <2> HIDE DEF more
  <2> QED BY <2>1, <2>2
<1> HIDE DEF Upto
<1>3. Bad = {}
  <2> SUFFICES ASSUME Bad # {} PROVE FALSE
    OBVIOUS
  <2>1. PICK n \in Bad : \A k \in Bad : ~(k < n)
    BY LeastNumber
  <2>2. n # 0
    BY <1>1
  <2>3. n - 1 \in Nat /\ n - 1 \notin Bad
    BY <2>1, <2>2
  <2> QED BY <1>2, <2>3
<1>4. Cardinality(S) \in Nat
  BY FS_CardinalityType
<1>5. PICK sums : Upto(sums, Cardinality(S))
  BY <1>3, <1>4
<1>6. AreSums(messages, sums, S)
  BY <1>5, FS_Subset DEF Upto, AreSums
<1> QED BY <1>6

LEMMA TokensAtIsSum ==
    ASSUME NEW messages, NEW S, IsFiniteSet(S)
    PROVE  \E sums : AreSums(messages, sums, S) /\ TokensAt(messages, S) = sums[S]
<1> DEFINE Equation(sums) ==
             sums = [T \in SUBSET S |->
                        IF T = {} THEN 0
                        ELSE LET x == CHOOSE x \in T : TRUE
                             IN  messages[x].tokens + sums[T \ {x}]]
           iter == CHOOSE sums : Equation(sums)
<1>1. PICK sums : AreSums(messages, sums, S)
  BY SumsExist
<1>2. Equation(sums)
  BY <1>1 DEF AreSums, SumFrom, First
<1>3. TokensAt(messages, S) = iter[S]
  BY DEF TokensAt, MapThenSumSet, MapThenFoldSet
<1>4. Equation(iter)
  <2> HIDE DEF Equation
  <2> QED BY <1>2
<1>5. \A f : Equation(f) => AreSums(messages, f, S)
  <2> SUFFICES ASSUME NEW f, Equation(f) PROVE AreSums(messages, f, S)
    OBVIOUS
  <2>1. \A T \in SUBSET S : f[T] = SumFrom(messages, f, T)
    BY Zenon DEF SumFrom, First
  <2>2. f = [T \in SUBSET S |-> SumFrom(messages, f, T)]
    BY Zenon DEF SumFrom, First
  <2>3. f = [T \in SUBSET S |-> f[T]]
    BY <2>2, Zenon
  <2> HIDE DEF Equation
  <2> QED BY <2>1, <2>3 DEF AreSums
<1> HIDE DEF iter, Equation
<1> QED BY <1>3, <1>4, <1>5

LEMMA SumsAgree ==
    ASSUME NEW messages, NEW S, NEW T \in SUBSET S, IsFiniteSet(T),
           NEW f, AreSums(messages, f, S), NEW g, AreSums(messages, g, T)
    PROVE  f[T] = g[T]
<1> DEFINE Bad == {U \in SUBSET T : f[U] # g[U]}
<1> SUFFICES ASSUME Bad # {} PROVE FALSE
  OBVIOUS
<1>1. PICK U \in Bad : \A V \in Bad : V \subseteq U => V = U
  <2>1. Bad \subseteq SUBSET T
    OBVIOUS
  <2> HIDE DEF Bad
  <2> QED BY <2>1, LeastSet
<1>2. f[U] = SumFrom(messages, f, U) /\ g[U] = SumFrom(messages, g, U)
  BY DEF AreSums
<1>3. U # {}
  BY <1>2 DEF SumFrom
<1>4. f[U \ {First(U)}] = g[U \ {First(U)}]
  BY <1>1, <1>3, FirstIsMember
<1> QED BY <1>2, <1>4 DEF SumFrom

LEMMA SumUnfolds ==
    ASSUME NEW messages, NEW S, IsFiniteSet(S)
    PROVE  TokensAt(messages, S) =
               IF S = {} THEN 0
               ELSE messages[First(S)].tokens + TokensAt(messages, S \ {First(S)})
<1> DEFINE rest == S \ {First(S)}
<1>1. PICK f : AreSums(messages, f, S) /\ TokensAt(messages, S) = f[S]
  BY TokensAtIsSum
<1>2. IsFiniteSet(rest) /\ rest \in SUBSET S
  BY FS_Subset
<1>3. PICK g : AreSums(messages, g, rest) /\ TokensAt(messages, rest) = g[rest]
  BY <1>2, TokensAtIsSum
<1>4. f[rest] = g[rest]
  BY <1>1, <1>2, <1>3, SumsAgree
<1>5. f[S] = SumFrom(messages, f, S)
  BY <1>1 DEF AreSums
<1> QED BY <1>1, <1>3, <1>4, <1>5 DEF SumFrom

\* The order of a sum does not matter.
LEMMA SumWithout ==
    ASSUME NEW messages, NEW S, IsFiniteSet(S), \A i \in S : messages[i].tokens \in Nat
    PROVE  /\ TokensAt(messages, S) \in Nat
           /\ \A x \in S : TokensAt(messages, S) =
                           messages[x].tokens + TokensAt(messages, S \ {x})
<1> DEFINE Right(T) ==
             /\ TokensAt(messages, T) \in Nat
             /\ \A x \in T : TokensAt(messages, T) =
                             messages[x].tokens + TokensAt(messages, T \ {x})
           Bad == {T \in SUBSET S : ~Right(T)}
<1>1. SUFFICES ASSUME Bad # {} PROVE FALSE
  BY Zenon
<1>2. PICK T \in Bad : \A U \in Bad : U \subseteq T => U = T
  <2>1. Bad \subseteq SUBSET S
    OBVIOUS
  <2> HIDE DEF Bad
  <2> QED BY <1>1, <2>1, LeastSet
<1>3. \A U \in SUBSET T : U # T => Right(U)
  BY <1>2
<1>4. IsFiniteSet(T) /\ \A x : IsFiniteSet(T \ {x})
  BY FS_Subset
<1> DEFINE c == First(T)
<1>5. T # {}
  <2> SUFFICES ASSUME T = {} PROVE Right(T)
    BY <1>2
  <2>1. TokensAt(messages, T) = 0
    BY <1>4, SumUnfolds
  <2> QED BY <2>1
<1>6. c \in T /\ TokensAt(messages, T) = messages[c].tokens + TokensAt(messages, T \ {c})
  BY <1>4, <1>5, SumUnfolds, FirstIsMember
<1> HIDE DEF c
<1>7. Right(T \ {c})
  BY <1>3, <1>6
<1>8. TokensAt(messages, T) \in Nat
  BY <1>6, <1>7
<1>9. ASSUME NEW x \in T, x # c
      PROVE  TokensAt(messages, T) = messages[x].tokens + TokensAt(messages, T \ {x})
  <2>1. TokensAt(messages, T \ {c}) = messages[x].tokens + TokensAt(messages, (T \ {c}) \ {x})
    BY <1>7, <1>9
  <2>2. Right(T \ {x}) /\ Right((T \ {c}) \ {x})
    BY <1>3, <1>6, <1>9
  <2>3. TokensAt(messages, T \ {x}) = messages[c].tokens + TokensAt(messages, (T \ {x}) \ {c})
    BY <1>6, <1>9, <2>2
  <2>4. (T \ {x}) \ {c} = (T \ {c}) \ {x}
    OBVIOUS
  <2>5. messages[c].tokens \in Nat /\ messages[x].tokens \in Nat
    BY <1>2, <1>6
  <2>6. TokensAt(messages, (T \ {c}) \ {x}) \in Nat
    BY <2>2
  <2>7. \A i, j, k \in Nat : i + (j + k) = j + (i + k)
    OBVIOUS
  <2>8. /\ TokensAt(messages, T) =
             messages[c].tokens + (messages[x].tokens + TokensAt(messages, (T \ {c}) \ {x}))
        /\ TokensAt(messages, T \ {x}) =
             messages[c].tokens + TokensAt(messages, (T \ {c}) \ {x})
    BY <1>6, <2>1, <2>3, <2>4, Zenon
  <2>9. messages[c].tokens + (messages[x].tokens + TokensAt(messages, (T \ {c}) \ {x})) =
        messages[x].tokens + (messages[c].tokens + TokensAt(messages, (T \ {c}) \ {x}))
    BY <2>5, <2>6, <2>7
  <2> QED BY <2>8, <2>9, Zenon
<1> QED BY <1>2, <1>6, <1>8, <1>9
---------------------------------------------------------------------------
(* Sizes *)

Sizes == [system : Nat, messages : Seq([tokens : Nat, tool : BOOLEAN])]

\* A function that gives some of the settings.
AreSettings(s) == DOMAIN s \subseteq Keys /\ \A k \in DOMAIN s : s[k] \in Nat

LEMMA SettingType ==
    \A s, k : AreSettings(s) /\ k \in Keys => Setting(s, k) \in Nat
BY InboundAssumption DEF AreSettings, Setting

LEMMA OverrideType ==
    \A f, g : AreSettings(f) /\ AreSettings(g) => AreSettings(Override(f, g))
BY DEF AreSettings, Override

LEMMA OnlyType ==
    \A f, S : AreSettings(f) /\ S \subseteq DOMAIN f => AreSettings(Only(f, S))
BY DEF AreSettings, Only

LEMMA UnsetType == AreSettings(Unset)
BY DEF AreSettings, Unset

LEMMA ChangeType == \A change \in Changes : AreSettings(change)
<1> SUFFICES ASSUME NEW change \in Changes PROVE AreSettings(change)
  OBVIOUS
<1>1. PICK S \in {{"ceiling"}, {"archive"}, {"retrieval"}, {"archive", "retrieval"}} :
        change \in {f \in [S -> UNION {Options[k] : k \in S}] : \A k \in S : f[k] \in Options[k]}
  BY DEF Changes
<1>2. DOMAIN change = S /\ \A k \in S : change[k] \in Options[k]
  BY <1>1
<1>3. S \subseteq Keys
  BY DEF Keys
<1> QED BY <1>2, <1>3, InboundAssumption DEF AreSettings

LEMMA InEffectType ==
    ASSUME AreSettings(env)
    PROVE  InEffect \in [Keys -> Nat] /\ InEffect # Unset
<1>1. InEffect \in [Keys -> Nat]
  BY SettingType DEF InEffect
<1>2. "ceiling" \in DOMAIN InEffect
  BY DEF InEffect, Keys
<1> QED BY <1>1, <1>2, NothingSet

LEMMA MaxOfTwo == \A a, b \in Int : Max({a, b}) = IF a >= b THEN a ELSE b
<1> SUFFICES ASSUME NEW a \in Int, NEW b \in Int
             PROVE  Max({a, b}) = IF a >= b THEN a ELSE b
  OBVIOUS
<1>1. \E x \in {a, b} : \A y \in {a, b} : x >= y
  OBVIOUS
<1>2. Max({a, b}) \in {a, b} /\ \A y \in {a, b} : Max({a, b}) >= y
  BY <1>1 DEF Max
<1> QED BY <1>2

LEMMA MinOfTwo == \A a, b \in Int : Min({a, b}) = IF a <= b THEN a ELSE b
<1> SUFFICES ASSUME NEW a \in Int, NEW b \in Int
             PROVE  Min({a, b}) = IF a <= b THEN a ELSE b
  OBVIOUS
<1>1. \E x \in {a, b} : \A y \in {a, b} : x <= y
  OBVIOUS
<1>2. Min({a, b}) \in {a, b} /\ \A y \in {a, b} : Min({a, b}) <= y
  BY <1>1 DEF Min
<1> QED BY <1>2

\* A percentage is between 0 and 90, whatever the setting.
LEMMA ShareType ==
    \A s, k : AreSettings(s) /\ k \in Keys => Share(s, k) \in 0..90
<1> SUFFICES ASSUME NEW s, NEW k \in Keys, AreSettings(s) PROVE Share(s, k) \in 0..90
  OBVIOUS
<1> DEFINE pct == Setting(s, k)
<1>1. pct \in Nat
  BY SettingType
<1> DEFINE least == Min({90, pct})
<1> HIDE DEF pct
<1>2. 90 \in Int /\ pct \in Int /\ 0 \in Int
  BY <1>1
<1>3. least = IF 90 <= pct THEN 90 ELSE pct
  BY <1>2, MinOfTwo
<1>4. least \in 0..90
  BY <1>1, <1>3
<1> HIDE DEF least
<1>5. Max({0, least}) = IF 0 >= least THEN 0 ELSE least
  BY <1>2, <1>4, MaxOfTwo
<1>6. Max({0, least}) \in 0..90
  BY <1>4, <1>5
<1> QED BY <1>6 DEF Share, pct, least

LEMMA MaxOfThree ==
    \A a, b, c \in Int : /\ Max({a, b, c}) \in {a, b, c}
                         /\ Max({a, b, c}) >= a /\ Max({a, b, c}) >= b /\ Max({a, b, c}) >= c
<1> SUFFICES ASSUME NEW a \in Int, NEW b \in Int, NEW c \in Int
             PROVE  /\ Max({a, b, c}) \in {a, b, c}
                    /\ Max({a, b, c}) >= a /\ Max({a, b, c}) >= b /\ Max({a, b, c}) >= c
  OBVIOUS
<1>1. \E x \in {a, b, c} : \A y \in {a, b, c} : x >= y
  OBVIOUS
<1>2. Max({a, b, c}) \in {a, b, c} /\ \A y \in {a, b, c} : Max({a, b, c}) >= y
  BY <1>1 DEF Max
<1> QED BY <1>2

LEMMA PercentType == \A n, pct \in Int : Percent(n, pct) \in Int
BY DEF Percent

LEMMA CountType == \A chars \in Nat : count_tokens(chars) \in Nat
<1> SUFFICES ASSUME NEW chars \in Nat PROVE count_tokens(chars) \in Nat
  OBVIOUS
<1>1. chars \div 4 \in Nat
  OBVIOUS
<1>2. Max({1, chars \div 4}) \in Nat
  BY <1>1, MaxOfTwo
<1> QED BY <1>2 DEF count_tokens

LEMMA CountedType == \A p \in Payloads : Counted(p) \in Sizes
<1> SUFFICES ASSUME NEW p \in Payloads PROVE Counted(p) \in Sizes
  OBVIOUS
<1>1. p.system \in Nat /\ p.messages \in Seq([chars : Nat, tool : BOOLEAN])
  BY InboundAssumption
<1>2. \A i \in 1..Len(p.messages) : p.messages[i] \in [chars : Nat, tool : BOOLEAN]
  BY <1>1, ElementOfSeq
<1>3. DOMAIN p.messages = 1..Len(p.messages) /\ Len(p.messages) \in Nat
  BY <1>1
<1>4. ASSUME NEW i \in 1..Len(p.messages)
      PROVE  [tokens |-> count_tokens(p.messages[i].chars), tool |-> p.messages[i].tool]
             \in [tokens : Nat, tool : BOOLEAN]
  <2>1. p.messages[i].chars \in Nat /\ p.messages[i].tool \in BOOLEAN
    BY <1>2
  <2>2. count_tokens(p.messages[i].chars) \in Nat
    BY <2>1, CountType
  <2> QED BY <2>1, <2>2
<1> DEFINE counted == [i \in DOMAIN p.messages |->
              [tokens |-> count_tokens(p.messages[i].chars), tool |-> p.messages[i].tool]]
<1>5. counted \in [1..Len(p.messages) -> [tokens : Nat, tool : BOOLEAN]]
  BY <1>3, <1>4
<1>6. counted \in Seq([tokens : Nat, tool : BOOLEAN])
  BY <1>3, <1>5, SeqDef
<1>7. count_tokens(p.system) \in Nat
  BY <1>1, CountType
<1> HIDE DEF counted
<1>8. Counted(p) = [system |-> count_tokens(p.system), messages |-> counted]
  BY DEF Counted, counted
<1> QED BY <1>6, <1>7, <1>8 DEF Sizes

\* A part of a conversation has a size, to which each message contributes.
LEMMA PartSize ==
    ASSUME NEW messages, messages \in Seq([tokens : Nat, tool : BOOLEAN]),
           NEW S, S \subseteq DOMAIN messages
    PROVE  /\ TokensAt(messages, S) \in Nat
           /\ \A x \in S : /\ messages[x].tokens \in Nat
                           /\ TokensAt(messages, S) =
                              messages[x].tokens + TokensAt(messages, S \ {x})
<1>1. DOMAIN messages = 1..Len(messages) /\ Len(messages) \in Nat
  OBVIOUS
<1>2. IsFiniteSet(S)
  <2>1. IsFiniteSet(1..Len(messages))
    BY <1>1, FS_Interval
  <2> QED BY <1>1, <2>1, FS_Subset
<1>3. \A x \in S : messages[x].tokens \in Nat
  <2>1. \A x \in S : messages[x] \in [tokens : Nat, tool : BOOLEAN]
    BY <1>1, ElementOfSeq
  <2> QED BY <2>1
<1> QED BY <1>2, <1>3, SumWithout

LEMMA TotalType == \A p \in Sizes : Total(p) \in Nat
<1> SUFFICES ASSUME NEW p \in Sizes PROVE Total(p) \in Nat
  OBVIOUS
<1>1. p.system \in Nat /\ p.messages \in Seq([tokens : Nat, tool : BOOLEAN])
  BY DEF Sizes
<1>2. TokensAt(p.messages, DOMAIN p.messages) \in Nat
  BY <1>1, PartSize
<1> QED BY <1>1, <1>2 DEF Total

\* The budget of a block is a size, and goes by the two percentages only.
LEMMA BudgetType ==
    ASSUME NEW s, AreSettings(s), NEW n \in Nat
    PROVE  LtmBudget(s, n) \in Nat
<1> DEFINE remaining == Percent(n, 100 - Share(s, "archive"))
           some == Percent(remaining, Share(s, "retrieval"))
<1>1. Share(s, "archive") \in Nat /\ Share(s, "retrieval") \in Nat
  BY ShareType DEF Keys
<1>2. remaining \in Int
  BY <1>1, PercentType
<1> HIDE DEF remaining
<1>3. some \in Int
  BY <1>1, <1>2, PercentType
<1>4. LtmBudget(s, n) = Max({MinBudget, Min({some, MaxBudget})})
  BY DEF LtmBudget, remaining
<1> HIDE DEF some
<1>5. MinBudget \in Int /\ MaxBudget \in Int /\ MinBudget >= 0
  BY InboundAssumption
<1>6. Min({some, MaxBudget}) \in Int
  BY <1>3, <1>5, MinOfTwo
<1> DEFINE most == Min({some, MaxBudget})
<1> HIDE DEF most
<1>7. Max({MinBudget, most}) \in Int /\ Max({MinBudget, most}) >= MinBudget
  BY <1>5, <1>6, MaxOfTwo DEF most
<1> QED BY <1>4, <1>5, <1>7 DEF most

LEMMA BudgetGoesBy ==
    ASSUME NEW s, NEW t, NEW n,
           Setting(s, "archive") = Setting(t, "archive"),
           Setting(s, "retrieval") = Setting(t, "retrieval")
    PROVE  LtmBudget(s, n) = LtmBudget(t, n)
BY DEF LtmBudget, Share

---------------------------------------------------------------------------
(* The eviction *)

Places == {"idle", "reserve", "load", "apply", "plan", "walk", "retrieve", "forward"}
BeforePlan == {"idle", "reserve", "load", "apply", "plan"}

FieldsOK(r) ==
    /\ DOMAIN req[r] = DOMAIN NoRequest /\ req[r].pc \in Places
    /\ req[r].payload \in Sizes /\ AreSettings(req[r].lines)
    /\ req[r].reserve \in Nat /\ req[r].goal \in Nat /\ req[r].running \in Nat

\* The reserve is the budget of the settings it has seen.
ReserveOK(r) ==
    req[r].pc \notin {"idle", "reserve"} =>
        /\ req[r].seen \in [Keys -> Nat]
        /\ req[r].reserve = LtmBudget(req[r].seen, Total(req[r].payload))

\* Only a planned request drops anything.
StageOK(r) ==
    /\ req[r].pc \in BeforePlan => ~Planned(r)
    /\ req[r].pc = "walk" => Planned(r)
    /\ ~Planned(r) => req[r].gone = {}

Wanted(r) == ToEvict(req[r].used, Total(req[r].payload), req[r].reserve)

\* The turns that may go do so from the oldest on, each while the rest was too
\* large, and the walk ends when the rest is not or no more may go.
WalkOK(r) ==
    Planned(r) =>
        /\ req[r].used \in [Keys -> Nat]
        /\ req[r].goal = Max({0, Total(req[r].payload) - Wanted(r)})
        /\ req[r].running = Trimmed(r) /\ req[r].running <= Total(req[r].payload)
        /\ req[r].gone \subseteq Droppable(r)
        /\ req[r].pc = "walk" =>
            /\ req[r].at \in Nat /\ req[r].at > Anchor
            /\ \A i \in req[r].gone : i < req[r].at
            /\ \A i \in Droppable(r) : i < req[r].at => i \in req[r].gone
        /\ req[r].pc # "walk" =>
            req[r].failed \/ Droppable(r) \subseteq req[r].gone \/ req[r].running <= req[r].goal
        /\ req[r].gone # {} =>
            \E last \in req[r].gone :
                /\ \A i \in req[r].gone : i <= last
                /\ \A i \in Droppable(r) : i < last => i \in req[r].gone
                /\ req[r].running + req[r].payload.messages[last].tokens > req[r].goal

RequestOK(r) == FieldsOK(r) /\ ReserveOK(r) /\ StageOK(r) /\ WalkOK(r)

SettingsOK ==
    /\ AreSettings(file) /\ AreSettings(env)
    /\ DOMAIN cli = Writers
    /\ \A w \in Writers : /\ DOMAIN cli[w] = DOMAIN NoRun
                          /\ AreSettings(cli[w].change) /\ AreSettings(cli[w].merged)

SizeInv ==
    /\ SettingsOK
    /\ DOMAIN req = Requests /\ \A r \in Requests : RequestOK(r)

LEMMA NoRequestFields ==
    /\ NoRequest.pc = "idle" /\ NoRequest.payload = [system |-> 0, messages |-> <<>>]
    /\ NoRequest.reserve = 0 /\ NoRequest.goal = 0 /\ NoRequest.running = 0
    /\ NoRequest.lines = Unset /\ NoRequest.used = Unset /\ NoRequest.gone = {}
BY DEF NoRequest

LEMMA NoPayload == [system |-> 0, messages |-> <<>>] \in Sizes
<1>1. <<>> \in Seq([tokens : Nat, tool : BOOLEAN])
  BY EmptySeq
<1> QED BY <1>1 DEF Sizes

LEMMA IdleOK ==
    \A r \in Requests : req[r] = NoRequest => RequestOK(r)
<1> SUFFICES ASSUME NEW r \in Requests, req[r] = NoRequest PROVE RequestOK(r)
  OBVIOUS
<1>1. FieldsOK(r)
  BY NoRequestFields, NoPayload, UnsetType DEF FieldsOK, Places
<1>2. ReserveOK(r) /\ StageOK(r) /\ WalkOK(r)
  BY NoRequestFields DEF ReserveOK, StageOK, WalkOK, Planned
<1> QED BY <1>1, <1>2 DEF RequestOK

LEMMA SizesInitially == Init => SizeInv
<1> SUFFICES ASSUME Init PROVE SizeInv
  OBVIOUS
<1>1. SettingsOK
  <2>1. AreSettings(NoRun.change) /\ AreSettings(NoRun.merged)
    BY UnsetType DEF NoRun
  <2>2. AreSettings(env)
    BY InboundAssumption DEF Init, AreSettings
  <2> QED BY <2>1, <2>2, UnsetType DEF Init, SettingsOK
<1>2. DOMAIN req = Requests /\ \A r \in Requests : RequestOK(r)
  BY IdleOK DEF Init
<1> QED BY <1>1, <1>2 DEF SizeInv

\* What the eviction wants is at least what is over the ceiling.
LEMMA ToEvictType ==
    ASSUME NEW s, AreSettings(s), NEW total \in Nat, NEW reserve \in Nat
    PROVE  /\ ToEvict(s, total, reserve) \in Nat
           /\ ToEvict(s, total, reserve) >= total - (Setting(s, "ceiling") - reserve)
<1> DEFINE byPct == IF total >= PctMinTotal THEN Percent(total, Share(s, "archive")) ELSE 0
           byCeiling == total - (Setting(s, "ceiling") - reserve)
<1>1. Share(s, "archive") \in Nat /\ Setting(s, "ceiling") \in Nat
  BY SettingType, ShareType DEF Keys
<1>2. Percent(total, Share(s, "archive")) \in Int
  BY <1>1, PercentType
<1>3. byPct \in Int /\ byCeiling \in Int
  BY <1>1, <1>2
<1>4. ToEvict(s, total, reserve) = Max({0, byPct, byCeiling})
  BY DEF ToEvict
<1> HIDE DEF byPct, byCeiling
<1>5. /\ Max({0, byPct, byCeiling}) \in {0, byPct, byCeiling}
      /\ Max({0, byPct, byCeiling}) >= 0 /\ Max({0, byPct, byCeiling}) >= byCeiling
  <2>1. 0 \in Int
    OBVIOUS
  <2> QED BY <1>3, <2>1, MaxOfThree, Zenon
<1>6. ToEvict(s, total, reserve) \in Nat /\ ToEvict(s, total, reserve) >= byCeiling
  BY <1>3, <1>4, <1>5
<1> QED BY <1>6 DEF byCeiling

\* A conversation that has reached the goal has shrunk as far as it should, or
\* has nothing left to drop.
LEMMA GoalIsEnough ==
    ASSUME NEW r \in Requests, FieldsOK(r), WalkOK(r), Planned(r), req[r].running <= req[r].goal
    PROVE  \/ Droppable(r) \subseteq req[r].gone
           \/ Trimmed(r) <= Total(req[r].payload) - Wanted(r)
<1> DEFINE total == Total(req[r].payload)
           messages == req[r].payload.messages
<1>1. total \in Nat
  BY TotalType DEF FieldsOK
<1>2. AreSettings(req[r].used)
  BY DEF WalkOK, AreSettings
<1>3. Wanted(r) \in Nat
  BY <1>1, <1>2, ToEvictType DEF Wanted, FieldsOK
<1>4. total - Wanted(r) \in Int
  BY <1>1, <1>3
<1>5. req[r].goal = Max({0, total - Wanted(r)}) /\ req[r].running = Trimmed(r)
  BY DEF WalkOK
<1>6. CASE total - Wanted(r) >= 0
  <2>1. req[r].goal = total - Wanted(r)
    BY <1>4, <1>5, <1>6, MaxOfTwo
  <2> QED BY <1>5, <2>1
<1>7. CASE total - Wanted(r) < 0
  <2>1. req[r].goal = 0
    BY <1>4, <1>5, <1>7, MaxOfTwo
  <2>2. req[r].payload.system \in Nat /\ messages \in Seq([tokens : Nat, tool : BOOLEAN])
    BY DEF FieldsOK, Sizes
  <2>3. Survivors(r) \subseteq DOMAIN messages
    BY DEF Survivors
  <2>4. /\ TokensAt(messages, Survivors(r)) \in Nat
        /\ \A i \in Survivors(r) : TokensAt(messages, Survivors(r)) =
             messages[i].tokens + TokensAt(messages, Survivors(r) \ {i})
    BY <2>2, <2>3, PartSize
  <2>5. Trimmed(r) = req[r].payload.system + TokensAt(messages, Survivors(r))
    BY DEF Trimmed
  <2>6. TokensAt(messages, Survivors(r)) = 0
    BY <1>5, <2>1, <2>2, <2>4, <2>5
  <2>7. ASSUME NEW i \in Droppable(r), i \notin req[r].gone PROVE FALSE
    <3>1. i \in Survivors(r) /\ messages[i].tokens > 0
      BY <2>2, <2>7, InboundAssumption DEF Droppable, Candidates, Survivors
    <3>2. TokensAt(messages, Survivors(r) \ {i}) \in Nat /\ messages[i].tokens \in Nat
      BY <2>2, <2>3, <3>1, PartSize
    <3> QED BY <2>4, <2>6, <3>1, <3>2
  <2> QED BY <2>7
<1> QED BY <1>4, <1>6, <1>7

\* What the eviction goes by.
SameSizes(r) ==
    /\ DOMAIN req'[r] = DOMAIN req[r]
    /\ req'[r].payload = req[r].payload
    /\ req'[r].reserve = req[r].reserve /\ req'[r].seen = req[r].seen
    /\ req'[r].used = req[r].used /\ req'[r].goal = req[r].goal
    /\ req'[r].running = req[r].running /\ req'[r].gone = req[r].gone

LEMMA SameTerms ==
    ASSUME NEW r \in Requests, SameSizes(r)
    PROVE  /\ Planned(r)' = Planned(r) /\ Wanted(r)' = Wanted(r)
           /\ Trimmed(r)' = Trimmed(r) /\ Droppable(r)' = Droppable(r)
BY DEF SameSizes, Planned, Wanted, Trimmed, Survivors, Droppable

LEMMA SameRequest ==
    ASSUME NEW r \in Requests, RequestOK(r), SameSizes(r), AreSettings(req'[r].lines),
           req'[r].pc = req[r].pc, req'[r].at = req[r].at, req'[r].failed = req[r].failed
    PROVE  RequestOK(r)'
<1>1. FieldsOK(r)' /\ ReserveOK(r)'
  BY DEF RequestOK, FieldsOK, ReserveOK, SameSizes
<1>2. StageOK(r)'
  BY SameTerms DEF RequestOK, StageOK, SameSizes
<1>3. WalkOK(r)'
  BY SameTerms DEF RequestOK, WalkOK, SameSizes
<1> QED BY <1>1, <1>2, <1>3 DEF RequestOK

\* A request that goes on without a plan, or is through with its eviction.
LEMMA OnWithoutPlan ==
    ASSUME NEW r \in Requests, FieldsOK(r)', ReserveOK(r)', ~Planned(r)', req'[r].gone = {},
           req'[r].pc # "walk"
    PROVE  RequestOK(r)'
BY DEF RequestOK, StageOK, WalkOK

LEMMA OnAfterWalk ==
    ASSUME NEW r \in Requests, RequestOK(r), SameSizes(r), AreSettings(req'[r].lines),
           req[r].pc \in {"walk", "retrieve"}, req'[r].pc \in {"retrieve", "forward"},
           \/ req'[r].failed \/ Droppable(r) \subseteq req[r].gone
           \/ req[r].running <= req[r].goal \/ ~Planned(r)
    PROVE  RequestOK(r)'
<1>1. FieldsOK(r)' /\ ReserveOK(r)'
  BY DEF RequestOK, FieldsOK, ReserveOK, SameSizes, Places
<1>2. StageOK(r)'
  BY SameTerms DEF RequestOK, StageOK, SameSizes, BeforePlan
<1>3. WalkOK(r)'
  BY SameTerms DEF RequestOK, WalkOK, SameSizes
<1> QED BY <1>1, <1>2, <1>3 DEF RequestOK

LEMMA RequestSizes ==
    ASSUME SizeInv, NEW r \in Requests, UNCHANGED <<file, cli>>, AreSettings(env'),
           NEW new, req' = [req EXCEPT ![r] = new], RequestOK(r)'
    PROVE  SizeInv'
<1>1. \A q \in Requests : q # r => req'[q] = req[q]
  BY DEF SizeInv
<1>2. ASSUME NEW q \in Requests, q # r PROVE RequestOK(q)'
  <2>1. req'[q] = req[q] /\ RequestOK(q)
    BY <1>1, <1>2 DEF SizeInv
  <2>2. SameSizes(q) /\ AreSettings(req'[q].lines)
    BY <2>1 DEF SameSizes, RequestOK, FieldsOK
  <2> QED BY <2>1, <2>2, SameRequest
<1>3. SettingsOK'
  BY DEF SizeInv, SettingsOK
<1> QED BY <1>2, <1>3 DEF SizeInv

LEMMA ArriveSizes ==
    ASSUME SizeInv, NEW r \in Requests, Arrive(r)
    PROVE  SizeInv'
<1>1. PICK p \in Payloads :
        req' = [req EXCEPT ![r].pc = "reserve", ![r].payload = Counted(p),
                           ![r].steady = ~Writing,
                           ![r].fresh = \A q \in Requests : NoOldLines(q)]
  BY DEF Arrive
<1> DEFINE new == [req[r] EXCEPT !.pc = "reserve", !.payload = Counted(p), !.steady = ~Writing,
                                 !.fresh = \A q \in Requests : NoOldLines(q)]
<1>2. req' = [req EXCEPT ![r] = new] /\ UNCHANGED <<file, env, cli>> /\ req[r].pc = "idle"
  BY <1>1 DEF Arrive
<1>3. RequestOK(r) /\ SettingsOK /\ DOMAIN req = Requests
  BY DEF SizeInv
<1>4. /\ DOMAIN new = DOMAIN NoRequest /\ new.pc = "reserve" /\ new.payload = Counted(p)
      /\ new.lines = req[r].lines /\ new.reserve = req[r].reserve /\ new.goal = req[r].goal
      /\ new.running = req[r].running /\ new.used = req[r].used /\ new.gone = req[r].gone
  BY <1>3 DEF RequestOK, FieldsOK, NoRequest
<1> HIDE DEF new
<1>5. req'[r] = new
  BY <1>2, <1>3
<1>6. FieldsOK(r)' /\ ReserveOK(r)'
  BY <1>3, <1>4, <1>5, CountedType DEF RequestOK, FieldsOK, ReserveOK, Places
<1>7. ~Planned(r)' /\ req'[r].gone = {}
  BY <1>2, <1>3, <1>4, <1>5 DEF RequestOK, StageOK, Planned, BeforePlan
<1>8. RequestOK(r)'
  BY <1>4, <1>5, <1>6, <1>7, OnWithoutPlan
<1> QED BY <1>2, <1>3, <1>8, RequestSizes DEF SettingsOK

LEMMA InEffectAgrees == \A k \in Keys : Setting(InEffect, k) = Setting(env, k)
BY DEF InEffect, Setting

LEMMA ReserveSizes ==
    ASSUME SizeInv, NEW r \in Requests, Reserve(r)
    PROVE  SizeInv'
<1> DEFINE new == [req[r] EXCEPT !.pc = "load", !.seen = InEffect,
                                 !.reserve = LtmBudget(env, Total(req[r].payload))]
<1>1. req' = [req EXCEPT ![r] = new] /\ UNCHANGED <<file, env, cli>> /\ req[r].pc = "reserve"
  BY DEF Reserve
<1>2. RequestOK(r) /\ SettingsOK /\ DOMAIN req = Requests
  BY DEF SizeInv
<1>3. /\ DOMAIN new = DOMAIN NoRequest /\ new.pc = "load" /\ new.payload = req[r].payload
      /\ new.lines = req[r].lines /\ new.goal = req[r].goal
      /\ new.running = req[r].running /\ new.used = req[r].used /\ new.gone = req[r].gone
      /\ new.seen = InEffect /\ new.reserve = LtmBudget(env, Total(req[r].payload))
  BY <1>2 DEF RequestOK, FieldsOK, NoRequest
<1> HIDE DEF new
<1>4. req'[r] = new
  BY <1>1, <1>2
<1>5. LtmBudget(env, Total(req[r].payload)) \in Nat
  BY <1>2, TotalType, BudgetType DEF RequestOK, FieldsOK, SettingsOK
<1>6. LtmBudget(InEffect, Total(req[r].payload)) = LtmBudget(env, Total(req[r].payload))
  <2>1. /\ Setting(InEffect, "archive") = Setting(env, "archive")
        /\ Setting(InEffect, "retrieval") = Setting(env, "retrieval")
    BY InEffectAgrees DEF Keys
  <2> QED BY <2>1, BudgetGoesBy
<1>7. InEffect \in [Keys -> Nat]
  BY <1>2, InEffectType DEF SettingsOK
<1>8. FieldsOK(r)'
  BY <1>2, <1>3, <1>4, <1>5 DEF RequestOK, FieldsOK, Places
<1>9. ReserveOK(r)'
  BY <1>3, <1>4, <1>6, <1>7 DEF ReserveOK
<1>10. ~Planned(r)' /\ req'[r].gone = {}
  BY <1>1, <1>2, <1>3, <1>4 DEF RequestOK, StageOK, Planned, BeforePlan
<1>11. RequestOK(r)'
  BY <1>3, <1>4, <1>8, <1>9, <1>10, OnWithoutPlan
<1> QED BY <1>1, <1>2, <1>11, RequestSizes DEF SettingsOK

\* Loading and applying settings does not touch the conversation.
LEMMA SettingsSizes ==
    ASSUME SizeInv, NEW r \in Requests, req[r].pc \in {"load", "apply"},
           UNCHANGED <<file, cli>>, AreSettings(env'),
           NEW new, req' = [req EXCEPT ![r] = new], SameSizes(r), AreSettings(new.lines),
           new.pc \in {"retrieve", "apply", "plan"}
    PROVE  SizeInv'
<1>1. RequestOK(r) /\ DOMAIN req = Requests
  BY DEF SizeInv
<1>2. req'[r] = new
  BY <1>1
<1>3. FieldsOK(r)' /\ ReserveOK(r)'
  BY <1>1, <1>2 DEF RequestOK, FieldsOK, ReserveOK, SameSizes, Places
<1>4. ~Planned(r)' /\ req'[r].gone = {}
  BY <1>1 DEF RequestOK, StageOK, SameSizes, Planned, BeforePlan
<1>5. RequestOK(r)'
  BY <1>2, <1>3, <1>4, OnWithoutPlan
<1> QED BY <1>5, RequestSizes

LEMMA LoadSizes ==
    ASSUME SizeInv, NEW r \in Requests, Load(r)
    PROVE  SizeInv'
<1>1. UNCHANGED <<file, env, cli>> /\ req[r].pc = "load"
  BY DEF Load
<1>2. RequestOK(r) /\ SettingsOK /\ DOMAIN req = Requests
  BY DEF SizeInv
<1>3. CASE req[r].payload.messages = <<>>
  <2> DEFINE new == [req[r] EXCEPT !.pc = "retrieve"]
  <2>1. req' = [req EXCEPT ![r] = new]
    BY <1>3 DEF Load
  <2>2. new.pc = "retrieve" /\ new.lines = req[r].lines /\ SameSizes(r)
    BY <1>2, <2>1 DEF RequestOK, FieldsOK, NoRequest, SameSizes
  <2> HIDE DEF new
  <2> QED BY <1>1, <1>2, <2>1, <2>2, SettingsSizes DEF RequestOK, FieldsOK, SettingsOK
<1>4. CASE req[r].payload.messages # <<>>
  <2> DEFINE new == [req[r] EXCEPT !.pc = "apply", !.lines = file]
  <2>1. req' = [req EXCEPT ![r] = new]
    BY <1>4 DEF Load
  <2>2. new.pc = "apply" /\ new.lines = file /\ SameSizes(r)
    BY <1>2, <2>1 DEF RequestOK, FieldsOK, NoRequest, SameSizes
  <2> HIDE DEF new
  <2> QED BY <1>1, <1>2, <2>1, <2>2, SettingsSizes DEF SettingsOK
<1> QED BY <1>3, <1>4

LEMMA ApplySizes ==
    ASSUME SizeInv, NEW r \in Requests, Apply(r)
    PROVE  SizeInv'
<1>1. UNCHANGED <<file, cli>> /\ req[r].pc = "apply"
  BY DEF Apply
<1>2. RequestOK(r) /\ SettingsOK /\ DOMAIN req = Requests /\ AreSettings(req[r].lines)
  BY DEF SizeInv, RequestOK, FieldsOK
<1>3. CASE req' = [req EXCEPT ![r].pc = "plan"] /\ UNCHANGED env
  <2> DEFINE new == [req[r] EXCEPT !.pc = "plan"]
  <2>1. req' = [req EXCEPT ![r] = new]
    BY <1>3
  <2>2. new.pc = "plan" /\ new.lines = req[r].lines /\ SameSizes(r)
    BY <1>2, <2>1 DEF RequestOK, FieldsOK, NoRequest, SameSizes
  <2> HIDE DEF new
  <2> QED BY <1>1, <1>2, <1>3, <2>1, <2>2, SettingsSizes DEF SettingsOK
<1>4. ASSUME NEW k \in DOMAIN req[r].lines,
             env' = Override(env, Only(req[r].lines, {k})),
             req' = [req EXCEPT ![r].lines = Only(@, DOMAIN @ \ {k})]
      PROVE  SizeInv'
  <2> DEFINE rest == Only(req[r].lines, DOMAIN req[r].lines \ {k})
             new == [req[r] EXCEPT !.lines = rest]
  <2>1. AreSettings(rest) /\ AreSettings(Only(req[r].lines, {k}))
    BY <1>2, OnlyType
  <2>2. AreSettings(env')
    BY <1>2, <1>4, <2>1, OverrideType DEF SettingsOK
  <2>3. req' = [req EXCEPT ![r] = new]
    BY <1>4
  <2> HIDE DEF rest
  <2>4. new.pc = "apply" /\ new.lines = rest /\ SameSizes(r)
    BY <1>1, <1>2, <2>3 DEF RequestOK, FieldsOK, NoRequest, SameSizes
  <2> HIDE DEF new
  <2> QED BY <1>1, <2>1, <2>2, <2>3, <2>4, SettingsSizes
<1> QED BY <1>3, <1>4 DEF Apply

LEMMA PlanSizes ==
    ASSUME SizeInv, NEW r \in Requests, Plan(r)
    PROVE  SizeInv'
<1> DEFINE total == Total(req[r].payload)
           wanted == ToEvict(env, total, req[r].reserve)
           stage == IF wanted = 0 \/ Candidates(req[r].payload.messages) = {}
                    THEN "retrieve" ELSE "walk"
           new == [req[r] EXCEPT !.pc = stage, !.used = InEffect,
                                 !.goal = Max({0, total - wanted}), !.running = total,
                                 !.at = Anchor + 1]
<1>1. req' = [req EXCEPT ![r] = new] /\ UNCHANGED <<file, env, cli>> /\ req[r].pc = "plan"
  BY DEF Plan
<1>2. RequestOK(r) /\ SettingsOK /\ DOMAIN req = Requests
  BY DEF SizeInv
<1>3. /\ DOMAIN new = DOMAIN NoRequest /\ new.pc = stage /\ new.payload = req[r].payload
      /\ new.reserve = req[r].reserve /\ new.seen = req[r].seen /\ new.lines = req[r].lines
      /\ new.used = InEffect /\ new.goal = Max({0, total - wanted}) /\ new.running = total
      /\ new.at = Anchor + 1 /\ new.gone = req[r].gone
  BY <1>2 DEF RequestOK, FieldsOK, NoRequest
<1> HIDE DEF new
<1>4. req'[r] = new
  BY <1>1, <1>2
<1>5. total \in Nat /\ req[r].gone = {} /\ req[r].reserve \in Nat
  BY <1>1, <1>2, TotalType DEF RequestOK, FieldsOK, StageOK, BeforePlan
<1>6. wanted \in Nat
  BY <1>2, <1>5, ToEvictType DEF SettingsOK
<1>7. total - wanted \in Int /\ Max({0, total - wanted}) \in Nat
  BY <1>5, <1>6, MaxOfTwo
<1>8. Wanted(r)' = wanted
  <2>1. /\ Setting(InEffect, "archive") = Setting(env, "archive")
        /\ Setting(InEffect, "ceiling") = Setting(env, "ceiling")
    BY InEffectAgrees DEF Keys
  <2>2. ToEvict(InEffect, total, req[r].reserve) = wanted
    BY <2>1 DEF ToEvict, Share
  <2> QED BY <1>3, <1>4, <2>2 DEF Wanted
<1>9. Trimmed(r)' = total
  <2>1. Survivors(r)' = DOMAIN req[r].payload.messages
    BY <1>3, <1>4, <1>5 DEF Survivors
  <2> QED BY <1>3, <1>4, <2>1 DEF Trimmed, Total
<1>10. InEffect \in [Keys -> Nat] /\ InEffect # Unset
  BY <1>2, InEffectType DEF SettingsOK
<1>11. stage = "retrieve" => Droppable(r)' = {} \/ total <= Max({0, total - wanted})
  <2>1. CASE wanted = 0
    BY <1>5, <2>1, MaxOfTwo
  <2>2. CASE Candidates(req[r].payload.messages) = {}
    BY <1>3, <1>4, <2>2 DEF Droppable
  <2> QED BY <2>1, <2>2
<1>12. stage \in {"retrieve", "walk"}
  OBVIOUS
<1> HIDE DEF stage, wanted, total
<1>13. FieldsOK(r)' /\ ReserveOK(r)'
  BY <1>1, <1>2, <1>3, <1>4, <1>5, <1>7, <1>12 DEF RequestOK, FieldsOK, ReserveOK, Places
<1>14. StageOK(r)' /\ Planned(r)'
  BY <1>3, <1>4, <1>10, <1>12 DEF StageOK, BeforePlan, Planned
<1>15. \A i \in Droppable(r)' : i > Anchor
  BY <1>3, <1>4, InboundAssumption DEF Droppable, Candidates
<1>16. Anchor + 1 \in Nat /\ Anchor + 1 > Anchor /\ \A i \in Droppable(r)' : i \in Int
  BY <1>3, <1>4, InboundAssumption DEF Droppable, Candidates
<1>17. \A i \in Droppable(r)' : ~(i < Anchor + 1)
  BY <1>15, <1>16, InboundAssumption
<1>18. WalkOK(r)'
  BY <1>3, <1>4, <1>5, <1>7, <1>8, <1>9, <1>10, <1>11, <1>12, <1>16, <1>17 DEF WalkOK, total
<1>19. RequestOK(r)'
  BY <1>13, <1>14, <1>18 DEF RequestOK
<1> QED BY <1>1, <1>2, <1>19, RequestSizes DEF SettingsOK

\* Where the walk stands is a message that is still there.
LEMMA AtHand ==
    ASSUME NEW r \in Requests, RequestOK(r), req[r].pc = "walk", ~WalkOver(r)
    PROVE  /\ req[r].at \in Nat /\ req[r].at \in Survivors(r)
           /\ Message(r).tokens \in Nat
           /\ Drops(r) <=> req[r].at \in Droppable(r)
<1> DEFINE messages == req[r].payload.messages
<1>1. /\ messages \in Seq([tokens : Nat, tool : BOOLEAN])
      /\ req[r].at \in Nat /\ req[r].at > Anchor /\ \A i \in req[r].gone : i < req[r].at
  BY DEF RequestOK, FieldsOK, Sizes, StageOK, WalkOK
<1>2. Len(messages) \in Nat /\ DOMAIN messages = 1..Len(messages)
  BY <1>1
<1>3. ~(req[r].at > Len(messages) - Recent)
  BY DEF WalkOver
<1>4. req[r].at \in (Anchor + 1)..(Len(messages) - Recent) /\ req[r].at \in DOMAIN messages
  <2> DEFINE at == req[r].at
             length == Len(messages)
  <2>1. at \in Nat /\ at > Anchor /\ length \in Nat /\ ~(at > length - Recent)
    BY <1>1, <1>2, <1>3
  <2> HIDE DEF at, length
  <2>2. at \in (Anchor + 1)..(length - Recent) /\ at \in 1..length
    BY <2>1, InboundAssumption
  <2> QED BY <1>2, <2>2 DEF at, length
<1>5. req[r].at \notin req[r].gone
  BY <1>1
<1>6. messages[req[r].at].tokens \in Nat
  BY <1>1, <1>4, PartSize
<1> QED BY <1>1, <1>4, <1>5, <1>6 DEF Survivors, Drops, Message, Droppable, Candidates

LEMMA WalkSizes ==
    ASSUME SizeInv, NEW r \in Requests, Walk(r)
    PROVE  SizeInv'
<1> DEFINE messages == req[r].payload.messages
<1>1. UNCHANGED <<file, env, cli>> /\ req[r].pc = "walk" /\ AreSettings(env')
  BY DEF Walk, SizeInv, SettingsOK
<1>2. RequestOK(r) /\ DOMAIN req = Requests
  BY DEF SizeInv
<1>3. /\ messages \in Seq([tokens : Nat, tool : BOOLEAN])
      /\ req[r].payload \in Sizes /\ req[r].payload.system \in Nat
  BY <1>2 DEF RequestOK, FieldsOK, Sizes
<1>4. Planned(r) /\ WalkOK(r)
  BY <1>1, <1>2 DEF RequestOK, StageOK
<1>5. /\ req[r].at \in Nat /\ req[r].at > Anchor
      /\ \A i \in req[r].gone : i < req[r].at
      /\ \A i \in Droppable(r) : i < req[r].at => i \in req[r].gone
  BY <1>1, <1>4 DEF WalkOK
<1>6. \A i \in Droppable(r) : i \in Int /\ i <= Len(messages) - Recent
  BY <1>3, InboundAssumption DEF Droppable, Candidates
<1>7. CASE WalkOver(r)
  <2> DEFINE new == [req[r] EXCEPT !.pc = "retrieve"]
  <2>1. req' = [req EXCEPT ![r] = new]
    BY <1>7 DEF Walk
  <2>2. new.pc = "retrieve" /\ new.lines = req[r].lines /\ SameSizes(r)
    BY <1>2, <2>1 DEF RequestOK, FieldsOK, NoRequest, SameSizes
  <2> HIDE DEF new
  <2>3. Droppable(r) \subseteq req[r].gone \/ req[r].running <= req[r].goal
    <3>1. ASSUME req[r].at > Len(messages) - Recent, NEW i \in Droppable(r)
          PROVE  i \in req[r].gone
      <4>1. Len(messages) - Recent \in Int
        BY <1>3, InboundAssumption
      <4>2. i < req[r].at
        BY <1>5, <1>6, <3>1, <4>1
      <4> QED BY <1>5, <4>2
    <3> QED BY <1>7, <3>1 DEF WalkOver
  <2>4. AreSettings(req'[r].lines) /\ req'[r].pc = "retrieve"
    BY <1>2, <2>1, <2>2 DEF RequestOK, FieldsOK
  <2>5. RequestOK(r)'
    BY <1>1, <1>2, <2>2, <2>3, <2>4, OnAfterWalk
  <2> QED BY <1>1, <2>1, <2>5, RequestSizes
<1>8. CASE ~WalkOver(r) /\ Drops(r)
  <2> DEFINE new == [req[r] EXCEPT !.gone = @ \union {req[r].at}, !.at = @ + 1,
                                   !.running = @ - Message(r).tokens]
  <2>1. req' = [req EXCEPT ![r] = new]
    BY <1>8 DEF Walk
  <2>2. /\ DOMAIN new = DOMAIN NoRequest /\ new.pc = "walk" /\ new.payload = req[r].payload
        /\ new.reserve = req[r].reserve /\ new.seen = req[r].seen /\ new.lines = req[r].lines
        /\ new.used = req[r].used /\ new.goal = req[r].goal
        /\ new.running = req[r].running - Message(r).tokens
        /\ new.at = req[r].at + 1 /\ new.gone = req[r].gone \union {req[r].at}
    BY <1>1, <1>2 DEF RequestOK, FieldsOK, NoRequest
  <2> HIDE DEF new
  <2>3. req'[r] = new
    BY <1>2, <2>1
  <2>4. /\ req[r].at \in Survivors(r) /\ Message(r).tokens \in Nat
        /\ req[r].at \in Droppable(r)
    BY <1>1, <1>2, <1>8, AtHand
  <2>5. /\ Planned(r)' = Planned(r) /\ Wanted(r)' = Wanted(r) /\ Droppable(r)' = Droppable(r)
    BY <2>2, <2>3 DEF Planned, Wanted, Droppable
  <2>6. Survivors(r)' = Survivors(r) \ {req[r].at}
    BY <2>2, <2>3 DEF Survivors
  <2>7. Trimmed(r)' = Trimmed(r) - Message(r).tokens /\ Trimmed(r)' \in Nat
    <3> DEFINE before == TokensAt(messages, Survivors(r))
               after == TokensAt(messages, Survivors(r) \ {req[r].at})
    <3>1. Survivors(r) \subseteq DOMAIN messages /\ Survivors(r) \ {req[r].at} \subseteq DOMAIN messages
      BY DEF Survivors
    <3>2. before = Message(r).tokens + after
      <4>1. \A x \in Survivors(r) : TokensAt(messages, Survivors(r)) =
                messages[x].tokens + TokensAt(messages, Survivors(r) \ {x})
        BY <1>3, <3>1, PartSize
      <4> QED BY <2>4, <4>1 DEF Message
    <3>3. after \in Nat
      BY <1>3, <3>1, PartSize
    <3>4. Trimmed(r) = req[r].payload.system + before /\ Trimmed(r)' = req[r].payload.system + after
      BY <2>2, <2>3, <2>6 DEF Trimmed
    <3>5. \A s, a, m \in Nat : s + a = (s + (m + a)) - m /\ s + a \in Nat
      OBVIOUS
    <3> HIDE DEF before, after
    <3>6. /\ Trimmed(r)' = req[r].payload.system + after
          /\ Trimmed(r) = req[r].payload.system + (Message(r).tokens + after)
      BY <3>2, <3>4, Zenon
    <3>7. /\ req[r].payload.system + after =
               (req[r].payload.system + (Message(r).tokens + after)) - Message(r).tokens
          /\ req[r].payload.system + after \in Nat
      BY <1>3, <2>4, <3>3, <3>5
    <3> QED BY <3>6, <3>7, Zenon
  <2>8. Total(req[r].payload) \in Nat /\ req[r].goal \in Nat /\ req[r].running \in Nat
    BY <1>2, <1>3, TotalType DEF RequestOK, FieldsOK
  <2>9. /\ req'[r].running = Trimmed(r)' /\ req'[r].running \in Nat
        /\ req'[r].running <= Total(req[r].payload)
        /\ req'[r].running + Message(r).tokens > req[r].goal
    <3>1. req[r].running = Trimmed(r) /\ req[r].running <= Total(req[r].payload)
      BY <1>4 DEF WalkOK
    <3>2. ~(req[r].running <= req[r].goal)
      BY <1>8 DEF WalkOver
    <3> QED BY <2>2, <2>3, <2>4, <2>7, <2>8, <3>1, <3>2
  <2>10. FieldsOK(r)' /\ ReserveOK(r)' /\ StageOK(r)'
    BY <1>1, <1>2, <1>4, <2>2, <2>3, <2>5, <2>8, <2>9
       DEF RequestOK, FieldsOK, ReserveOK, StageOK, BeforePlan
  <2>11. req'[r].gone \subseteq Droppable(r)'
    BY <1>4, <2>2, <2>3, <2>4, <2>5 DEF WalkOK
  <2>12. /\ req'[r].at \in Nat /\ req'[r].at > Anchor
         /\ \A i \in req'[r].gone : i < req'[r].at
         /\ \A i \in Droppable(r)' : i < req'[r].at => i \in req'[r].gone
    <3>1. \A i \in req[r].gone : i \in Int
      BY <1>4, <1>6 DEF WalkOK
    <3>2. \A n \in Nat : n + 1 \in Nat /\ (n > Anchor => n + 1 > Anchor)
      BY InboundAssumption
    <3>3. \A n \in Nat : \A i \in Int : i < n + 1 <=> (i < n \/ i = n)
      OBVIOUS
    <3>4. /\ req'[r].at = req[r].at + 1 /\ req'[r].gone = req[r].gone \union {req[r].at}
          /\ Droppable(r)' = Droppable(r)
      BY <2>2, <2>3, <2>5
    <3>5. req[r].at \in Int
      BY <1>5
    <3> QED BY <1>5, <1>6, <3>1, <3>2, <3>3, <3>4, <3>5
  <2>13. /\ req[r].at \in req'[r].gone /\ \A i \in req'[r].gone : i <= req[r].at
         /\ \A i \in Droppable(r)' : i < req[r].at => i \in req'[r].gone
         /\ req'[r].running + req'[r].payload.messages[req[r].at].tokens > req'[r].goal
    <3>1. \A i \in req'[r].gone : i <= req[r].at
      BY <1>4, <1>5, <1>6, <2>2, <2>3 DEF WalkOK
    <3> QED BY <1>5, <2>2, <2>3, <2>5, <2>9, <3>1 DEF Message
  <2>14. WalkOK(r)'
    <3>1. /\ req'[r].used \in [Keys -> Nat]
          /\ req'[r].goal = Max({0, Total(req'[r].payload) - Wanted(r)'})
      BY <1>4, <2>2, <2>3, <2>5 DEF WalkOK
    <3>2. req'[r].running = Trimmed(r)' /\ req'[r].running <= Total(req'[r].payload)
      BY <2>2, <2>3, <2>9
    <3>3. req'[r].pc = "walk"
      BY <2>2, <2>3
    <3> QED BY <2>11, <2>12, <2>13, <3>1, <3>2, <3>3 DEF WalkOK
  <2>15. RequestOK(r)'
    BY <2>10, <2>14 DEF RequestOK
  <2> QED BY <1>1, <2>1, <2>15, RequestSizes
<1>9. CASE ~WalkOver(r) /\ ~Drops(r)
  <2> DEFINE new == [req[r] EXCEPT !.at = @ + 1]
  <2>1. req' = [req EXCEPT ![r] = new]
    BY <1>9 DEF Walk
  <2>2. new.pc = "walk" /\ new.lines = req[r].lines /\ new.at = req[r].at + 1 /\ SameSizes(r)
    BY <1>1, <1>2, <2>1 DEF RequestOK, FieldsOK, NoRequest, SameSizes
  <2> HIDE DEF new
  <2>3. req'[r] = new
    BY <1>2, <2>1
  <2>4. req[r].at \notin Droppable(r)
    BY <1>1, <1>2, <1>9, AtHand
  <2>5. FieldsOK(r)' /\ ReserveOK(r)'
    BY <1>1, <1>2, <2>2, <2>3 DEF RequestOK, FieldsOK, ReserveOK, SameSizes
  <2>6. StageOK(r)'
    BY <1>1, <1>2, <2>2, <2>3, SameTerms DEF RequestOK, StageOK, SameSizes
  <2>7. /\ req'[r].at \in Nat /\ req'[r].at > Anchor
        /\ \A i \in req[r].gone : i < req'[r].at
        /\ \A i \in Droppable(r) : i < req'[r].at => i \in req[r].gone
    <3>1. \A i \in req[r].gone : i \in Int
      BY <1>4, <1>6 DEF WalkOK
    <3>2. \A n \in Nat : n + 1 \in Nat /\ (n > Anchor => n + 1 > Anchor)
      BY InboundAssumption
    <3>3. \A n \in Nat : \A i \in Int : i < n + 1 <=> (i < n \/ i = n)
      OBVIOUS
    <3> QED BY <1>5, <1>6, <2>2, <2>3, <2>4, <3>1, <3>2, <3>3
  <2>8. WalkOK(r)'
    BY <1>4, <2>2, <2>3, <2>7, SameTerms DEF WalkOK, SameSizes
  <2>9. RequestOK(r)'
    BY <2>5, <2>6, <2>8 DEF RequestOK
  <2> QED BY <1>1, <2>1, <2>9, RequestSizes
<1> QED BY <1>7, <1>8, <1>9

LEMMA FailSizes ==
    ASSUME SizeInv, NEW r \in Requests, Fail(r)
    PROVE  SizeInv'
<1> DEFINE new == [req[r] EXCEPT !.pc = "retrieve", !.failed = TRUE]
<1>1. /\ UNCHANGED <<file, env, cli>> /\ req[r].pc = "walk" /\ AreSettings(env')
      /\ req' = [req EXCEPT ![r] = new]
  BY DEF Fail, SizeInv, SettingsOK
<1>2. RequestOK(r) /\ DOMAIN req = Requests
  BY DEF SizeInv
<1>3. /\ req'[r].pc = "retrieve" /\ req'[r].failed /\ req'[r].lines = req[r].lines
      /\ SameSizes(r)
  BY <1>1, <1>2 DEF RequestOK, FieldsOK, NoRequest, SameSizes
<1>4. RequestOK(r)'
  BY <1>1, <1>2, <1>3, OnAfterWalk DEF RequestOK, FieldsOK
<1> QED BY <1>1, <1>4, RequestSizes

LEMMA RetrieveSizes ==
    ASSUME SizeInv, NEW r \in Requests, Retrieve(r)
    PROVE  SizeInv'
<1>1. PICK n \in 0..(IF Survivors(r) = {} THEN 0 ELSE LtmBudget(env, Trimmed(r))) :
        req' = [req EXCEPT ![r].pc = "forward", ![r].block = IF n = 0 THEN 0 ELSE n + Frame]
  BY DEF Retrieve
<1> DEFINE new == [req[r] EXCEPT !.pc = "forward", !.block = IF n = 0 THEN 0 ELSE n + Frame]
<1>2. /\ UNCHANGED <<file, env, cli>> /\ req[r].pc = "retrieve" /\ AreSettings(env')
      /\ req' = [req EXCEPT ![r] = new]
  BY <1>1 DEF Retrieve, SizeInv, SettingsOK
<1>3. RequestOK(r) /\ DOMAIN req = Requests
  BY DEF SizeInv
<1>4. /\ req'[r].pc = "forward" /\ req'[r].failed = req[r].failed
      /\ req'[r].lines = req[r].lines /\ SameSizes(r)
  BY <1>2, <1>3 DEF RequestOK, FieldsOK, NoRequest, SameSizes
<1>5. \/ req'[r].failed \/ Droppable(r) \subseteq req[r].gone
      \/ req[r].running <= req[r].goal \/ ~Planned(r)
  BY <1>2, <1>3, <1>4 DEF RequestOK, WalkOK
<1>6. RequestOK(r)'
  BY <1>2, <1>3, <1>4, <1>5, OnAfterWalk DEF RequestOK, FieldsOK
<1> QED BY <1>2, <1>6, RequestSizes

LEMMA ForwardSizes ==
    ASSUME SizeInv, NEW r \in Requests, Forward(r)
    PROVE  SizeInv'
<1>1. req' = [req EXCEPT ![r] = NoRequest] /\ UNCHANGED <<file, env, cli>>
  BY DEF Forward
<1>2. req'[r] = NoRequest /\ AreSettings(env')
  BY <1>1 DEF SizeInv, SettingsOK
<1>3. (req[r] = NoRequest)' => RequestOK(r)'
  <2>1. FieldsOK(r)' /\ ReserveOK(r)' /\ StageOK(r)' /\ WalkOK(r)'
    BY <1>2, NoRequestFields, NoPayload, UnsetType
       DEF FieldsOK, Places, ReserveOK, StageOK, WalkOK, Planned
  <2> QED BY <2>1 DEF RequestOK
<1> QED BY <1>1, <1>2, <1>3, RequestSizes

\* A command changes settings, and of a request only whether it is steady.
LEMMA CommandSizes ==
    ASSUME SizeInv, NEW w \in Writers, Merge(w) \/ Truncate(w) \/ Write(w)
    PROVE  SizeInv'
<1>1. SettingsOK /\ DOMAIN req = Requests /\ \A r \in Requests : RequestOK(r)
  BY DEF SizeInv
<1>2. CASE Merge(w)
  <2>1. PICK change \in Changes :
          cli' = [cli EXCEPT ![w] = [pc |-> "open", change |-> change,
                                     merged |-> Override(file, change)]]
    BY <1>2 DEF Merge
  <2>2. /\ req' = [r \in Requests |-> [req[r] EXCEPT !.steady = FALSE]]
        /\ UNCHANGED <<file, env>>
    BY <1>2 DEF Merge
  <2>3. AreSettings(change) /\ AreSettings(Override(file, change))
    BY <1>1, ChangeType, OverrideType DEF SettingsOK
  <2>4. SettingsOK'
    BY <1>1, <2>1, <2>2, <2>3 DEF SettingsOK, NoRun
  <2>5. ASSUME NEW r \in Requests PROVE RequestOK(r)'
    <3>1. req'[r] = [req[r] EXCEPT !.steady = FALSE] /\ RequestOK(r)
      BY <1>1, <2>2
    <3>2. /\ SameSizes(r) /\ AreSettings(req'[r].lines) /\ req'[r].pc = req[r].pc
          /\ req'[r].at = req[r].at /\ req'[r].failed = req[r].failed
      BY <3>1 DEF RequestOK, FieldsOK, NoRequest, SameSizes
    <3> QED BY <3>1, <3>2, SameRequest
  <2> QED BY <2>2, <2>4, <2>5 DEF SizeInv
<1>3. CASE Truncate(w) \/ Write(w)
  <2>1. UNCHANGED <<env, req>>
    BY <1>3 DEF Truncate, Write
  <2>4. AreSettings(file')
    <3>1. CASE Truncate(w)
      BY <3>1, UnsetType DEF Truncate
    <3>2. CASE Write(w)
      <4>1. PICK rest \in SUBSET DOMAIN file : file' = Override(cli[w].merged, Only(file, rest))
        BY <3>2 DEF Write
      <4>2. AreSettings(Only(file, rest)) /\ AreSettings(cli[w].merged)
        BY <1>1, OnlyType DEF SettingsOK
      <4> QED BY <4>1, <4>2, OverrideType
    <3> QED BY <1>3, <3>1, <3>2
  <2>2. SettingsOK'
    BY <1>1, <1>3, <2>1, <2>4, UnsetType DEF Truncate, Write, SettingsOK, NoRun
  <2>3. ASSUME NEW r \in Requests PROVE RequestOK(r)'
    BY <1>1, <2>1, SameRequest DEF SameSizes, RequestOK, FieldsOK
  <2> QED BY <1>1, <2>1, <2>2, <2>3 DEF SizeInv
<1> QED BY <1>2, <1>3

LEMMA SizesStep ==
    ASSUME SizeInv, [Next]_vars
    PROVE  SizeInv'
<1>1. ASSUME NEW r \in Requests,
             \/ Arrive(r) \/ Reserve(r) \/ Load(r) \/ Apply(r) \/ Plan(r)
             \/ Walk(r) \/ Fail(r) \/ Retrieve(r) \/ Forward(r)
      PROVE  SizeInv'
  BY <1>1, ArriveSizes, ReserveSizes, LoadSizes, ApplySizes, PlanSizes, WalkSizes, FailSizes,
     RetrieveSizes, ForwardSizes
<1>2. ASSUME NEW w \in Writers, Merge(w) \/ Truncate(w) \/ Write(w)
      PROVE  SizeInv'
  BY <1>2, CommandSizes
<1>3. CASE UNCHANGED vars
  <2>1. ASSUME NEW r \in Requests PROVE RequestOK(r)'
    BY <1>3, SameRequest DEF vars, SizeInv, SameSizes, RequestOK, FieldsOK
  <2> QED BY <1>3, <2>1 DEF vars, SizeInv, SettingsOK
<1> QED BY <1>1, <1>2, <1>3 DEF Next

LEMMA SizesHold == Spec => []SizeInv
BY SizesInitially, SizesStep, PTL DEF Spec

\* cli.py:149, :159 and :182: for any number of requests and commands, crossing
\* ones included, a request that no change has crossed is trimmed by what
\* runtime.env says, unless when it came another had still to apply what it had
\* read there before.
THEOREM NextRequestGoesByIt == Spec => []SettingTakesEffect
<1>1. EffectInv => SettingTakesEffect
  BY DEF EffectInv, Steady, OnTheWay, SettingTakesEffect
<1>2. Init => EffectInv
  BY NoOneSet DEF Init, EffectInv, Shape, Steady
<1>3. SizeInv => SettingNames /\ DOMAIN cli = Writers
  BY DEF SizeInv, SettingsOK, AreSettings, SettingNames
<1>4. EffectInv /\ SizeInv /\ [Next]_vars => EffectInv'
  BY <1>3, SettingsStep
<1> QED BY <1>1, <1>2, <1>4, SizesHold, PTL DEF Spec

Bounds == changes \in 0..MaxChanges /\ faults \in 0..MaxFaults

LEMMA BoundsStep == Bounds /\ [Next]_vars => Bounds'
<1> SUFFICES ASSUME Bounds, [Next]_vars PROVE Bounds'
  OBVIOUS
<1>1. \/ UNCHANGED <<changes, faults>>
      \/ changes < MaxChanges /\ changes' = changes + 1 /\ faults' = faults
      \/ faults < MaxFaults /\ faults' = faults + 1 /\ changes' = changes
  BY DEF Next, vars, Arrive, Reserve, Load, Apply, Plan, Walk, Fail, Retrieve, Forward,
         Merge, Truncate, Write
<1> QED BY <1>1, InboundAssumption DEF Bounds

\* Sizes are sizes, the settings are those there are, and what is masked out of
\* a conversation was part of it.
THEOREM TypeCorrect == Spec => []TypeOK
<1>1. Init => Bounds
  BY InboundAssumption DEF Init, Bounds
<1>2. SizeInv /\ Bounds => TypeOK
  <2> SUFFICES ASSUME SizeInv, Bounds PROVE TypeOK
    OBVIOUS
  <2>1. ASSUME NEW r \in Requests
        PROVE  /\ req[r].pc \in Places /\ req[r].gone \subseteq DOMAIN req[r].payload.messages
               /\ req[r].running \in Nat /\ req[r].reserve \in Nat /\ req[r].goal \in Nat
    <3>1. FieldsOK(r) /\ StageOK(r) /\ WalkOK(r)
      BY DEF SizeInv, RequestOK
    <3>2. req[r].payload.messages \in Seq([tokens : Nat, tool : BOOLEAN])
      BY <3>1 DEF FieldsOK, Sizes
    <3>3. Droppable(r) \subseteq DOMAIN req[r].payload.messages
      BY <3>2, InboundAssumption DEF Droppable, Candidates
    <3> QED BY <3>1, <3>3 DEF FieldsOK, StageOK, WalkOK
  <2> QED BY <2>1 DEF TypeOK, Places, Bounds, SizeInv, SettingsOK, AreSettings
<1> QED BY <1>1, <1>2, SizesHold, BoundsStep, PTL DEF Spec

\* Nothing to be trimmed is left, or it was not needed, and nothing went in
\* vain, whatever the conversation, the percentages and the sizes.
THEOREM TrimIsRight == Spec => []TrimsAsNeeded
<1>1. SizeInv => TrimsAsNeeded
  <2> SUFFICES ASSUME SizeInv, NEW r \in Requests, Evicted(r)
               PROVE  /\ \/ req[r].failed
                         \/ Droppable(r) \subseteq req[r].gone
                         \/ Trimmed(r) <= Total(req[r].payload) - Wanted(r)
                      /\ req[r].gone # {} =>
                          LET last == Max(req[r].gone)
                          IN  /\ {i \in Droppable(r) : i < last} \subseteq req[r].gone
                              /\ Trimmed(r) + req[r].payload.messages[last].tokens > req[r].goal
    BY DEF TrimsAsNeeded, Wanted
  <2>1. FieldsOK(r) /\ WalkOK(r) /\ Planned(r) /\ req[r].pc # "walk"
    BY DEF SizeInv, RequestOK, Evicted
  <2>2. req[r].failed \/ Droppable(r) \subseteq req[r].gone \/ req[r].running <= req[r].goal
    BY <2>1 DEF WalkOK
  <2>3. ASSUME req[r].gone # {}
        PROVE  /\ {i \in Droppable(r) : i < Max(req[r].gone)} \subseteq req[r].gone
               /\ Trimmed(r) + req[r].payload.messages[Max(req[r].gone)].tokens > req[r].goal
    <3>1. PICK last \in req[r].gone :
            /\ \A i \in req[r].gone : i <= last
            /\ \A i \in Droppable(r) : i < last => i \in req[r].gone
            /\ req[r].running + req[r].payload.messages[last].tokens > req[r].goal
      BY <2>1, <2>3 DEF WalkOK
    <3>2. \A i \in req[r].gone : i \in Int
      BY <2>1, InboundAssumption DEF WalkOK, Droppable, Candidates
    <3>3. Max(req[r].gone) = last
      <4>1. \A i \in req[r].gone : last >= i
        BY <3>1, <3>2
      <4>2. Max(req[r].gone) \in req[r].gone /\ \A i \in req[r].gone : Max(req[r].gone) >= i
        BY <4>1 DEF Max
      <4> QED BY <3>1, <3>2, <4>1, <4>2
    <3>4. req[r].running = Trimmed(r)
      BY <2>1 DEF WalkOK
    <3> QED BY <3>1, <3>3, <3>4
  <2> QED BY <2>1, <2>2, <2>3, GoalIsEnough
<1> QED BY <1>1, SizesHold, PTL

---------------------------------------------------------------------------
(* The request as a whole *)

LEMMA PercentGrows ==
    \A m, n \in Int, pct \in Nat : m <= n => Percent(m, pct) <= Percent(n, pct)
<1> SUFFICES ASSUME NEW m \in Int, NEW n \in Int, NEW pct \in Nat, m <= n
             PROVE  Percent(m, pct) <= Percent(n, pct)
  OBVIOUS
<1>1. m * pct \in Int /\ n * pct \in Int
  OBVIOUS
<1>2. m * pct <= n * pct
  OBVIOUS
<1>3. \A x, y \in Int : x <= y => x \div 100 <= y \div 100
  OBVIOUS
<1> QED BY <1>1, <1>2, <1>3 DEF Percent

\* The budget of a trimmed conversation is not above that of the whole.
LEMMA BudgetGrows ==
    ASSUME NEW s, AreSettings(s), NEW m \in Nat, NEW n \in Nat, m <= n
    PROVE  LtmBudget(s, m) <= LtmBudget(s, n)
<1> DEFINE left == 100 - Share(s, "archive")
           share == Share(s, "retrieval")
           some(x) == Percent(Percent(x, left), share)
<1>1. left \in Nat /\ share \in Nat
  BY ShareType DEF Keys
<1>2. \A x : LtmBudget(s, x) = Max({MinBudget, Min({some(x), MaxBudget})})
  BY DEF LtmBudget
<1> HIDE DEF left, share
<1>3. Percent(m, left) \in Int /\ Percent(n, left) \in Int
  BY <1>1, PercentType
<1>4. some(m) \in Int /\ some(n) \in Int
  <2>1. share \in Int
    BY <1>1
  <2> QED BY <1>3, <2>1, PercentType, Zenon
<1>5. some(m) <= some(n)
  <2>1. Percent(m, left) <= Percent(n, left)
    BY <1>1, PercentGrows
  <2> QED BY <1>1, <1>3, <2>1, PercentGrows
<1> HIDE DEF some
<1>6. MinBudget \in Int /\ MaxBudget \in Int /\ 0 <= MinBudget
  BY InboundAssumption
<1> DEFINE atMost(x) == IF x <= MaxBudget THEN x ELSE MaxBudget
           between(x) == IF MinBudget >= atMost(x) THEN MinBudget ELSE atMost(x)
<1>7. \A x \in Int : Max({MinBudget, Min({x, MaxBudget})}) = between(x)
  <2> SUFFICES ASSUME NEW x \in Int
               PROVE  Max({MinBudget, Min({x, MaxBudget})}) = between(x)
    OBVIOUS
  <2>1. Min({x, MaxBudget}) = atMost(x) /\ atMost(x) \in Int
    BY <1>6, MinOfTwo
  <2> HIDE DEF atMost
  <2> QED BY <1>6, <2>1, MaxOfTwo
<1>8. \A x, y \in Int : x <= y => between(x) <= between(y)
  BY <1>6
<1> HIDE DEF between, atMost
<1> QED BY <1>2, <1>4, <1>5, <1>7, <1>8

\* Only its own retrieval moves a request on to be forwarded.
LEMMA OnlyRetrieve ==
    ASSUME SizeInv, [Next]_vars, NEW r \in Requests,
           req[r].pc = "retrieve", req'[r].pc = "forward"
    PROVE  Retrieve(r)
<1>1. DOMAIN req = Requests /\ DOMAIN req[r] = DOMAIN NoRequest
  BY DEF SizeInv, RequestOK, FieldsOK
<1>2. ASSUME NEW q \in Requests,
             \/ Arrive(q) \/ Reserve(q) \/ Load(q) \/ Apply(q) \/ Plan(q)
             \/ Walk(q) \/ Fail(q) \/ Retrieve(q) \/ Forward(q)
      PROVE  Retrieve(r)
  <2>1. q = r
    BY <1>1, <1>2 DEF Arrive, Reserve, Load, Apply, Plan, Walk, Fail, Retrieve, Forward
  <2> QED BY <1>2, <2>1 DEF Arrive, Reserve, Load, Apply, Plan, Walk, Fail, Forward
<1>3. ASSUME NEW w \in Writers, Merge(w) \/ Truncate(w) \/ Write(w)
      PROVE  FALSE
  <2>1. req'[r] = [req[r] EXCEPT !.steady = FALSE] \/ req'[r] = req[r]
    BY <1>3 DEF Merge, Truncate, Write
  <2> QED BY <2>1, <1>1 DEF NoRequest
<1>4. CASE UNCHANGED vars
  BY <1>4 DEF vars
<1> QED BY <1>2, <1>3, <1>4 DEF Next

LEMMA BlockFits ==
    ASSUME SizeInv, NEW r \in Requests, Retrieve(r), Planned(r), ~req[r].failed,
           \A k \in {"archive", "retrieval"} : req[r].seen[k] = InEffect[k],
           ~(Droppable(r) \subseteq req[r].gone)
    PROVE  Outbound(r)' <= req[r].used["ceiling"] + Frame
<1> DEFINE total == Total(req[r].payload)
<1>1. FieldsOK(r) /\ ReserveOK(r) /\ WalkOK(r) /\ AreSettings(env) /\ DOMAIN req = Requests
  BY DEF SizeInv, RequestOK, SettingsOK
<1>2. PICK n \in 0..(IF Survivors(r) = {} THEN 0 ELSE LtmBudget(env, Trimmed(r))) :
        req' = [req EXCEPT ![r].pc = "forward", ![r].block = IF n = 0 THEN 0 ELSE n + Frame]
  BY DEF Retrieve
<1>3. SameSizes(r) /\ req'[r].block = IF n = 0 THEN 0 ELSE n + Frame
  BY <1>1, <1>2 DEF FieldsOK, NoRequest, SameSizes
<1>4. req[r].pc = "retrieve"
  BY DEF Retrieve
<1>5. /\ total \in Nat /\ req[r].reserve \in Nat /\ Trimmed(r) \in Nat
      /\ Trimmed(r) <= total /\ req[r].used \in [Keys -> Nat]
  BY <1>1, TotalType DEF FieldsOK, WalkOK
<1>6. Trimmed(r) <= total - Wanted(r)
  <2>1. req[r].running <= req[r].goal
    BY <1>1, <1>4 DEF WalkOK
  <2> QED BY <1>1, <2>1, GoalIsEnough
<1>7. /\ Wanted(r) \in Nat
      /\ Wanted(r) >= total - (req[r].used["ceiling"] - req[r].reserve)
      /\ req[r].used["ceiling"] \in Nat
  <2>1. AreSettings(req[r].used) /\ Setting(req[r].used, "ceiling") = req[r].used["ceiling"]
    BY <1>5 DEF AreSettings, Setting, Keys
  <2>2. req[r].used["ceiling"] \in Nat
    BY <1>5 DEF Keys
  <2> QED BY <1>5, <2>1, <2>2, ToEvictType DEF Wanted
<1>8. req[r].reserve = LtmBudget(env, total)
  <2>1. req[r].reserve = LtmBudget(req[r].seen, total) /\ req[r].seen \in [Keys -> Nat]
    BY <1>1, <1>4 DEF ReserveOK
  <2>2. /\ Setting(req[r].seen, "archive") = Setting(env, "archive")
        /\ Setting(req[r].seen, "retrieval") = Setting(env, "retrieval")
    BY <2>1 DEF Setting, InEffect, Keys
  <2> QED BY <2>1, <2>2, BudgetGoesBy
<1>9. LtmBudget(env, Trimmed(r)) \in Nat /\ LtmBudget(env, Trimmed(r)) <= req[r].reserve
  BY <1>1, <1>5, <1>8, BudgetType, BudgetGrows
<1>10. n \in Nat /\ n <= req[r].reserve
  <2>1. CASE Survivors(r) = {}
    BY <1>5, <2>1
  <2>2. CASE Survivors(r) # {}
    BY <1>5, <1>9, <2>2
  <2> QED BY <2>1, <2>2
<1>11. Outbound(r)' = Trimmed(r) + (IF n = 0 THEN 0 ELSE n + Frame)
  BY <1>3, SameTerms DEF Outbound
<1>12. Frame \in Nat
  BY InboundAssumption
<1> DEFINE t == Trimmed(r)
           wanted == Wanted(r)
           reserve == req[r].reserve
           ceiling == req[r].used["ceiling"]
<1>13. t + (IF n = 0 THEN 0 ELSE n + Frame) <= ceiling + Frame
  <2> HIDE DEF t, wanted, reserve, ceiling, total
  <2>1. /\ t \in Nat /\ total \in Nat /\ reserve \in Nat /\ wanted \in Nat /\ ceiling \in Nat
        /\ n \in Nat /\ t <= total - wanted /\ wanted >= total - (ceiling - reserve)
        /\ n <= reserve
    BY <1>5, <1>6, <1>7, <1>10 DEF t, wanted, reserve, ceiling, total
  <2>2. t + reserve <= ceiling
    BY <2>1
  <2> QED BY <1>12, <2>1, <2>2
<1> QED BY <1>11, <1>13

\* A request whose percentages have not changed since its reserve was made is
\* at most the frame over the ceiling, if the eviction did not fall short: the
\* block is cut by the budget of what is left, and that is not above the
\* reserve.
THEOREM RequestFits == Spec => FitsCeiling
<1> DEFINE Fits ==
             \A r \in Requests :
                /\ req[r].pc = "retrieve" /\ req'[r].pc = "forward"
                /\ Planned(r) /\ ~req[r].failed
                /\ \A k \in {"archive", "retrieval"} : req[r].seen[k] = InEffect[k]
                =>
                \/ Droppable(r) \subseteq req[r].gone
                \/ Outbound(r)' <= req[r].used["ceiling"] + Frame
<1>1. SizeInv /\ [Next]_vars => [Fits]_vars
  BY OnlyRetrieve, BlockFits
<1> QED BY <1>1, SizesHold, PTL DEF Spec, FitsCeiling

=============================================================================

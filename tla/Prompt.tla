------------------------------- MODULE Prompt -------------------------------
(***************************************************************************)
(* What becomes of a conversation on its way to the provider, turn after   *)
(* turn: _evict_inbound_to_ceiling takes messages out of a payload,        *)
(* inject_ltm puts the memory block into it, and _maybe_evict parses what  *)
(* was sent and archives more of it (proxy/app.py, adapters/anthropic.py,  *)
(* adapters/openai.py).  The client knows nothing of this, and sends its   *)
(* whole history with every turn.                                          *)
(*                                                                         *)
(* Which messages are taken and whether memory has a block is the matter   *)
(* of Inbound, Selector and Retrieval: here any of those that may be taken *)
(* are, and a block comes or not.  A content is the sequence of its parts. *)
(***************************************************************************)
EXTENDS FiniteSetsExt, SequencesExt, Orders

CONSTANTS
    Systems,         \* system prompts clients have, as sequences of parts
    Anchors,         \* parts inject_ltm takes for a billing header or identity
    Block,           \* the text render_ltm_block returns
    Anchor, Recent,  \* first and last messages that are not evicted (2, 4)
    MaxMessages,     \* bound: messages of a history
    MaxFaults        \* bound: evictions that fail

ASSUME PromptAssumption ==
    /\ Block \notin Nat
    /\ \A s \in Systems : s \in Seq(ToSet(s)) /\ ToSet(s) \intersect (Nat \union {Block}) = {}
    /\ Anchor \in Nat \ {0} /\ Recent \in Nat \ {0} /\ MaxMessages \in Nat /\ MaxFaults \in Nat

VARIABLES
    provider,    \* "anthropic" or "openai": the endpoint, so the adapter
    system,      \* the client's system prompt: [form, parts]
    history,     \* its conversation
    pc,
    asked,       \* the payload as it came
    payload,     \* the payload as it is: [system, messages]
    dropped,     \* contents _evict_inbound_to_ceiling has taken out of it
    archived,    \* contents in the archive
    faults

vars == <<provider, system, history, pc, asked, payload, dropped, archived, faults>>

\* How the "system" field of a payload looks.
Forms == {"none", "text", "list"}
NoSystem == [form |-> "none", parts |-> <<>>]

\* "use" asks for a tool, "result" is what the tool said to the use before it.
PayloadMessage == [role : {"system", "user", "assistant", "tool"},
            kind : {"text", "use", "result"},
            content : Seq(Nat \union {Block} \union UNION {ToSet(s) : s \in Systems})]

\* OpenAI has no system field: the prompt is the first message.
PromptOf(s) ==
    IF provider = "openai" /\ s.form # "none"
    THEN <<[role |-> "system", kind |-> "text", content |-> s.parts]>> ELSE <<>>
PayloadOf(s, messages) ==
    [system |-> IF provider = "openai" THEN NoSystem ELSE s,
     messages |-> PromptOf(s) \o messages]

Init ==
    /\ provider \in {"anthropic", "openai"}
    /\ system \in {NoSystem} \union [form : Forms \ {"none"}, parts : Systems]
    /\ (provider = "openai" => system.form # "list")
    /\ history = <<>> /\ pc = "client"
    /\ asked = PayloadOf(NoSystem, <<>>) /\ payload = asked
    /\ dropped = {} /\ archived = {} /\ faults = 0

---------------------------------------------------------------------------
(* The client *)

\* It answers a use with the result, and anything else with a text.
Ask ==
    /\ pc = "client" /\ Len(history) < MaxMessages
    /\ LET used == history # <<>> /\ Last(history).kind = "use"
           turn == [role |-> IF used /\ provider = "openai" THEN "tool" ELSE "user",
                    kind |-> IF used THEN "result" ELSE "text",
                    content |-> <<Len(history)>>]
       IN  /\ history' = Append(history, turn)
           /\ asked' = PayloadOf(system, history')
    /\ payload' = asked' /\ dropped' = {}
    /\ pc' = "evict"
    /\ UNCHANGED <<provider, system, archived, faults>>

\* What the provider says, the client adds to its history.
Reply ==
    /\ pc = "forward"
    /\ \E kind \in {"text", "use"} :
        history' = Append(history, [role |-> "assistant", kind |-> kind, content |-> <<Len(history)>>])
    /\ pc' = "parse"
    /\ UNCHANGED <<provider, system, asked, payload, dropped, archived, faults>>

---------------------------------------------------------------------------
(* _evict_inbound_to_ceiling *)

Middle(messages) == (Anchor + 1)..(Len(messages) - Recent)

\* A mutation: the tool blocks are not looked for.
AnyInTheMiddle(messages) == Middle(messages)

\* _is_safely_evictable: a string, or a list without tool blocks.  With OpenAI
\* the result of a tool is a string, and the use has no content at all.
SafelyEvictable(messages) ==
    {i \in Middle(messages) :
        messages[i].kind = "text" \/ (provider = "openai" /\ messages[i].kind = "result")}

Without(messages, S) == PartAt(messages, DOMAIN messages \ S)
ContentsAt(messages, S) == {messages[i].content : i \in S}

Evict ==
    /\ pc = "evict"
    /\ \E S \in SUBSET SafelyEvictable(payload.messages) :
        /\ payload' = [payload EXCEPT !.messages = Without(@, S)]
        /\ dropped' = ContentsAt(payload.messages, S)
        /\ archived' = archived \union dropped'
    /\ pc' = "inject"
    /\ UNCHANGED <<provider, system, history, asked, faults>>

\* It raises after some turns were archived: the payload stays as it is.
EvictFails ==
    /\ pc = "evict" /\ faults < MaxFaults
    /\ faults' = faults + 1
    /\ \E S \in SUBSET SafelyEvictable(payload.messages) :
        archived' = archived \union ContentsAt(payload.messages, S)
    /\ pc' = "inject"
    /\ UNCHANGED <<provider, system, history, asked, payload, dropped>>

\* SPILLOVER_PASSIVE: the payload is not touched.
PassThrough ==
    /\ pc = "evict"
    /\ pc' = "forward"
    /\ UNCHANGED <<provider, system, history, asked, payload, dropped, archived, faults>>

---------------------------------------------------------------------------
(* Adapter.inject_ltm *)

\* anchor_end: the anchors the list begins with.
AnchorEnd(parts) == Max({n \in 0..Len(parts) : \A i \in 1..n : parts[i] \in Anchors})

\* AnthropicAdapter: into the system field, in a list behind the anchors.
InSystem(s) ==
    CASE s.form = "none" -> [form |-> "text", parts |-> <<Block>>]
      [] s.form = "text" -> [s EXCEPT !.parts = <<Block>> \o @]
      [] s.form = "list" -> [s EXCEPT !.parts = InsertAt(@, AnchorEnd(@) + 1, Block)]

\* A mutation: the existing content is not kept.
ReplacingFirst(messages) ==
    LET block == [role |-> "system", kind |-> "text", content |-> <<Block>>]
    IN  IF messages # <<>> /\ Head(messages).role = "system"
        THEN <<block>> \o Tail(messages) ELSE <<block>> \o messages

\* OpenAIAdapter: into the system message at the head, or as one.
InFirst(messages) ==
    LET block == [role |-> "system", kind |-> "text", content |-> <<Block>>]
    IN  IF messages # <<>> /\ Head(messages).role = "system"
        THEN [messages EXCEPT ![1].content = <<Block>> \o @] ELSE <<block>> \o messages

\* There is a block, or there is none (no hits, or retrieval raised).
Inject ==
    /\ pc = "inject"
    /\ \/ payload' = IF provider = "anthropic"
                     THEN [payload EXCEPT !.system = InSystem(@)]
                     ELSE [payload EXCEPT !.messages = InFirst(@)]
       \/ payload' = payload
    /\ pc' = "forward"
    /\ UNCHANGED <<provider, system, history, asked, dropped, archived, faults>>

---------------------------------------------------------------------------
(* _maybe_evict, on what was sent *)

\* A mutation: every message is a turn.
TurnsWithSystem(messages) == DOMAIN messages

\* Adapter.parse, as source indexes: OpenAIAdapter leaves out the system messages.
Turns(messages) ==
    {i \in DOMAIN messages : provider = "openai" => messages[i].role # "system"}

\* The selector takes what it likes of the turns but the last.
PostEvict ==
    /\ pc = "parse"
    /\ LET turns == Turns(payload.messages)
           old == {i \in turns : Cardinality({j \in turns : j > i}) >= Recent}
       IN  \E S \in SUBSET old : archived' = archived \union ContentsAt(payload.messages, S)
    /\ pc' = "client"
    /\ UNCHANGED <<provider, system, history, asked, payload, dropped, faults>>

Next == Ask \/ Evict \/ EvictFails \/ PassThrough \/ Inject \/ Reply \/ PostEvict

Spec == Init /\ [][Next]_vars

---------------------------------------------------------------------------
(* Properties *)

TypeOK ==
    /\ \A i \in DOMAIN history : history[i] \in PayloadMessage
    /\ pc \in {"client", "evict", "inject", "forward", "parse"}
    /\ \A i \in DOMAIN payload.messages : payload.messages[i] \in PayloadMessage
    /\ payload.system.form \in Forms
    /\ pc # "client" => payload.messages # <<>>

\* A payload as the texts it tells, each with who says it: at 0 what its system
\* field has, then its messages, without the block and without what is gone.
Unblocked(content) == PartAt(content, {j \in DOMAIN content : content[j] # Block})
Texts(p) ==
    [i \in 0..Len(p.messages) |->
        IF i = 0 THEN <<"system", p.system.parts>>
        ELSE <<p.messages[i].role, p.messages[i].content>>]
Told(p, gone) ==
    LET texts == Texts(p)
        plain == [i \in DOMAIN texts |-> <<texts[i][1], Unblocked(texts[i][2])>>]
    IN  PartAt(plain, {i \in DOMAIN plain : plain[i][2] \notin gone \union {<<>>}})

\* Where a payload has the block: which text, which part of it.
BlockAt(p) ==
    LET texts == Texts(p)
    IN  UNION {{<<i, j>> : j \in {j \in DOMAIN texts[i][2] : texts[i][2][j] = Block}} : i \in DOMAIN texts}

\* The provider is told what the client said, in the same order, but for what
\* went to the archive and for one block; what a system list begins with stays
\* first ("We MUST NOT shift those", adapters/anthropic.py:135).
OnlyTheBlockIsAdded ==
    pc = "forward" =>
      LET head == IF asked.system.form = "list" THEN AnchorEnd(asked.system.parts) ELSE 0
      IN  /\ Told(payload, {}) = Told(asked, dropped)
          /\ dropped \subseteq archived
          /\ \A x, y \in BlockAt(payload) : x = y
          /\ SubSeq(payload.system.parts, 1, head) = SubSeq(asked.system.parts, 1, head)

\* Memory does not feed on itself: a block that was put into a payload never
\* becomes an episode, nor does a system prompt.
BlockIsNotArchived ==
    \A c \in archived : ToSet(c) \intersect ({Block} \union ToSet(system.parts)) = {}

\* proxy/app.py:330, "keep Anthropic's pairing invariant intact": with
\* Anthropic, a use that is sent is followed at once by its result, and a result
\* follows its use.
PairsStayWhole ==
    pc = "forward" /\ provider = "anthropic" =>
      \A i \in DOMAIN payload.messages :
        LET m == payload.messages IN
        /\ m[i].kind = "use" => i < Len(m) /\ m[i + 1].kind = "result"
        /\ m[i].kind = "result" => i > 1 /\ m[i - 1].kind = "use"
=============================================================================

# A TLA+ model of spillover

spillover is an HTTP proxy between a coding client and an LLM provider. It
archives the turns that no longer fit the context window, indexes them (vectors
in sqlite-vec, full text in FTS5, a graph in Kuzu), and puts what is relevant
back into later requests as a memory block. This directory holds a model of its
core in TLA+, the TLC runs that check small instances of it, and TLAPS proofs
about it.

Paths in this file are relative to `src/src/spillover/` unless they start with
`docs/` or `tests/`.

## 1. The system

One process serves requests on an asyncio event loop. SQLite and Kuzu work runs
in executor threads, so that the calls of several requests interleave. One
background task (FacetWorker) takes episode ids from a bounded in-memory queue,
another one (the decay scheduler) wakes up from time to time. The command line
(`spillover purge`, `query`, `ceiling`, `pct`, `route`) and the wrappers run in
other processes and meet the proxy in its files, or in the URLs they hand out. Every SQL connection is opened with
`isolation_level=None`: each statement is a transaction of its own, and nothing
groups two of them.

| Component | State | Operations | Meets the others through |
|---|---|---|---|
| Episode archive (`archive/writer.py`, `storage/`) | tables `episodes`, `episodes_fts` | `archive_raw`; the UPDATEs of its three callers; purge | called by rescue, pre-forward and post-forward eviction, from threads |
| Rescue (`counter_compact/detection.py`) | table `seen_turns` | `record_seen_turns`, `detect_compaction`, `prune_old_seen_turns` | archives what it rescues; pruned by the decay scheduler |
| Facet pipeline (`facet/worker.py`, `_enqueue_facets`) | the queue; `facet_pending`; `vec_episodes`; Kuzu nodes and edges | enqueue, `_process_one`, start, stop | fed with the ids that `archive_raw` returns |
| Eviction selector (`eviction/selector.py`) | none | `select_for_eviction` | called by `_maybe_evict` |
| Inbound size rule (`_evict_inbound_to_ceiling`, `_ltm_budget_for`, `retriever/budget.py`) | `os.environ`, `runtime.env` | reserve, load settings, plan, walk; `ceiling`, `pct` | archives what it trims; decides the size of the block |
| Request exchange (`_handle_request`, `proxy/fallback.py`, `counter_compact/sse_rewrite.py`) | the request, its response, the upstream | intercept, rescue, evict, retrieve, call, fallback, stream, post-evict, rewrite, count | calls all of the above, in order |
| Retrieval (`retriever/`) | none (reads the archive and its indexes) | vector, lexical, graph and causal legs, fusion, trim, render | called once per active request |
| Kuzu cache (`storage/kuzu.py`) | an LRU cache of connections, `_INITIALIZED`, the schema on disk | `open_project_kuzu` | shared by the worker's thread and the request threads; `spillover query` opens the same files |
| Decay (`decay/scheduler.py`) | `importance` in `vec_episodes` | tick, decay of a project, prune | a task and its thread; meets the worker and purges in the table |
| Routing (`cli.py` route) | the client's settings file and its temporary file | on, off, status | another program writes that file too |
| Identity (`proxy/middleware.py`, `wrappers/`, `counter_compact/env_vars.py`) | none | name a project, start a client | wrappers, requests and commands have to agree on a project |
| Text analysis (`facet/classifier.py`, `tasks.py`, `entities.py`, `decisions.py`) | none | classify, extract | called by the worker and by retrieval |
| Adapters (`adapters/`) | none | parse, inject the block, usage and text of a response | one per provider; called by the exchange |
| Usage rewrite, fallback, retry | none | arithmetic on a usage; one-shot fallback | called by the exchange |

What is hard here: statements of two threads that check and then act; a process
that dies, or a statement that fails, between two statements that belong
together; a queue that is lossy on purpose; a purge in another process between
any two statements; a consumer task that is cancelled while its thread runs on;
a connection that is dropped from a cache while it is in use; a file that two
commands replace and a third program writes in place;
settings that change while a request uses them; a stream that breaks at any
chunk with a `finally` block that still has work to do. `PROJECT.json` lists the
hazards line by line.

What makes each part correct:

- archive: a turn has one row, the id a caller gets is the id of its turn,
  whatever races, fails or is purged; a turn that left a payload is stored; the
  FTS mirror is complete; together, `archive_raw` is an atomic idempotent put;
- rescue: each recent turn the payload lacks is rescued, as far as the limit has
  room, and nothing older is;
- facet pipeline: an episode no longer pending is indexed, with every edge its
  text calls for, or is about to be; the AFTER chain never runs backwards; what is
  queued is worked off;
- selector: frees enough or reports pressure, takes no more than it must, spares
  priority and dense turns;
- inbound: the conversation shrinks as far as it must and no farther, and fits
  with its block; settings apply from the next request on and persist, unless
  requests or commands cross;
- exchange: a stream loses nothing, the fallback is tried once, and its answer
  announced, every answer is counted and says what the request took out of it, the
  ids of a rescue and of `_maybe_evict` are offered for indexing, and every request
  ends;
- retrieval: nothing purged is shown, what all legs prefer comes first, and a leg
  that fails does not cost the block;
- adapters: the provider gets what the client said plus one block, tool uses keep
  their results, and no block becomes an episode;
- Kuzu cache: who gets a connection finds the tables; a project has one open
  database as long as it is not pushed out of the cache;
- decay: no importance is older than the last decay of its project, and every
  project gets its turn;
- routing: a client is routed as a whole or not at all, its settings file stays
  whole, and nothing of the user's is lost;
- identity: the project in a client's URL is the one its turns are filed under and
  the commands look into, and it is the one a wrapper announces unless the client
  is led to another URL.

## 2. Modules

| Module | Models | Proofs |
|---|---|---|
| `EpisodeStore` | abstract: one atomic, idempotent put per turn | |
| `Archive` | `archive_raw`, its three callers, purge | `ArchiveProofs` |
| `Facets` | what the worker finds in a text: type, entities, files, decisions | |
| `FacetPipeline` | enqueue, queue, worker, purge | `GraphProofs` |
| `CounterCompact` | record, detect, rescue, prune, purge | `CounterCompactProofs` |
| `Orders` | `sorted`, `sum`, list comprehensions: sorted lists, parts of a list, sums | |
| `Selector` | `select_for_eviction` | `ContextProofs` |
| `Inbound` | reserve, live settings, trim, block | `InboundProofs` |
| `Request` | abstract: what a request promises client, provider and counters | |
| `Exchange` | one request from arrival to its end | `ExchangeProofs` |
| `Retrieval` | the four legs, fusion, trim, render, with the writers around them | `ContextProofs` |
| `Prompt` | a conversation's payloads: eviction, injection, parsing, for both providers | `ContextProofs` |
| `KuzuCache` | `open_project_kuzu`, its callers, `spillover query` | `GraphProofs` |
| `Decay` | the scheduler's task and thread, with the writers around them | `DecayProofs` |
| `Identity` | how a project is named, and what a wrapper gives its client | |
| `Routing` | `route on` and `off`, the client's saves, sessions and requests | `RoutingProofs` (`Identity` too) |

`MC*` modules hold the small instances. `Archive` is proved down to single SQL
statements, checked and proved to implement `EpisodeStore` (`ArchiveIsStore`), and the modules
above it (`FacetPipeline`, `CounterCompact`) rely on that: they take a put as
one step. `Facets` has operators only and is extended by `FacetPipeline` and
`Retrieval`, `Orders` has those on lists and is extended by `Selector`, `Retrieval`
and `Prompt`; `Routing` extends `Identity`. A proof module may hold the theorems of
several components: `GraphProofs` those of the two that share the graph,
`ContextProofs` those of the three that decide what a request is given and what it
loses, which rest on the same facts about `Orders`. As `FacetPipeline` takes a put as
one step, `Exchange` takes the work of `CounterCompact`,
`Inbound`, `Selector`, `Archive` and `Retrieval` as one step each, which succeeds
with more or less to show for it, or raises. `Inbound` knows messages by their
sizes; `Prompt` knows them by what they say, and takes any of those that may be
taken.

### Archive

A turn is identified with its `_hash_turn`. A `Writer` is an executor thread in
one of the three calls (`kind`); `todo` is what it has still to archive, `held`
the ids it has been given. `SelectEpisode`, `InsertEpisode`, `InsertFts`,
`Reselect` are the four statements of `archive_raw`; the UNIQUE index makes the
loser of a race go to `Reselect`, which raises when a purge has deleted the
winner's row. `Finish` is what follows the loop: an UPDATE for rescue and
post-forward eviction, the payload edit for pre-forward eviction. `Abort` is an
exception: caught by pre-forward eviction, which keeps what it has archived, and
propagated by the other two. `Crash` keeps the tables and loses the rest.
`uuid4` returns an id nothing refers to any more (`FreshIds`). Ghosts: `dropped`,
`purged`, the counters of the bounds.

### FacetPipeline

`hand` holds the ids of a call between the archiving and `_enqueue_facets`;
`Enqueue` drops what does not fit; `Discard` is a call that never enqueues
(pre-forward eviction does not) or loses its ids. The worker's `step` runs
through `_process_one`: read, delete vector, insert vector, UPDATE, merge node,
link AFTER, and then one edge after the other (`Extract`): an entity, a file or a
decision of `FacetsOf` the episode's message, until `Finish`. `linked` holds the
edges there are, `at` the one that is next. `Stop` leaves the running step alone, because the executor
thread cannot be cancelled and is joined before the interpreter exits: `Start`
waits for it. `WorkerError` is any exception in between, which is logged and not
retried. A purge is two statements in one order for `--all` and in the other for
the default. Timestamps are a wall clock's: any of `Times` at any time.

### CounterCompact

Only assistant messages are hashed, so a payload is the sequence of its
assistant turns. Each request detects with one SELECT (`Detect`), then records
message by message with SELECT and INSERT or UPDATE, all by one reading of the
clock, then archives what was missing. The clock may advance at any point. An
INSERT that meets a row raises: in the active mode the request fails, in the
passive mode it goes on. Ghosts: `witnessed`, the newest time any request recorded
a turn with, which never moves back; `behind`, the turns whose column a slower
request has put back since; `due`, what a detection should have found by that:
the turns witnessed within the window, not behind, that its payload lacks and that
fewer than `MaxRescue` rows of the window come before (`DueNow`).

### Selector

`select_for_eviction` as operators on a sequence of turns; `kind` stands for the
fields that are tested. The only step computes the result of a conversation.

### Inbound

Contents have a number of characters, of which `count_tokens` makes tokens; a setting is a function on the keys that are set, so that
`runtime.env`, `os.environ` and the defaults are told apart. A request computes
its reserve on the event loop from `os.environ`, then, in a thread, reads
`runtime.env`, copies it line by line into `os.environ`, plans, walks over the
candidates, and gets a block of any size up to the budget computed from the
trimmed conversation. The proxy's own environment may say anything to begin with
(`Environments`); percentages are clamped where they are used (`Share`).
`spillover ceiling` and `pct` read, merge, truncate and write the file. Ghosts:
`chosen`, what users have been told; `clashed`, whether two commands have been
under way at once; `steady`, `fresh`, `seen` and `used`, what a request was crossed
by and what settings it went by.

### Exchange

One request in one mode: passive, stream, fallback configured, compaction prompt,
`SPILLOVER_STREAM_REWRITE`, `SPILLOVER_REPORTED_INPUT_CAP`. The body of a stream is a sequence of chunks, an SSE event
being one or two of them, with the `"usage"` marker in either part, both or
none. A chunk with the marker is kept for the end, as the code does. `Close` to
`Finish` is the `finally` block, which also runs when the upstream breaks or the
client leaves. `NameError` is the passive mode's missing variable. `Reported` is
the arithmetic of `rewrite_usage`; `rewritten` keeps what each usage said and what
the client was told. `Promise` is `Request` seen from it: `Phase` tells how far
the request is for the client, and everything before the call and between two chunks
is a stutter. `replies` keeps what the upstream said to each of the `calls`, and
`announced` whether the client has been told of the fallback model, by the banner or
a header. `archived` counts all ids the request has archived, `ahead` those among
them of pre-forward eviction, and `offered` those given to `_enqueue_facets`; the code
adds tokens where the model adds ids, and asks only whether there are any.

### Retrieval

Other actors first: `Archive` puts a row, `DeleteVec`, `InsertVec`,
`UpdateEpisode` and `LinkNode` are the worker's statements on one event, `Purge`
the statements of a purge, which leaves the graph alone. A request goes through
`_retrieve_ltm_block` statement by statement, each on the tables of its moment:
`Count`, `Vector`, `Graph`, `Lexical`, `Causal`, `Trim`, `Render`. Which episodes
are near a query, and which its words are found in, is part of the query; what the
patterns of `extract_entities` and the markers of `classify` find in a text is
given with the episode, and what the code makes of it (`Extracted` and `Classify`
of `Facets`, the weights) is modelled. Where the code leaves an order open (Kuzu's rows, the
sets of the causal walk, scores that differ by rounding) any order may come. A score
is a sum of fractions `weight / (RrfK + rank)`, kept exact over the common denominator
`Unit`.
A query to Kuzu with a LIMIT keeps any rows of its result (`Limited`): an episode is
in a row of its own for each name it mentions.
`GraphFails`, `LexicalFails` and `CausalFails` are errors a leg handles, `Raise` is
any other. Ghosts: `deleted`, and `found` and `calm` of the request.

### Prompt

`provider` is the adapter. The client asks (`Ask`) with its whole history and the
system prompt in the form its provider has, `Evict` takes messages out of the
middle, `Inject` puts the block in or, when there is none, does not, `Reply` adds
the answer to the client's history, and `PostEvict` archives from the payload that
was sent, block included. A message's content is a sequence of parts, so that a
block coalesced with a prompt can be told from either. Ghosts: `asked`, `dropped`,
`archived`.

### Facets

Operators. A text stands for what the regular expressions match in it, in the
order of the text; `Extracted`, `extract_code_refs` and `extract_decisions` say
what becomes of the matches, `Classify` which type an episode has, and `FacetsOf`
which edges the worker merges, in its order.

### KuzuCache

`cache` and `conn` are `_CACHE`, an ordered dictionary; `schema` counts the
statements of `kuzu_schema.cypher` that a database on disk has seen. All of
`open_project_kuzu` runs under `_LOCK`, so `Hit`, `Miss` and `Fails` are one step
each; what is returned is used after the lock is released (`held`). A request's
causal leg opens once more (`OpenAgain`) and keeps what it had when that fails.
A database is closed when neither the cache nor a thread has its connection. Kuzu
itself is external: one process per database, and any statement may fail. Ghost:
`others`, the projects opened since a thread got its connection.

### Decay

`task` is the coroutine, `job` the executor thread it awaits: `Select` reads rows
and clock, `Update` writes one row of the `executemany`, `Pruned` ends with the
deletion that `CounterCompact` models. The facet worker's two statements and the
two of a purge come between any of them. An exception ends the whole tick
(`Fails`), `Stop` cancels the task and leaves its thread alone, `Exit` is the end
of the process. Importance is in thousandths; the exponential is a table. Ghosts:
`decayed`, `fresh` and `seen`, by which decay a row should have been written.

### Identity and Routing

`Identity` has the naming rules as operators: the middleware's order (path, header,
environment, default), the hex id that is taken as it is, the hash of else, the URL and the flags a wrapper gives its client, also with `--proxy`.

`Routing` has the settings file as an inode with a content. `Load` reads and
changes the settings, `OpenTmp` opens and truncates the shared temporary file,
`WriteTmp` writes it, `Replace` moves it; a command may be `Killed` anywhere. The
client saves in place, in two accesses (external: its code is not here). A
writer whose inode another one has truncated or written may leave a mixture
(`Written`). Before, there is no file, or settings of the user's own, or those of an
older version's routing (`Before`, `Outdated`). `StartSession` starts one of `Clients`:
Claude Code by itself, or a wrapper with or without `--project` and `--proxy`
(`Given`), which announces a project; the client then goes by the URL of its
environment or, Claude Code, by that of the settings file, and `by` says which.
`Request` is filed by the middleware under a project. Ghosts: `alone`, whether a
command's settings are still what the file has; `clashed`, whether two commands
had the temporary file open at once.

## 3. Runs

| Run | Expects | Shows |
|---|---|---|
| `Archive_store` | pass | two threads, batches of two turns, one error or crash and one purge: types, receipts, nothing dropped unarchived, the mirror, rows persist, and the refinement of `EpisodeStore` |
| `FacetPipeline_index` | pass | two episodes, a queue of two, one fault, one purge, any number of stops: indexing and liveness |
| `CounterCompact_rescue` | pass | two sessions, two turns, a limit of one: the rescue is complete as far as the limit has room, and recent |
| `Selector_policy` | pass | every conversation of up to four turns: the selection policy |
| `Inbound_size` | pass | every small conversation, two requests, two commands and two changes of settings: the size rule, what a request goes by and what the file keeps |
| `Exchange_request` | pass | every mode with up to two disturbances: streams, offers, fallback, counts, the end, and the refinement of `Request` |
| `Retrieval_block` | pass | three episodes, two queries, an event for each, one purge, one failing statement: what is shown |
| `Prompt_block` | pass | both providers, every form of prompt, conversations of up to eight messages: what is sent and archived |
| `Routing_files` | pass | two commands, three runs, two saves of the client and one killed command; every wrapper and option on two ports: routing, the file and projects |
| `KuzuCache_threads` | pass | two threads, four projects, room for three, one error: tables and open databases |
| `Decay_tick` | pass | three projects, one unreadable, three episodes, two faults, three writes of others: importances and liveness |
| `Exchange_passive_claim` | violation | the passive mode breaks every answer that has a usage |

Every property of a passing run has a mutant in `PROJECT.json`: an operator next
to the original, marked "A mutation", that changes it as a plausible bug would,
and that the run catches. The type invariant is a property of two runs only; in the
other modules it states the types for the reader and for the proofs.

### Bounds, and why they are enough

- `Archive_store`: two threads, two turns and batches of two are what a race on one
  turn with something before or after it needs; four ids are two rows plus what a
  purge has deleted in between. A constraint (`LessWorkMoreTrouble`) leaves out
  executions in which, after an error, a crash or a purge, the two threads have
  more than two turns to do: without it errors, crashes and purges together with
  batches of two are 4.6 million states, an instance that was checked once and
  passes.
- `FacetPipeline_index`: two episodes give an edge, in either order of time or at
  the same time; the queue of two overflows when both are archived a second time,
  as a rescue may do. The messages have an entity, a file and a decision, some of
  them twice, so that a stop or an error falls between two edges.
- `CounterCompact_rescue`: window and TTL of zero and a clock of two values give
  rows inside and outside the window, on its boundary, and pruned ones. A limit of
  one acts as soon as both turns are in the window; two sessions, one of them slow,
  put a time back.
- `Inbound_size`: sizes are about a thousandth of the real ones, and chosen so
  that each rule (percentage, ceiling, minimum, maximum) is the deciding one in
  some conversation. An environment of 120 % is clamped to 90, and one of the
  commands changes a percentage or the ceiling between any two steps. A constraint
  (`CrossingIsSimple`) keeps the conversation to a short one, without failures and
  without a change of the block's share, where two requests load and apply
  `runtime.env` beside each other or two commands cross: what settings a request goes by
  and what the file keeps do not depend on them.
- `Selector_policy`: one turn in the recent buffer and three that may go, two
  sizes and two densities, every kind.
- `Retrieval_block`: every K is small enough to cut something off, the budget
  holds two episodes or none of the third, and weights differ, so that a leg, the
  cut to `TopK` and the trim all decide in some state. A request and a purge have
  up to seven and two statements, and interleave freely.
- `Prompt_block`: an anchor and a buffer of one message each leave up to five that
  may be taken; three prompts have two anchors, one and none.
- `Exchange_request`: bodies of up to four events; the last event in two chunks
  in each of the four ways the marker can fall; the first usage has an input, the
  last has none; the cap lies between what may be reported. Two disturbances give an error
  during the handling of another one.

- `Routing_files`: two commands, one of them twice, and two saves meet in every order;
  four inodes are the file, the temporary file and two that are open without a
  name. A client is started as long as there has been one run or save at most
  (`MaxEarlier`), which is enough for a URL in the settings file that came from
  the user, an older version, `route on` or `route off`. Names are an id, a plain
  name, one that does not fit into a path and a directory; of two ports the proxy
  has one, and a URL may have the other. Nothing about the files depends on sessions
  or on the running proxy, so that a constraint (`FilesOrSession`) follows the longer
  histories of the files without a session, under one proxy and with one port.
- `KuzuCache_threads`: a cache of three instead of 32 (`_MAX_CACHE`), with one
  project more than it holds; six handles are three cached ones, two in use and a
  new one. The schema has two statements, so that an error falls before, between
  or after them.
- `Decay_tick`: the broken project comes last, since those behind it never have
  their turn; two faults are an error and a crash, or a second error while the
  first one's tick is repeated.

### Fairness

- `FacetPipeline!FairSpec`: weak fairness of `Get` and of the worker's steps. The
  consumer is a task of the event loop that waits on the queue, and a thread that
  has started an event goes on; SQLite's busy timeout turns a wait for a lock into
  an error. Nothing is assumed about requests, purges, stops and starts, and
  requests may keep coming.
- `Exchange!FairSpec`: weak fairness of `Handle`. The handler is a task of the
  event loop, `httpx` gives up on a silent upstream after 120 seconds (which
  `CallFails` and `UpstreamBreaks` are), and a body has an end. Nothing is
  assumed about disturbances.
- `Decay!FairSpec`: weak fairness of the task and of the thread. The event loop runs
  the task, the timer of the interval goes off, a statement returns or raises.
  Nothing is assumed about stops, starts, purges and the worker; faults are bounded
  but for the broken project, which fails every time.
- Deadlock is checked everywhere but in `Exchange`, `Prompt`, `Selector` and
  `Routing`, where a finished request, conversation or selection has no further
  step, and commands may have been run as often as the bound says.

## 4. Where code and documentation differ

One difference is shown by a run: in **passive mode** (`PassiveObservesOnly`),
`proxy/app.py:1053` and `:941` read `pre_forward_tokens_freed`, which only the active
branch assigns. `cli.py:322` calls the mode observe-only.

Six more are stated at the end of their modules as the documentation has them, and
fail on the instance of the run of that module when they take the place of its
properties:

| Claim | Run | Why it does not hold |
|---|---|---|
| `LostTurnsComeBack` (action property) | `CounterCompact_rescue` | `docs/architecture/08-counter-compaction.md:87` has lost turns recovered with the next request. The LIMIT of `detect_compaction` (`detection.py:143`) keeps the first rows of the window, those of turns that are present or rescued already included; the turns behind it are passed over each time. |
| `LastSeenIsCurrent` | `CounterCompact_rescue` | `detection.py:86` keeps `last_seen_ts` current. The clock is read once (`:88`), before the statements, and the UPDATE (`:107`) does not look at what is there: the slower of two requests puts the time back. |
| `NextRequestObeys` | `Inbound_size` | `cli.py:149`, `:182`: a setting takes effect with the next request. A request that read `runtime.env` before the change may put the older line into `os.environ` (`proxy/app.py:350`) after the next one has applied the newer. |
| `ReportedIsKept` | `Inbound_size` | `cli.py:157`: a setting persists. Of two commands that read the file before either writes it, one loses its setting. |
| `EachArchivedIsOffered` | `Exchange_request` | `README.md:185` of the repository: each archived turn gets an embedding and the rest. `_evict_inbound_to_ceiling` (`proxy/app.py:800`) returns how many turns it archived and not which, and nobody enqueues them. |
| `AnnouncedIsFiled` | `Routing_files` | `wrappers/cc.py:28` and `README.md:285` of the repository have the wrapper set X-Project and SPILLOVER_PROJECT_ID. It sends no header, and the variable is its client's, not the proxy's; with `--proxy`, or by the settings file, the URL has no project, and the request is filed under the proxy's default. |

Each has a property that says what does hold, which the run checks and
`## 5` proves: `RescueIsComplete`, `SettingTakesEffect`, `SettingPersists`,
`ArchivedIsOffered`, `SameProject`.

Others are built into the models, and explain conditions in the properties:

- `episodes_fts` keeps the rows of purged episodes (`Purge` leaves `fts`);
  `09-storage-schema.md:8` draws it 1:1. `FtsMirror` states one direction only.
- Pre-forward eviction does not set `evicted` (`Finish`), although
  `09-storage-schema.md:100` says so, and does not enqueue its ids (`Discard`, and
  `ahead` in `Exchange`). `ArchivedIsOffered` counts them out: what is offered is all
  of the rescue's ids and `_maybe_evict`'s, and none of these.
- A rescue also flags a row that had been evicted naturally (`Mark`), and a purge
  then deletes it; `08-counter-compaction.md:128` says the flag tells them apart.
- `facet_pending = 0` is committed before the graph is written, so an error in
  between leaves an episode that is neither pending nor wholly in the graph:
  `FacetedIsIndexed` speaks of executions without faults.
- A facet event that finds the queue full is dropped, and its episode stays
  pending: `docs/architecture/05-episode-lifecycle.md:14` and
  `09-storage-schema.md:165` speak of a retry and of polling; nothing does either.
  `QueuedGetsFaceted` is about what is queued.
- `record_seen_turns` is called an upsert (`counter_compact/detection.py:84`); it is a
  SELECT and an INSERT without ON CONFLICT. Of two sessions that record one turn at
  once the loser's request is answered with an error (`Insert` in `CounterCompact`).
- The worker may insert the vector of an episode purged since it read it, and a
  purge may delete a vector it has just written (`QueuedGetsFaceted` excepts a
  running purge; of vectors, `FacetedIsIndexed` speaks in executions without one).
- An event processed twice may get a second AFTER edge. `AfterFollowsTime` holds
  all the same.
- The LIMIT of `detect_compaction` counts rows before those still present are
  left out, and a slow request may put a turn's time back: `RescueIsComplete` is about
  the turns whose time nobody has put back and which fewer than `MaxRescue` rows of
  the window come before. A conversation of more than 20 assistant turns within ten
  minutes has turns behind the limit.
- `seen_turns` is per project: a turn of one session counts as compacted in
  another. `RescueIsComplete` and `RescueIsRecent` are about the project.
- The frame of the block is not counted (`FitsCeiling` allows it), the budget of
  the block is computed anew after the trim, and the reserve goes by the settings
  before `runtime.env` is loaded (`FitsCeiling` asks for equal percentages).
- A conversation of tool turns, anchor and recent turns cannot be trimmed and
  stays above the ceiling: the first disjunct of `TrimsAsNeeded` and
  `FitsCeiling`. A conversation that is not trimmed still gets a block.
- Two requests copy an old and a new `runtime.env` into one `os.environ`:
  `SettingTakesEffect` excepts a request that came while another one had older lines to
  apply (`fresh`). Two commands may overwrite each other's setting:
  `SettingPersists` excepts what came after two were under way at once (`clashed`). A
  command that truncates the file under a request makes its settings vanish for a
  moment: the request is not `steady`.
- Percentages outside [0.0, 0.9] count as the nearer end (`proxy/app.py:131`, `:368`);
  `pct` refuses them, so that only the proxy's own environment can have such.
- Priority turns go by weight as soon as one has a density
  (`eviction/selector.py:82` says oldest first), and the density of turns outside
  the candidates does not count (`:80` says any turn). `KeepsDenseTurns` states
  what the code does.
- The causal leg has no types, and the lexical one has the type of an episode only
  once the worker was there: the same episode counts differently in each leg
  (`Untyped`). The README of the repository (183) gives "others" 1.0, `retriever/fusion.py:6` gives tasks
  1.4; line 252 has a default of 8 for RETRIEVER_TOPK, `config.py` has 5.
  Importance, which the decay scheduler computes, is read by no leg.
- The graph keeps purged episodes, which take places among the first TopK:
  `FoundIsShown` speaks of projects from which nothing was purged, and
  `PurgedStaysOut` says they go no farther. A vector written just after a purge
  stays too.
- `trim_to_budget` stops at the first episode that is too large, so one large
  episode may cost the block (`FoundIsShown` asks that each fits, and that `VectorK`
  and `TopK`, which nothing in the code checks, are positive). Skipping it
  instead would break `PreferredComesFirst`.
- The block goes where the adapters put it; `_inject_ltm` and its
  SPILLOVER_LTM_PLACEMENT (`proxy/app.py:216`) are not called.
  `adapters/anthropic.py:137` says position 2, the code counts the anchors it
  recognises (`AnchorEnd`).
- `_is_safely_evictable` finds tool blocks in lists only. With OpenAI a tool's
  answer is a string and may be taken while the request for it, which has no
  content, stays: `PairsStayWhole` is about Anthropic.
- A usage without `input_tokens` (Anthropic's `message_delta`, all of OpenAI's)
  gets one when it is rewritten, with a value of 1: `Reported` of an input of 0.
- There is no retry in front of the fallback (`docs/architecture/04-sequence-hot-path.md:101`),
  an intercepted request is not counted (`08-counter-compaction.md:128`), a
  request the upstream refuses has already been trimmed and archived
  (`04-sequence-hot-path.md:102`), a usage event cut in two chunks may go out
  unchanged, and `message_start`, which has a usage, is sent after the content.
  `StreamIsComplete` states the order there is.

- `route on --passive` writes SPILLOVER_PASSIVE into the client's settings
  (`cli.py:317`); the proxy reads its own environment (`proxy/app.py:761`), which a
  client's settings do not reach.
- The repository's README (285) says that a wrapper sets SPILLOVER_PROJECT_ID on
  the proxy; it sets it for its client. The project gets to the proxy in the URL.
  With `route on` the URL has none, so that all directories share the proxy's
  default, and a `--proxy` given to a wrapper loses the project (`ChildEnv`), as does
  the settings file when Claude Code goes by it: `SameProject` says of every request
  that it is filed under the project in its URL, and excepts those two, and no others,
  from what a wrapper has announced. A name with a dot or a slash is a path without a
  route (`HasRoute`): no such request is filed.
- Nothing but `route on` removes the keys of an older version: settings routed by one
  stay as they are (`Outdated`), which `RoutedIsWhole` excepts.
- `spillover-cc` sets only the flags that `cli.py:246` calls legacy (`env_for`).
- `route off` removes its keys whoever set them, a settings file that does not
  parse is replaced by an empty one with the routing's keys (`_load_settings`), and
  two commands at once share `settings.json.tmp`, which may leave a file that does not
  parse: `SettingsStayWhole` excepts `clashed`.
- The Kuzu cache drops connections without closing them or asking who uses them:
  `HeldIsCached` holds until as many other projects have been opened as the cache
  has places.
- While `spillover query` has a graph open the proxy cannot open it; the worker's
  event fails, and its graph writes are lost, as above. The other way round `query`
  goes on without the graph.
- An exception in one project ends the tick: a database that can never be read
  keeps those listed behind it from decaying, ever (`EveryProjectDecays`).
- A "half-life" is the time constant of an exponential: after it 37 % is left, not
  half (`Fade`). `pinned` and `hit_count` are read, but nothing in the code sets
  them. `docs/architecture/02-container.md:38` draws an arrow from decay to the
  graph, whose importances are never decayed.
- A line with decision words of two languages is one decision, its reason another
  (`extract_decisions`); a file has one edge however many operations
  `extract_code_refs` tells apart.

## 5. Proofs

All theorems are about the specifications the runs check, for any number of
threads, requests, commands, turns, projects and faults, and for any constants
that satisfy the assumption of the module. What a run shows for its instance, a
theorem of the same property shows for all of them; each inductive invariant
below was checked by TLC on the run's instance before it was proved.

### What is assumed of the constants

Sentinels are no ids, times or handles, and bounds are numbers. Beyond that:

- `FacetAssumption`: `Messages` has a text for each id.
- `CompactAssumption`: what is pruned is out of the window (`TTL >= Window`): the
  scheduler prunes after 72 hours (`decay/scheduler.py:67`), the window is 600 seconds
  (`counter_compact/detection.py:118`).
- `ExchangeAssumption`: a usage event that is in one chunk has its `"usage"` key in
  it. `has_usage_marker` looks for those bytes, and a JSON object with that key has
  them. Events are numbered from 1, so that none is taken for the banner.
- `InboundAssumption`: a payload is a system prompt and a sequence of messages of
  some length. Settings may be any natural numbers, percentages above 90 too: the
  commands refuse those, the proxy's environment may have them, and the code clamps
  them.
- `DecayAssumption`: what a fade leaves is between nothing and all, as of an
  exponential of a negative number.
- `RoutingAssumption`: a client's own URL is not the proxy's, its own keys are not
  those of `_ROUTE_KEYS`, and a file that does not parse is not a settings object;
  `IdentityAssumption`: the name that stands for "none" is neither a name nor a hash.
- `PromptAssumption`: the block is no text of the conversation and no part of the
  client's prompt, which is how the parts of a message can be told apart; anchor and
  buffer hold a message at least (`Anchor`, `Recent`; the code's are two and four).
- `SelectorAssumption`: tokens, densities and the tokens asked for are natural numbers.
- `RetrievalAssumption`: episodes are numbered by their time, and a query ranks each
  of them once by its distance, and some of them once by its words. `Unit` is a
  multiple of `RrfK` and each rank, a matter of the model. The code adds in floating
  point, which may order equal scores either way: so does the model, any order of ties.

No theorem has a hypothesis about the behaviour. What a property excepts it says
itself, by a history variable of its module (section 4).

### Archive

`TypeCorrect` is inductive as it stands but for the shape of `todo` (a thread at a
statement has a turn at hand), which `Shape` adds. `TurnsStayUnique` follows from
types: the INSERT's condition is the UNIQUE index. `ReceiptsStayValid` needs more:
an id in a call's hands, or just inserted, must not be drawn again by another
thread, and the candidate between INSERT and FTS names the row of the turn at
hand. `NothingDroppedUnarchived` rests on the receipts: what pre-forward eviction
drops is what it holds receipts for. `MirrorIsComplete` (`FtsMirror`) is inductive
with the types: a row without its mirror row belongs to a thread at that
statement, and only an error or a crash takes the thread away.
`OnlyPurgesRemove` (`RowsPersist`) is an action property: each UPDATE is shown to
keep ids and turns and to set flags only.

`ArchiveImplementsStore` is the refinement: the abstract contents are the rows
without their flags, and the abstract receipts are the archive's, with the candidate
of a thread that is past its INSERT counted as handed out. INSERT is the abstract
`Store`; SELECT and the second SELECT, when they find the row, are a `Find`; an error
and the end of a call are a `Release`, a crash a `Restart`, a purge a `Forget`, and
everything else, the FTS statement included, is a stutter (`StoreStep`, action by
action, from the types).

### Facet pipeline

`GraphTimesAgree` needs that the time the worker read is still the time of the
episode, which holds because an id is stored once. `EdgesFollowTime` needs it in
turn: a second processing merges the node with the time it had, so that no edge
changes direction. `ClearedIsIndexed` (`FacetedIsIndexed`) needs to know where
the step of an event is: which edges of the event at hand are linked so far
(`LinkedSoFar`), and that the vector is there when the UPDATE clears `facet_pending`
(`UpdateHasVector`), unless a purge has begun (`PurgerCounted`).

### Rescue

`OnlyRecentIsRescued` (`RescueIsRecent`) needs that no row is ahead of the newest time
its turn was recorded with, outside a purge (`Recorded`). `RescueComplete`
(`RescueIsComplete`) needs more: that a turn recorded within the window has its row,
with that newest time unless a slower request has put it back (`RowKept`): the prune
takes only rows that are out of the window, two crossing requests write one row, and
a purge forgets what it deletes. `LimitTakesFirst` counts: a row of the window that the
limit leaves out has as many rows before it as the limit takes. So a detection finds
all that is due (`DetectFindsAll`), for conversations of any length, and `Covered`
carries it to the end of the request.

### Exchange

`FallbackOnce` (`FallbackIsOneShot`) needs to know, for every place in the handler, what
has been called by then (`CallsInv`) and what the upstream said to it (`RepliesInv`):
from there follows whose answer is served and with which status (`ServedRight`), when
the client is told of the fallback model (`AnnouncedInv`), and that the banner is the
first it gets, if it gets one, and comes once (`BannerFirst`), since no chunk of a body
is one.
`AnsweredIsCounted` needs to know where the counter is still zero (`CountInv`), and
`OfferedAtTheEnd` (`ArchivedIsOffered`) what has been archived of which kind:
`archived` is the sum of what was offered, what pre-forward eviction took and what is
still on hand, at every place (`OfferInv`).
`UsageIsTold` (`UsageIsReported`) needs to know that a whole usage has the marker
(from the assumption above) and that what has the marker is all in the tail buffer
(`StreamInv`), and that from the rewrite of that buffer on nothing more is freed
(`ReportInv`).

`StreamIsWhole` (`StreamIsComplete`) by `BodyInv`: `tail_buffer` is what has been kept
of the stream and what was sent is what was passed on, until the rewrite puts the
one behind the other. `Filtered`, by which the three are told apart, is a recursive
function; what it does to a sequence that grows at its end (`FilteredAppend`,
`FilteredConcat`) is proved below it, see "Recursion" at the end of this section.

`ExchangeImplementsRequest` is the refinement (`ExchangeIsRequest`), step by step in
`RequestStep`: a call is an `Ask`, and the chunks are `Pass` or `Keep`; each exception, wherever
it is raised, is a `Fail` (`RaiseIsFail`), which is why an answer is "none" up to the
moment a stream starts; and the end of `finally` is `Release` and `Conclude`.
It adds what invariants of one state cannot say, that the parts come in this order:
no call once the client has been told something, nothing sent or counted after the
end. `PromiseInv` gives the conditions of the abstract steps, such as that a stream is
served by the fallback exactly if the second call was the last.

### Inbound

`SettingIsKept` (`SettingPersists`) by `FileInv`: what a running command is about to
write is what has been chosen with its change put over it, since it read the file
when no other command ran, unless two have `clashed`. `NextRequestGoesByIt`
(`SettingTakesEffect`) is about a request that no command has crossed (`steady`) and that
came when no other one had older lines to apply (`fresh`): each setting in the file is in
the environment already or among the lines it has still to apply (`OnTheWay`, `Steady`).
Others may come, load and apply their lines beside it, in any number: what they apply
is what the file says (`OthersSteady`), since the file has not changed.

`SizeInv` says of every request that the reserve is
the budget of the settings it has seen (`ReserveOK`), that nothing is dropped before
the plan (`StageOK`), and where the walk is (`WalkOK`): what may go and lies behind it is
gone, `running` is the size of what is left, and without the last turn that went the
rest was still above the goal. `TrimIsRight` (`TrimsAsNeeded`) is read off it at the end
of the walk (`GoalIsEnough`: a goal that was cut off at zero leaves nothing to drop).
`RequestFits` (`FitsCeiling`) adds that the budget grows with the conversation
(`BudgetGrows`), for which the percentages have to be clamped (`ShareType`): what is left of the
conversation is at most the ceiling less the reserve, and the block at most the
reserve.

### Kuzu cache

`SchemaIsThere` (`SchemaBeforeUse`): what is open has been initialized, and what is
initialized is on disk (`OpenIsInitialized`). `UsersShare` (`HeldIsCached`) is not
inductive. Its strengthening `Current` is about the order of the cache: the projects
that come after that of a held connection were opened since it was handed out, so
that it is pushed out only after as many others as the cache has places. Its
lemmas say what `move_to_end` and the trim do to the order (`MoveToEndOrder`,
`TrimmedOrder`).

### Decay

`DecayKeepsUp` (`ImportanceIsCurrent`) needs what a thread in the middle of its rows
has promised: rows it has still to write are of its project, and each other row
is as current as all will be when the batch is through (`BatchIsCurrent`), also when
the worker has replaced the vector in between; and no clock reading is ahead of the
clock.

### Identity and routing

`WrapperAndCommandsAgree` (`SameProject`) rests on lemmas about the operators of
`Identity`: a request whose URL has a project is filed where the commands look for it,
whatever the header and the environment say (`FiledWhereNamed`), any request is
filed under an id (`FiledUnderId`), and a wrapper without `--proxy` puts into the URL
the id it prints (`WrapperSaysItsId`). `SessionLed` says by what URL each kind of
session goes, and `NamesAgree` keeps it while the session lasts.
`RoutingIsWhole` and `OthersAreKept` come from what a command makes of any settings
(`ChangedRight`), and from every settings object, in a file or in memory, being whole
(`AllWhole`); the second also needs that a command that nobody has crossed is about
to write what it makes of the file as it is (`OnTheFile`). `CrashLeavesSettings` (`SettingsStayWhole`) needs who has which inode
open: the temporary file, the settings file and the client's are apart, and a
command that nobody clashed with is alone with its temporary file (`FileInv`).

### Prompt

`PromptInvariant` says what a payload is at each point: the history is that of a
conversation, with a result behind each use (`HistoryOK`); what is about to be sent is
what the client asked, without a set of messages that may be taken, with the block
or not (`PayloadOK`); and the archive has texts of the conversation (`ArchiveOK`).
The invariant names the set, because the properties ask what is left, and a payload
that has lost messages does not say which. `PromptArchive` (`BlockIsNotArchived`) is
then `ArchiveOK`, and rests on the parser leaving out what may hold the block: the
prompt, wherever the provider has it. `PromptPairs` (`PairsStayWhole`) is that neither
half of a pair is ever in the set, and that neighbours none of whom is taken stay
neighbours (`NextStays`). `PromptAddsTheBlock` (`OnlyTheBlockIsAdded`) compares two
sequences of different lengths. `Tells` lists what a payload tells by place and part;
taking messages out and putting a part in are shown to shift the places of the
others and to keep their order (`ShiftTells`, `InSystemInserts`), and two payloads that tell
the same things in the same order are told as one (`SameTold`).

### Selector

A conversation is drawn, and one step computes the selection, so that what is to be
proved is about the function, for conversations of any length and any weights. Its
walk of two passes, the second from the beginning, is shown to be one walk along the
second pass, of which the first is the beginning (`SelectionWalks`): `SelectorInv`
says where it stops, that no turn before was enough, and that pressure means the end.
`SelectorFrees` (`FreesWhatIsNeeded`) adds that each candidate is in that order once,
so that the sum over the walk is the sum over the turns (`SumOfNamed`),
`SelectorSparesPriority` (`PriorityIsLastResort`) that the priority
turns are behind all others, and `SelectorKeepsDense` (`KeepsDenseTurns`) that weights
compare like fractions (`Ratios`), so that the order is total (`EvictionOrderIsOrder`).

### Retrieval

`RetrievalInvariant` speaks of a request that other actors cross, so it is kept
stable against them. What a leg has found is among the episodes there have ever been
(`Seen`), which only grows, and not among the rows, which a purge takes away. What is
kept and shown follows the preference of the legs except for what has been deleted
(`Respects`), which only grows too. The steps of the other actors are done once, by two
facts each (`Grows`, `Quiet`).

`RetrievalOrder` (`PreferredComesFirst`) is the longest argument. An episode that each
leg puts before another one, with a type that counts as much, gets the larger term from
each (`ContributionOrder`), so the larger sum (`ScoreOrder`), so the place before it in
any order by score (`FusionIs`). The cut to `TopK` and the trim take a beginning of the
list (`HeadRespects`, `FittingIs`); `Among` leaves out what has no row any more, which the
exception of `Respects` covers (`AmongIs`). `RetrievalFinds` (`FoundIsShown`) is
`FoundSoFar`, which says at each statement what the request has in hand if nothing was in
its way. `RetrievalForgets` (`PurgedStaysOut`) is an action property: `Render` takes only
what still has a row.

### Recursion

Sums (`TokensAt`, `Total`, by `MapThenSumSet`) and a selection (`Filtered`) are
defined by recursion. The induction theorems of the library take an operator, which
the provers cannot instantiate, so each statement is proved of a least
counterexample: a set of numbers that is not empty has a least member
(`LeastNumber`), a set of finite sets a smallest one (`LeastSet`), both by the
well-foundedness of their orders. In the same way the recursion is shown to define a
function at all (`SumsExist`, `PartsExist`), and then that a sum does not depend on
its order (`SumWithout`), and that a selection grows with its sequence
(`FilteredAppend`).

Sorting needs no recursion. `Sorted` puts each member of a set at the place that the
number of those before it gives, in place of `SortSeq`, of which the provers know
nothing; for a strict total order this is the sorted list and there is no other
(`RankIsTaken`, `SortedIs`). `PartAt` takes parts of a list by their positions in
ascending order, as `SelectSeq` would (`PartIs`).

### Only model-checked

Liveness (`QueuedGetsFaceted`, `ComesToAnEnd`, `EveryProjectDecays`), which the
provers do not reach. Every safety property of a passing run is a theorem. That the
operators on texts (`Facets`) find what the code's tests say is seen by reading and in the
runs' instances: their values are given by tables, about which there is nothing to prove.

## 6. Not modelled

- Regular expressions, embeddings and the JSON of a provider. They are pure
  functions of text, and the models work with what they find or decide (a match, a
  marker, a size, a hash).
- `proxy/retry.py`, which the proxy imports and never calls, `request_id.py` and
  `streaming.py`, which nothing uses, and the budget plan and profile, pure
  arithmetic that only tests call.
- Configuration: read once at start, the constants of the models.
- `stats`, `route status`, logging and the metrics but `requests_total`: they report.
- The benchmarks and evaluations, more than a third of the lines of the
  repository: they drive the proxy from outside and compute scores.
- httpx's connection pool, and whether Kuzu allows two threads on a connection:
  matters of those libraries. `PROJECT.json` lists the hazards.

## 7. Plan

Done: every component that keeps state, abstract specifications for the archive and
for a request with the proofs that they are implemented, and proofs of all safety
properties of the runs. What would be next: `Inbound`, `Selector` and `Retrieval` as
parts of `Exchange`, so that the size rule is one of a whole request.

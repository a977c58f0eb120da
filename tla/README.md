# TLA+ models of the VEX agent

The VEX agent watches the event logs of students who program a VEX robot, speaks
to them when it sees a behaviour worth a word, and answers their questions. This
directory holds TLA+ models of its server, the TLC configurations that check
them on small instances, and proofs, checked by TLAPS, of the invariants that
matter most. Paths below are relative to the repository; `vex_agent/` stands for
`src/server/vex_agent/`, and `PROJECT.json` maps every definition to its lines.

- [The system](#the-system)
- [The modules](#the-modules)
- [What the runs check](#what-the-runs-check)
- [Bounds](#bounds)
- [Fairness](#fairness)
- [What is proved](#what-is-proved)
- [Where code and documents disagree](#where-code-and-documents-disagree)
- [What is not modelled](#what-is-not-modelled)
- [Plan](#plan)
- [Running it](#running-it)

## The system

One FastAPI process, one Postgres database, one external log service (the Invite
Hub), one LLM provider and a React client. Within the process several threads
run at once: the boot warm-up (`app.py`), the trigger daemon (`daemon.py`), and
a thread of the pool for each synchronous request (`/admin/tick`, chat requests,
resolve) and for each step of an SSE generator. They share the database, where
almost every helper of `data/db.py` opens a connection and commits on its own,
and the process memory: the chat history of `sessions.py`, the run-stream cache
of `proactive.py`, the Hub token, the daemon's stop flag. Nothing spans two
helpers: between any two of them other threads may run and the process may die.

```
Invite Hub --logs--> ingestion --rows--> parsed_events --events--> proactive tick
                       |  ^                                         |   |
                 ingest_cursor                          agent_triggers  chat.messages
                                                          (UNIQUE)        |  channel_rev
student's browser <--SSE-- event stream <---------------------------------+
        |                                                                 ^
        +--question--> chat request --session memory, budget, LLM---------+
```

| Component | State it keeps | Operations | What is hard | What makes it correct |
| --- | --- | --- | --- | --- |
| **Ingestion** (`logsync.py`, `fetch_invite_hub_logs.py`, `parse_event_logs.py`) | the `ingest_cursor` row, `parsed_events`, the cached token | full sync of the daemon and the warm-up, one-student sync of a request, token retry, migration 013 | offset paging over a growing feed; rows and cursor in two transactions; two full syncs at once; a filter on a time that is not ordered like the ids | no record is lost; no walk leaves a gap; the cursor never goes back; what the Hub publishes is stored in the end |
| **Proactive tick** (`proactive.py`, `sessions.py`) | `agent_triggers`, proactive `chat.messages`, the memory of two chats | detect, claim, generate, insert, remember, mark acted | `/admin/tick` against the daemon on one session; a failure between any two steps; claimed work kept in local variables only | at most one message per detected behaviour; an acted row names its message; only a failure loses a claim; memory follows the database |
| **Inactive trigger** (`proactive.py`, `db.py`) | the `inactive` rows with `fired_at` and `resolved_at` | fire, re-alert, resolve | a clock; events read at the top of a pass and used at its end; indexes chosen from the newest row | numbered one by one, spaced by the re-alert time, re-alerts while idle, resolved on recovery |
| **Event stream** (`stream.py`, migration 010) | `channel_rev` with its row lock, ids of `chat.messages`, the generator's `last_id` and `last_rev` | insert with row trigger and commit, open, gate, fetch, emit, reconnect | ids handed out before the commit; id and revision read in two transactions; no event id on the wire | sent in order and once; a stream never sleeps on a message it owes |
| **Daemon loop** (`daemon.py`) | thread, `_stop` event, back-off | start, stop, tick, back-off | a join that times out, start after stop; errors at three levels | one loop, and no error ends it |
| **Run streams** (`proactive.py` 60-168) | an LRU of segmenters, one per session | extend or rebuild | lists fetched outside the lock and of different age; late events; eviction; a call that fails after it fed the stream | the cached runs equal the runs of the caller's whole list; an index stands for one run; no detected run is skipped |
| **Chat requests** (`students.py`, `sessions.py`, `feedback.py`) | session memory, `chat.messages`, `message_feedback` | create_message, create_response, create_feedback | memory and database written apart; threads and check-ins on one bounded list | the conversation the model sees is the one in the transcript |
| **Token budget** (`budget.py`, `llm_usage`) | tokens used per key and day | check, record | checked before a call, recorded after it; a call is up to two attempts | what a budget can be overrun by is bounded; every reported token is counted |
| **Identity** (`identity.py`, migrations 009 and 011) | last-seen class and spelling per canonical student | record switches | read, compare, record and write back in four transactions | a recorded switch happened, the pointer never goes back |
| **Metrics and feedback policy** (`domain/`, the middle of `create_response`) | `state_snapshots` | functions of a session's events; two reads of those events in one request | precedence of rules, boundaries; ingestion between the reads | a class says of the student what the events show, and the prompt and the policy agree |
| **Reply shaping** (`llm/`) | which models reason | sanitise, trim, retry an empty answer | text; a retry | in the budget |
| **Web client** (`App.jsx`, `ResearchLab.jsx`) | two chats, pending action, seen check-ins | askAgent, SSE handler | replies that arrive in another order than the questions | a check-in shows once, a reply shows in its chat |
| **Turnstile gate** (`turnstile.py`) | a signed cookie | verify | - | - |
| **Admin, research, system** | none | `/admin/tick`, reads | the tick runs beside the daemon | as the proactive tick |

`PROJECT.json` lists the same components with what is modelled of each, and
under `hazards` each thing in this code that is hard to test, at its line, with
the properties that watch it.

## The modules

| Module | Models | Composes |
| --- | --- | --- |
| `Ingest` | `sync_invite_hub_logs`, `fetch_vex_logs_incremental`, `insert_rows`, the cursor of `db.py`, migration 013 | instance of `LogMirror` |
| `LogMirror` | abstract: what ingestion promises of the table and its cursor | - |
| `CheckIns` | abstract: what the lane promises about one detected behaviour | - |
| `OrderedLane` | abstract: what the streams promise the browsers | - |
| `ProactiveTick` | `persist_new_triggers`, `run_proactive_tick` and their database helpers | instance of `CheckIns` |
| `EventStream` | `insert_message` with the trigger of migration 010, and `_event_stream` | instance of `OrderedLane` |
| `InactiveLifecycle` | `detect_inactive_trigger` and its part of `persist_new_triggers` | - |
| `RunStreamCache` | `_compute_run_distances_cached`, `_extends`, the LRU, `fetch_events_from_db` and the indexes rows are inserted under | - |
| `TriggerDaemon` | `start_daemon`, `stop_daemon`, the loop and its walk over the students, `track_identity_switches` | stands for `ProactiveTick` and `Ingest` by what they can do to it |
| `StateMetrics` | `metrics.py` and `feedback_policy.py`, operators on a list of events | - |
| `FeedbackPolicy` | the analysis in `create_response`, the situation and the program of `context_builder.py` | extends `StateMetrics` |
| `ChatRequests` | `create_message`, `create_response`, the chat memory, the token budget and `execute_prompt` | stands for `FeedbackPolicy` and `ProactiveTick` by their outcomes |
| `MC*` | constants and symmetry for TLC | their component |
| `*Proofs` | theorems | their component |

Four conventions hold throughout.

- **A worker is a record of local variables with a `pc`.** Each transaction or
  call to the outside is an action, so every interleaving of threads that the
  database allows is a behaviour. Code between two of them is part of the action
  in front of it. An action `Advance(w)` gathers the steps of one thread.
- **Faults are actions**, bounded by `MaxFaults`: a call that raises, a rejected
  token, a restart of the process (local variables and memory go, the database
  stays), a dropped connection. A transaction in progress is rolled back, so
  failing before or inside it is the same step.
- **Data is reduced to what the control looks at.** A log record is an id, a
  receipt time, a student and how it fares in the parser; a message is a
  response id and the behaviour that caused it; a turn of a chat is its exchange
  and its role; a completion is the tokens it cost and whether it is usable.
- **Mutants** stand beside the definitions they break, marked `Mutant:`. No
  action uses them; each is a plausible bug that the property named in
  `PROJECT.json` catches.

### Ingest and LogMirror

| State | Code |
| --- | --- |
| `hub`, `order` | the Hub's records and the order of its listing, external |
| `store` | `source_log_id` in `event_logs.parsed_events` |
| `cursorId`, `cursorTime` | the row of `event_logs.ingest_cursor`; 0 is NULL |
| `scoped` | whether `all_students(recency_hours)` is non-empty |
| `sync[w]` | the locals of `sync_invite_hub_logs` and of the paging loop |

`GetIngestCursor` is the entry of a sync, `FetchPage` one request of the walk
with both early returns, `InsertRows` parsing and the one transaction of the
batch, `SaveIngestCursor` the guarded upsert. `RejectToken` is the 401/403 path
(log in again and walk from the first page, raise the second time), `SyncFails`
every other exception, `Restart` the process. A record of kind `malformed` is
skipped by `parse_records`; one of kind `poison` is built and then refused by
Postgres, which aborts the whole `executemany`. The daemon syncs only while
`scoped`; the warm-up and a request do not look. `Lull` is the recency window
running empty.

The Hub is external. What the code assumes of it is in constants that can be
set otherwise: `Orders`, `InOrder` (records become visible in the order of their
ids), `Skew` (how far receipt times may disagree with the ids), `SeedAhead` (how
far the migration may seed the cursor's time past receipt time: it takes it from
`event_ts`, the student's clock), `Untimed` (ids of records whose receipt time
`parse_event_time` cannot read; a batch of nothing but those keeps the cursor's
own time).

`LogMirror` says what all that amounts to: a table that takes only what the feed
holds and keeps it, and a mark and a floor that a fetch starts from and that move
only where every missing record stays above both. `ImplementsMirror` maps the feed
to the records that parse (`Good`), the mark to `cursorId` and the floor to
`cursorTime - Overlap`. A save of the cursor has to be a `MoveOn`, an insert a
`Copy`, whatever other syncs do meanwhile.

### ProactiveTick and CheckIns

| State | Code |
| --- | --- |
| `telemetry` | what the detectors see in the stored events of a session |
| `scope` | the sessions `in_scope_students` and `get_latest_session_id_for_student` lead the daemon to |
| `rows` | `agent_triggers`, unique on student, session, type and run index |
| `messages` | proactive rows of `chat.messages` |
| `history[c][s]` | `_session_messages` of chat *c*: the newest `MaxTurns` turns |
| `tick[w]` | the locals of `run_proactive_tick` |
| `dropped` | history variable: claimed fires whose tick ended before their message |

A *fire* is what the table is unique on. `StartTick` fetches and detects,
`PersistFire` is one `insert_agent_trigger_if_new`, `Generate` one answer of the
model (or the `continue` of a trigger that is not acted on), then
`InsertMessage`, `AppendHistory` per chat, `MarkActed`. `TickFails` is an
exception out of the loop, with everything the tick still held. `ExchangeTurn` is
a chat request that adds a turn to a chat meanwhile: the memories are bounded
(`MAX_SESSION_TURNS`, `MaxTurns` here), so turns push check-ins out of them. What
the requests do themselves is in `ChatRequests`.

`CheckIns` says what all that amounts to for one fire: unseen, claimed, then
sent or dropped, and never back. `ImplementsCheckIns` maps a fire to `sent` if a
message names it, to `dropped` if a failure took it, to `claimed` if its row is
there.

### EventStream and OrderedLane

| State | Code |
| --- | --- |
| `nextId`, `messages` | the sequence and the committed rows of `chat.messages` |
| `rev`, `locker` | `channel_rev.rev` and who holds its row lock |
| `linked` | messages whose `agent_triggers` row names their response |
| `insert[w]` | an insert between its statement, its trigger and its commit |
| `stream[c]` | `last_id`, `last_rev` and the batch of `_event_stream` |
| `sent[c]` | what went on the wire to this browser, over all connections |
| `excused[c]` | history variable, see below |

`BeginInsert` takes the id, `BumpRev` waits for the row lock, `Commit` shows row
and revision together. `Open` and `ReadFirstRev` are the two reads a stream
starts with, `PassGate`, `Fetch`, `Emit`, `EndBatch` its loop. A round in which
the revision has not moved changes nothing but the connection's idle time, so it
is a stutter here.

Two kinds of messages a stream cannot be held to, and `excused` names exactly
those: one committed between the two start reads, and one committed after the
stream has passed a larger id. The first is a finding (below), the second needs
two inserts for one student in flight at once.

`OrderedLane` says what a browser can count on, and is what keeps `excused`
honest: a message published in the order of the ids to a connected browser is
*owed* to it, what is owed leaves only by delivery, smallest first, or with the
connection, and nothing is delivered that is not beyond everything delivered. Only
a number published after a larger one may be left out. `ImplementsLane` maps
*connected* to a stream in its loop and *owed* to what is due and not sent.

### InactiveLifecycle

One session. `now` is the clock, `lastEvent` the newest `event_ts`, `rows` the
inactive rows with their index, `fired_at` and whether they are resolved. A pass
reads the events (`StartPass`), the clock (`ReadClock`), if idle the newest row
(`ReadLatest`), and then either inserts (`InsertRow`) or resolves (`Resolve`).
The clock of the process and of the database are taken to be one.

### RunStreamCache

| State | Code |
| --- | --- |
| `table[s]` | the rows of a session in `parsed_events`, with id and `event_ts` |
| `entry[s]` | its `_SessionRuns`: `fed`, `last_id` and what was pushed into the stream |
| `age[s]` | its place in the `OrderedDict`: how many sessions were used since, `RUN_STREAMS_MAX` once it is out |
| `call[w]` | the locals of a detecting thread: the fetched list, the runs it got, the fires to insert |
| `rows` | `agent_triggers`, with the run each row was inserted for |
| `late` | history variable: sessions in which an event came with an earlier `event_ts` |

`Fetch` is the query, outside the lock; `ComputeRuns` is everything under the
lock, with `_extends`, the pushes and the LRU, and the detection; `PersistFire`
is one insert. A list is a set of rows in the order of the query, so a position
is a number of earlier rows. The segmenter of `agent_lm` is external: it is what
was pushed into it, and it is `garbled` if something was pushed out of order or
twice. `ProactiveTick` takes the detected (type, run index) pairs as given; this
module is about where the index comes from.

### TriggerDaemon

| State | Code |
| --- | --- |
| `events`, `window` | the identities and times in `parsed_events`, and what `all_students` takes for recent |
| `pointer` | the student's row of `event_logs.student_identity` |
| `switches` | `event_logs.switch_events` |
| `stopping` | the event `_stop` |
| `thread` | the handle `_thread` |
| `work[w]` | whether a thread is alive, and the locals of the loop, of its tick and of `track_identity_switches` |

One canonical student under several spellings, which is where ticks meet: the
daemon walks the spellings in any order, an admin ticks one of them.
`StartDaemon` and `StopDaemon` are the two calls of the lifespan; stopping waits
two seconds and no longer, so a thread may outlive it. A start looks at the thread
of the handle alone, as the code does: that no other thread is alive then is what
`OneLoop` says, and that the one of the handle is, until it is told to stop.
`BeginTick` is the loop's
test of `_stop` with the scope and the sync, `Visit` the next student;
`ReadLatest`, `ReadState`, `Record` and `Upsert` are the four database calls of
the tracking; `FinishTick` is the rest of the student's tick, raising or not.
`TrackingFails` is caught within the tick, `TickFails` by the loop. Only the
*length* of the sleep is left out: it is all that the counters of failures and of
idle ticks decide.

### StateMetrics and FeedbackPolicy

`StateMetrics` has no state. It gives `HasActiveProjectRun`, `Segment` (the
current stay in the playground), the five metrics of `AnalyzeCurrentState`, the
two classifiers with every rule in the order of the code, and
`DetermineFeedbackClass`. Fractions are multiplied out, so that comparisons are
those of the code; thresholds on time are constants, thresholds on progress the
code's numbers.

| State of `FeedbackPolicy` | Code |
| --- | --- |
| `stored` | the session's rows of `parsed_events`, in the order of the query |
| `request[r].events` | `parsed_events` in `create_response`: the checks, the situation and the program come from it |
| `request[r].fetched` | the list `compute_snapshot_for_student_session` reads for itself |
| `request[r].snapshot`, `.classes` | the snapshot and the classes chosen from it |
| `row` | the session's row of `state_snapshots` |

`FetchEvents`, `ComputeSnapshot` and `SaveSnapshot` are the three database calls
with what is computed behind each; `StoreEvent` is ingestion, which goes on
meanwhile and may put an event *between* others.

### ChatRequests

| State | Code |
| --- | --- |
| `memory[c]` | `_session_messages` of the student's and the researcher's chat |
| `reasoning` | `_reasoning_models` of `client.py` |
| `rows` | the turns in `chat.messages` |
| `recorded[k]`, `daily` | the sums over `chat.llm_usage` that `check_budget` reads |
| `exchange[t]` | the locals of `create_message` and `create_response`, the prompt and the tokens |
| `appended`, `forgotten`, `spent`, `blame`, `unsaved` | history variables |

An exchange goes through `CreateMessage` and `StoreQuestion`, then `CheckSession`
and `CheckDaily` (two queries), `Analyze`, `Ask`, one or two attempts of the model
(`Answer`, `Retry`, `EmptyAnswer`, `CallRaises`, `NoChoice`), `RecordUsage`, `RememberReply`
and `StoreReply`. `NoChoice` is a completion with usage and no choice, which
raises before its tokens are read. `blame[k]` says why tokens of a key can be
missing (the second attempt raised, a completion had no choice, the insert failed,
the process died), `unsaved` which turns the
database refused. The thread pool is `Threads`.

## What the runs check

| Run | Question | Properties |
| --- | --- | --- |
| `ingest_safety` | do overlapping syncs of the daemon, the warm-up and a request, with a failure or restart anywhere, ever lose a record, or move the cursor past a missing one or back? | `NoRecordLost`, `ImplementsMirror`, `TypeOK` |
| `ingest_daemon` | does paging a growing feed, in either order and with bad records, leave a gap, move the cursor past a missing record, or leave a good one unstored? | `ImplementsMirror`, `WalkHasNoGap`, `EventuallyStored` |
| `proactive_tick` | do ticks that overlap and fail send a check-in twice, or lose one without a failure? | `OneMessagePerFire`, `ActedHasMessage`, `OnlyFailuresDrop`, `MemoryFollowsMessages`, `EveryFireAnswered`, `ImplementsCheckIns`, `TypeOK` |
| `event_stream` | does a stream repeat, reorder, pass over or silently keep back a message? | `ImplementsLane`, `GateSound`, `DueDelivered`, `TypeOK` |
| `inactive_lifecycle` | do overlapping passes number and space the alerts as one thread would, and do re-alert and recovery happen? | `NumberedOneByOne`, `Spaced`, `ReAlerts`, `RecoveryResolves`, `TypeOK` |
| `run_streams` | does a cached stream, fed by callers with lists of different age, ever give other runs than a rebuilt one, or an index to two runs? | `RunsExact`, `IndexStable`, `NoneSkipped`, `TypeOK` |
| `trigger_daemon` | do starts, stops, errors and an admin's tick ever make two loops, lose the handle of the one, end it, or record a switch the student did not make? | `OneLoop`, `SwitchesReal`, `PointerForward`, `LastSeenCatchesUp`, `TypeOK` |
| `feedback_policy` | for every short list of events: do the rules choose classes the events bear out, and does the policy decide on what the prompt tells, and of which stay are program and milestones? | `DeadClasses`, `ClassesGrounded`, `PolicyFollowsPrompt`, `WhichStayIsShown`, `TypeOK` |
| `chat_requests` | by how much can overlapping exchanges overrun a budget, are tokens lost, and what is in a prompt? | `OverspendBounded`, `TokensAccounted`, `PromptContext`, `TypeOK` |
| `run_refire`, `event_stream_start`, `chat_failed_calls` | does the program do what this line says? It does not: see [below](#where-code-and-documents-disagree) | one each |

What they show, in short. The unique key of `agent_triggers` alone carries the
at-most-once promise: no run finds a second message for a fire, with any
interleaving of the daemon, an admin and a failure. Saving the cursor after the
rows, reading it at the start of the walk and never from a one-student fetch
carries `NoRecordLost`; the overlap carries it against receipt times that
disagree with ids, and that a save never outruns the rows is the whole of
`ImplementsMirror`. Reading the revision *before* the rows and keeping that value
carries `GateSound`. Computing the elapsed time from a clock read *before* the
newest row, and inserting under the unique key, carries `Spaced`. Comparing one
row, the one at the last position, carries `RunsExact`, because lists of one
session are snapshots of a table that only grows. Comparing the event time of an
identity with the *pointer's*, and moving the pointer only forward, carries
`SwitchesReal`: two spellings visited in any order, by two threads, record nothing
the student did not do. Computing the snapshot from the second list and the
prompt from the first carries `PolicyFollowsPrompt`; the other way round the model
could be told of events the policy had not seen. `DeadClasses` shows what the
order of the rules amounts to: three of the rules of `feedback_policy.py:66-87`
are never reached. And what a budget can be overrun by does not depend on how
long the system runs, only on the threads: two completions for each.

`EventuallyStored` names two exceptions, which are what the code does: while no
student is in scope the daemon does not sync, and while the Hub holds a record
that Postgres refuses every batch that contains it fails.

## Bounds

| Run | Instance | Why it is enough |
| --- | --- | --- |
| `ingest_safety` | 3 ids, one of them without a readable receipt time, 2 receipt times in the order of the ids and no overlap, 2 students (symmetric), pages of 2, daemon, warm-up and one request, one fault | three records over pages of two give a second page that can shift; two full syncs and a neutral one give every order of the two cursor saves and of the insert between them; two students are what a neutral fetch can skip |
| `ingest_daemon` | 3 ids, one of them without a readable receipt time, 3 receipt times, skew and overlap 1, one student, all kinds, both page orders, two faults | with three times the filter does hide records; a malformed, a poisonous and a good record in one batch; a token rejected twice |
| `proactive_tick` | one session, a trigger that is acted on and one that is not, two chats with memories of three turns, daemon and one admin, one fault | sessions do not share rows or locals; two workers overlap in every way; three exchanges push a check-in out of one chat before it reaches the other. Two acted fires, a claim behind the one in hand, are covered by the proofs, which have any number of triggers; with the turns of the chats they do not fit a run |
| `event_stream` | 3 ids, two students, two inserters, one stream, two faults | a message before, in and after the start window, and a foreign one that moves the revision; streams share nothing they write |
| `inactive_lifecycle` | times 1 to 6, idle after 1, re-alert after 2, recency 5, daemon and one admin, one fault | idle, fire, re-alert, recovery and idle again fit into six units; a unit is about four minutes (240 s idle, 600 s re-alert) |
| `trigger_daemon` | two threads and one admin, two spellings, one class code, event times 1 and 2, two starts, one fault | a thread that outlives its stop and one started after it; two spellings are walked in either order and raced by the admin; class codes are compared in the same expression (the proofs have any number of both) |
| `feedback_policy` | one request, lists of up to 4 events of ten kinds at times 0 and 1, one unit for every threshold that is not 0, one event during the request, one fault | requests share only the row; four events reach every class a rule can choose, late events go before, between and after others; the run and the proofs do not read the numbers as seconds |
| `chat_requests` | two threads, one browser, one model, memory of 2 turns, limits 1 and 2, completions of one token, 3 exchanges, one check-in, one fault | two exchanges overlap in every way and a third meets what they left; a memory of two is full after one exchange; limits of one and two are reached by one retry |
| `run_streams` | 3 rows of which two are runs, 2 event times, two sessions and a cache of one, daemon and one admin, one fault | three rows give a late event before, between and after others with ties broken by the id; two sessions evict each other; two callers hold lists of every pair of ages |

`MaxFaults`, `MaxId`, `MaxTime`, `MaxStarts`, `MaxEvents`, `MaxRaces`,
`MaxExchanges`, `MaxCheckIns` and `MaxCost` are bounds of the instance and sit in
guards; `Ids` and `Times` bound what the Hub publishes. Deadlock is checked in
`run_streams`, where a caller can always fetch again, and in `trigger_daemon`,
where a stop is always possible, and not in the others: with the clock, the ids,
the exchanges and the faults used up the system may rest.
`SYMMETRY` is used in `ingest_safety` over students, and in `chat_requests` and
`chat_failed_calls` over threads, with no liveness property in any of them.

## Fairness

- `Ingest`: weak fairness of the daemon's next tick and of each step of a full
  sync. The loop of `daemon.py` ticks for ever and its calls to the Hub and to
  the model have timeouts; a query that Postgres never answers is left out of
  account. No fairness of requests, of the Hub or of the warm-up's start.
- `ProactiveTick`: weak fairness of each tick's steps, strong fairness of the
  daemon starting a tick on a session in scope: a pass visits every session in
  scope, one after the other, so a session that is in scope again and again is
  visited, even though the daemon is busy with another in between. Nobody has
  to call `/admin/tick`.
- `EventStream`: weak fairness of a stream's loop, strong fairness of an insert,
  because the row lock comes and goes and Postgres queues for it.
- `InactiveLifecycle`: weak fairness of a pass's steps and of the daemon's next
  pass. The clock and the student are free to do nothing.
- `TriggerDaemon`: weak fairness of each thread's steps, which is the operating
  system's. Nobody has to start or stop the daemon, call `/admin/tick` or send
  events; a stop ends what `LastSeenCatchesUp` promises.
- `FeedbackPolicy` and `ChatRequests` have safety properties only: a request that
  does not end is a timeout of the browser's.

## What is proved

TLAPS checks every theorem for all values of the constants that satisfy the
named assumption of the module: any number of callers, ids, students, sessions,
streams, any page size, any thresholds, any number of faults.

| Theorem | States | Rests on |
| --- | --- | --- |
| `IngestProofs!TypeCorrect` | `Spec => []TypeOK` | `IngestAssumption` |
| `IngestProofs!Lossless` | `Spec => []NoRecordLost` | and `HubAssumption` |
| `IngestProofs!Implements` | `Spec => ImplementsMirror` | and `HubAssumption` |
| `IngestProofs!MirrorLosesNone` | `ImplementsMirror => []NoRecordLost` | nothing |
| `IngestProofs!WalkComplete` | `Spec => []WalkHasNoGap` | and `HubAssumption` |
| `ProactiveTickProofs!TypeCorrect`, `AtMostOnce`, `ActedLinked`, `NothingForgotten` | `TypeOK`, `OneMessagePerFire`, `ActedHasMessage`, `OnlyFailuresDrop` | `TickAssumption` |
| `ProactiveTickProofs!Implements` | `Spec => ImplementsCheckIns` | `TickAssumption` |
| `EventStreamProofs!TypeCorrect`, `OrderedDelivery`, `GateIsSound` | `TypeOK`, `InOrderOnce`, `GateSound` | `StreamAssumption` |
| `EventStreamProofs!Implements` | `Spec => ImplementsLane` | `StreamAssumption` |
| `InactiveLifecycleProofs!TypeCorrect`, `Numbered`, `ReAlertSpacing` | `TypeOK`, `NumberedOneByOne`, `Spaced` | `InactiveAssumption` |
| `RunStreamCacheProofs!TypeCorrect`, `CacheExact`, `IndexesStable`, `NoRunSkipped` | `TypeOK`, `RunsExact`, `IndexStable`, `NoneSkipped` | `CacheAssumption` |
| `ProactiveTickProofs!MemorySound` | `Spec => []MemoryFollowsMessages` | `TickAssumption` |
| `TriggerDaemonProofs!TypeCorrect`, `AtMostOneLoop`, `OnlyRealSwitches`, `IdentityForward` | `TypeOK`, `OneLoop`, `SwitchesReal`, `PointerForward` | `DaemonAssumption` |
| `FeedbackPolicyProofs!TypeCorrect`, `RulesNeverReached`, `ClassesTrue`, `PolicyNotBehindPrompt`, `WhenPromptIsOfThisStay` | `TypeOK`, `DeadClasses`, `ClassesGrounded`, `PolicyFollowsPrompt`, `WhichStayIsShown` | `MetricsAssumption`, `PolicyAssumption` |
| `ChatRequestsProofs!TypeCorrect`, `BudgetOverrun`, `TokensKept`, `PromptFromTranscript` | `TypeOK`, `OverspendBounded`, `TokensAccounted`, `PromptContext` | `ChatAssumption` |

**`HubAssumption`** is what the ingestion needs of the Hub and cannot check: ids
that become visible in order, and an overlap that covers both what receipt times
may disagree with the ids (`Skew`) and what the migration's seed may be ahead of
them (`SeedAhead`). The order of the pages does not matter. TLC shows that each
part is needed: in `ingest_daemon` with `InOrder = FALSE`, or with a skew of one,
a seed one ahead and an overlap of one, it finds a lost record, and with an overlap
of two it finds none.

**Ingest.** `NoRecordLost` is not inductive: nothing in it says why a sync in
flight may save its cursor. The invariant adds that the cursor is a *watermark*
(every good record at or below it is stored), that the cursor and each sync's
copy of it are *justified* (some record has that id, and one at or below it that
receipt time, up to the seed, which is what makes the `dateFrom` filter harmless:
`OverlapReaches`), that a copy never exceeds the cursor, and `NoGap`: a record
between the copy and anything the walk holds is held too or at an offset the walk
has not reached. With the newest first, a record published in mid-walk moves the
others to larger offsets, so what was ahead stays ahead. With the oldest first it
comes in behind them all, and there the invariant needs `PassedKept`: what the
walk has an offset past, it holds. The early end of a walk, a page that goes down
and touches a covered id, is no end of that order: of two records on one full page
the offsets ascend with the ids (`FullPageAscends`, by counting what lies below).
A save at the end of a walk leaves no gap, hence the watermark moves and stays one.

The refinement has one lemma per kind of step: `PublishReachable` (a record
becomes visible above the mark and not before the floor), `StepCopies`, and
`StepMovesOn`, in which the watermark shows that whatever is missing is above the
new mark and `OverlapReaches` that it is not before the new floor.
`MirrorLosesNone` closes the circle within the abstract specification, where
`NothingOutOfReach` is inductive as it stands.

**ProactiveTick.** `TickInv` is about who *holds* a fire: a fire is held by at
most one tick (`Exclusive`), a held one has its row and no message and was not
dropped (`HeldOK`), and a claimed fire that owes a message is held by somebody
(`NotForgotten`). Only the insert that finds no row makes a holder, only sending
or dropping ends it; everything else follows. The refinement uses the same
invariant: `StepKinds` sorts the steps into those that claim, send, drop and
those that leave `Status` alone.

**EventStream.** The invariant is per connection. `GateOK` strengthens
`GateSound` in one point: a due message that is neither sent nor held lies
beyond *everything* held, so that emitting the batch cannot pass it. `SentOK`
needs that what was sent was committed for this student, so that the start id of
a reconnect is past it. That a due message is never passed does not depend on the
revision, only that it is noticed does. The refinement adds `NumberInv`: an id is
handed out once, so that a commit publishes a *new* number, and what a stream
starts from or has reached is the id of a committed row, so that a commit beyond
all of them cannot be excused. `PublishRefines`, `DeliverRefines`,
`ConnectRefines` and `LoseRefines` are the four kinds of steps.

**InactiveLifecycle.** `NumberedOneByOne` and `Spaced` need `NextInLine`: a pass
about to insert number *n* took it from a row *n + 1* that was old enough *at the
time the pass had read*, and `InThePast`: that time is not ahead of the clock. A
concurrent pass that inserts *n* first makes the insert a no-op through the
unique key.

**RunStreamCache.** `CacheInv` says that every stream holds exactly a list that
was once the table (`EntriesOK`) and that any two lists of a session are nested
(`AllNested`). Then a list in which the stream's last row stands at the stream's
last position has as many rows in front of it as the stream has, and of two
nested sets of one size neither is larger: `ExtendsIsPrefix`, the lemma on which
`_extends` stands. For the indexes, `RowsPlaced` says that a row's index is the
place of its run in the table while nothing comes late, and `PositionInjective`
that no two runs share one. Types and `RunsExact` need the finiteness of the
tables, so the type invariant is a part of `CacheInv` and not inductive alone.

`MemoryFollowsMessages` is about two actors on one list, and its invariant
`MemoryInv` says what a tick that is still appending may rely on: its message is
stored, of its own session, and remembered in the chats it has been through, or
their memory is full. A memory never shrinks while the process runs, so one that
is full stays full, and one that is not has lost nothing (`RememberRenews`,
`MemoryGrowth`): an acted row's check-in is in every chat until something fails or
`MaxTurns` turns have filled that chat.

**TriggerDaemon.** `DaemonInv` adds to the properties that the pointer is an event
(so a switch from it is one from something the student did) and `GoodWork`: what
a tick holds was read from events, the switches it is about to record lead from
an earlier event to a later one, and whatever it still has to record or has
recorded covers the way from the pointer it read. `AtMostOneLoop` rests on the
handle: a start replaces it only when its thread has ended, so no living thread is
ever without it. `IdentityForward` needs the last
part: a move that nobody raced has its switches in the log.

**FeedbackPolicy.** `PolicyInv` says that the first list is embedded in the second
and the second in what is stored (`Sound`), that the lists are ordered by time,
and that snapshot and classes are those of the second list. The rest is about
operators: the extremum of a non-empty set of places exists (`MaxPlace`,
`MinPlace`, by well-foundedness of finite sets), what each rule of the classifiers
implies, and that a segment is a suffix. `RulesNeverReached` is then the
statement about the rules that a reader of `feedback_policy.py` would have to
believe: for *every* list of events, of any length and any times.
`WhenPromptIsOfThisStay` compares two searches over the whole session with one
over the current stay, and says for every list when they agree (`Grounding`): the
program is of an earlier stay when a project was run, and none in this one.

**ChatRequests.** `OverspendBounded` is not inductive. `BudgetInv` gives each
exchange past its check an allowance of two completions, of which `Paid` is what it
has spent: what is recorded plus the allowances of the exchanges that have
passed is below limit plus overrun. Passing the check starts an allowance only
below the limit, recording turns it into use. `ContextInv` says that a memory is
the newest turns appended since the last restart, numbered without a gap
(`MemoryGood`), and that a question is in it or has been pushed out by newer ones
(`QuestionKept`).

`TokensAccounted` equates what the gateway reported with what is recorded and a
*sum* over the threads, and a step changes one term of it. That a sum changes by
as much as its term does is an induction over the set of threads, which the
library states with an operator parameter; the proof takes a smallest set for
which the claim fails instead (`SmallestSubset`, from the well-foundedness of
inclusion), to show that the fold has a value (`SumExists`), that it does not
depend on the order (`SumRemove`), and `SumChange`. With these the balance of each
step is arithmetic on one exchange (`Balance`), given `FirstHeld`: tokens of a
first attempt are held only while the second is under way or its result is being
recorded.

Only model-checked: the liveness properties (`EventuallyStored`,
`EveryFireAnswered`, `DueDelivered`, `ReAlerts`, `RecoveryResolves`,
`LastSeenCatchesUp`), which TLAPS cannot reach: they rest on fairness and on
`ENABLED`. Of each the safety half is proved: what is missing stays within reach
(`NoRecordLost`), what is claimed stays in some tick's hands (`OnlyFailuresDrop`),
what is owed stays owed (`ImplementsLane`), and what is not sent will be announced
(`GateSound`). `InOrderOnce` is proved and not checked by a run of its own:
`OrderedLane` contains it.

## Where code and documents disagree

Each is a run that TLC finds violated, with the line it quotes in `PROJECT.json`.

| Run | The repository says | The code does |
| --- | --- | --- |
| `run_refire` | a student hears again only on genuinely new behaviour (`docs/guides/configuration.md`, `daemon.py:10-11`) | a run stored late moves the later runs to other indexes, and one already reported is inserted and acted on again |
| `event_stream_start` | proactive messages arrive on the stream (`docs/reference/api.md`) | a message committed between the stream's first two reads waits for the next one to move the revision |
| `chat_failed_calls` | every LLM call counts, "including calls that fail after spending tokens" (`docs/guides/configuration.md:64-65`) | when the second attempt of a call raises, the tokens of the first are not recorded (`students.py:298` finds no `tokens` on that exception) |

Other lines that modelling showed to be different in the code; no run is spent on
them, and where the outcome is in a model it is named.

- `docs/guides/configuration.md`: the daemon wakes and syncs. It returns before
  the sync when no student has a recent *stored* event, so it does not begin on an
  empty table nor resume after a quiet window (`Ingest`: `scoped`).
- `stream.py:47-49`: falls back to polling without the revision row. 0 equals 0
  for ever, so it never polls (`EventStream`: `RevRow = FALSE`).
- `db.py:156-157`: open inactive rows are resolved when the student recovered.
  Also when the student is still idle and the last alert is young
  (`InactiveLifecycle`: `Resolve`).
- `proactive.py:246-247`: after a recovery the next streak starts a fresh cycle.
  The re-alert time of the old one still suppresses it, and the numbering goes on.
- `context_builder.py:470-471`: the situation is of the same snapshot. It is
  analysed from the first list of the request, the snapshot from the second
  (`FeedbackPolicy`: `events` and `fetched`).
- `feedback_policy.py:66-87`: the rules for `NUDGE` and `HOW_TO`, and one of those
  for `DIAGNOSE`, can never apply (`DeadClasses`).
- `daemon.py:14-18`: LLM errors and a failing Hub get exponential back-off, and a
  tick that synced is not idle. Those errors are caught further in and count as
  an idle tick, and busy means that something was acted on.

More of what the models show and no document denies: one record that Postgres
refuses stops all ingestion; a check-in whose tick fails after the claim is
never sent; a stream that reads between a message's commit and
`mark_agent_trigger_acted` sends it without its trigger type; before the first
run of a stay the prompt may show the program of an earlier one
(`WhichStayIsShown` says exactly when); a stay that
began after a change of playground ignores its switch events; a run and an end
with equal times count as stopped; of two requests the older snapshot may be
written last; raced ticks can move the identity pointer past a switch neither
records, and the same switch may be recorded again under another session; a
start after a stop that timed out leaves no daemon.

## What is not modelled

- The content of records, prompts and answers; the detectors and segmenters of
  `agent_lm` (an empty submodule, `src/server/vendor`), the LLM provider and
  Postgres itself: they are inputs, or the atomic transactions they offer. A
  `POST_RUN_PAUSE` of the segmenter is a flag of the event it begins at.
- Reply shaping: the sanitizer and the trim are functions on text. The retry of
  an empty answer and the memory of which models reason are in `ChatRequests`.
- Of the requests: `create_feedback` (one insert), `resolve_session` and the
  reads. Of the metrics: scores that are negative or not whole.
- How long the daemon sleeps.
- The web client and the Turnstile gate. The first is state of React in one
  browser tab: what a tab can send, and when, is left free in `ChatRequests`, and
  what it gets is in `EventStream`. The second is a stateless check of a cookie,
  which is the budget key of `ChatRequests`.
- The `vex-fetch-logs` command line, which keeps a state file of its own.
- Catalogs, configuration and schemas: static data.
- Tests, deployment and scripts.

## Plan

Done: `Ingest` over `LogMirror`, `ProactiveTick` over `CheckIns`, `EventStream`
over `OrderedLane`, `InactiveLifecycle`, `RunStreamCache`, `TriggerDaemon`,
`FeedbackPolicy` over `StateMetrics` and `ChatRequests`, each with its proofs;
every invariant, action property and refinement of a passing run is a theorem.

Left, in this order:

1. The other abstract specifications: an alarm that `InactiveLifecycle`
   implements, and run detection without a cache for `RunStreamCache`.
2. `ClientChat`, askAgent and the SSE handler of `App.jsx`, and `PushLane`, its
   composition with `EventStream`, end to end from message to screen. It is worth
   a model when the client keeps more than a flag per chat.
3. The state file of `vex-fetch-logs`, beside the cursor of `Ingest`.

## Running it

```
tlc -workers 2 -config IngestSafety.cfg MCIngest.tla
tlapm IngestProofs.tla
```

Each run takes about two minutes at most on two workers; each proof module is checked in a few minutes.

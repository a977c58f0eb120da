------------------------------- MODULE Ingest -------------------------------
(***************************************************************************)
(* Incremental log ingestion: services/logsync.py, the paging walk of      *)
(* ingest/fetch_invite_hub_logs.py, the batch insert of                    *)
(* ingest/parse_event_logs.py and the cursor row of data/db.py.            *)
(*                                                                         *)
(* Several callers sync at once: the trigger daemon, only while a student  *)
(* is in its scope, the boot warm-up (FullSync: both advance the cursor)   *)
(* and the request path (Requests, one student each, cursor-neutral).  The *)
(* cursor is read at the start of a sync, the Hub is walked page by page   *)
(* while it keeps publishing, the rows go in as one transaction, and the   *)
(* cursor is saved in another.                                             *)
(***************************************************************************)
EXTENDS Integers, FiniteSets

CONSTANTS
    Ids,        \* ids the Hub may assign to log records
    Times,      \* receipt times the Hub may stamp (received_at)
    Students,
    Kinds,      \* subset of {"ok", "malformed", "poison"}, see Records
    Untimed,    \* ids of the records whose receipt time does not parse
    Daemon,     \* the trigger daemon's thread, advance_cursor=True
    WarmUps,    \* the boot warm-up threads, advance_cursor=True
    Requests,   \* callers with advance_cursor=False: the request path
    PageSize,
    Orders,     \* orders the Hub may page in: "newest_first", "oldest_first"
    Overlap,    \* SYNC_OVERLAP_SECONDS
    Skew,       \* how far receipt times may disagree with the order of ids
    InOrder,    \* TRUE iff records become visible in the order of their ids
    SeedAhead,  \* how far the migration may seed the cursor past receipt time
    MaxFaults   \* bound on failing calls, rejected tokens, restarts and lulls

ASSUME IngestAssumption ==
    /\ Ids \subseteq Nat \ {0}
    /\ Times \subseteq Nat \ {0}
    /\ Untimed \subseteq Ids
    /\ PageSize \in Nat \ {0, 1}
    /\ Orders \subseteq {"newest_first", "oldest_first"}
    /\ Overlap \in Nat /\ Skew \in Nat /\ SeedAhead \in Nat /\ MaxFaults \in Nat
    /\ InOrder \in BOOLEAN
    /\ ({Daemon} \cup WarmUps) \cap Requests = {}

VARIABLES
    order,      \* the order of the Hub's pages
    hub,        \* records visible at the Hub
    store,      \* source_log_ids in event_logs.parsed_events
    cursorId,   \* ingest_cursor.last_source_log_id (0: NULL)
    cursorTime, \* ingest_cursor.last_event_time (0: NULL)
    scoped,     \* some stored event is in the daemon's recency window
    sync,       \* the local variables of each caller's sync_invite_hub_logs
    faults

vars == <<order, hub, store, cursorId, cursorTime, scoped, sync, faults>>

FullSync == {Daemon} \cup WarmUps

Workers == FullSync \cup Requests

(***************************************************************************)
(* A log record, reduced to what the sync looks at.  "ok" parses and       *)
(* inserts; "malformed" makes build_parsed_event raise ValueError, and     *)
(* parse_records skips it; "poison" passes build_parsed_event (neither the *)
(* session UUID nor an unparsable timestamp is checked there) and makes    *)
(* Postgres reject the whole executemany.                                  *)
(***************************************************************************)
Records == [id : Ids, recv : Times, student : Students, kind : Kinds]

Pcs == {"idle", "fetching", "insert", "save"}

Idle == [pc |-> "idle", lastId |-> 0, lastTime |-> 0, scope |-> {},
         offset |-> 0, got |-> {}, retried |-> FALSE]

SyncStates == [pc : Pcs, lastId : Nat, lastTime : Nat, scope : SUBSET Students,
               offset : Nat, got : SUBSET Records, retried : BOOLEAN]

TypeOK ==
    /\ order \in Orders
    /\ hub \subseteq Records
    /\ store \subseteq Ids
    /\ cursorId \in Nat
    /\ cursorTime \in Nat
    /\ scoped \in BOOLEAN
    /\ sync \in [Workers -> SyncStates]
    /\ faults \in Nat

IdsOf(S) == {r.id : r \in S}

\* max() over the ids of a batch.
IsNewest(r, S) == r \in S /\ \A q \in S : q.id <= r.id

\* The receipt times parse_event_time finds in a batch, and their max(), with the
\* cursor's own time when none parses.
TimesOf(S) == {r.recv : r \in {q \in S : q.id \notin Untimed}}
IsLatest(t, S, default) ==
    IF TimesOf(S) = {} THEN t = default
    ELSE t \in TimesOf(S) /\ \A u \in TimesOf(S) : u <= t

(***************************************************************************)
(* What the Hub may hold.  Ids are unique; receipt times follow the order  *)
(* of ids up to Skew.                                                      *)
(***************************************************************************)
WellStamped(H) ==
    \A q, r \in H : /\ q.id = r.id => q = r
                    /\ q.id < r.id => q.recv <= r.recv + Skew

\* A new deployment starts with an empty table and no cursor; migration 013
\* seeds the cursor of an existing one (here, of one row) from what it holds:
\* the newest id, and the newest event_ts, a time of the student's own clock.
Init ==
    /\ order \in Orders
    /\ \/ hub = {} /\ cursorId = 0 /\ cursorTime = 0
       \/ \E r \in Records : /\ r.kind = "ok"
                             /\ hub = {r}
                             /\ cursorId = r.id
                             /\ cursorTime \in r.recv .. r.recv + SeedAhead
    /\ store = IdsOf(hub)
    /\ scoped \in {FALSE, store # {}}
    /\ sync = [w \in Workers |-> Idle]
    /\ faults = 0

---------------------------------------------------------------------------
(* The Hub. *)

Publish(r) ==
    /\ r.id \notin IdsOf(hub)
    /\ InOrder => \A q \in hub : q.id < r.id
    /\ WellStamped(hub \cup {r})
    /\ hub' = hub \cup {r}
    /\ UNCHANGED <<order, store, cursorId, cursorTime, scoped, sync, faults>>

---------------------------------------------------------------------------
(* One sync. *)

\* get_ingest_cursor, and the query this caller sends: everything for a full
\* sync, one student for the request path.
GetIngestCursor(w, scope) ==
    /\ sync[w].pc = "idle"
    /\ sync' = [sync EXCEPT ![w] =
                  [Idle EXCEPT !.pc = "fetching", !.scope = scope,
                               !.lastId = cursorId, !.lastTime = cursorTime]]
    /\ UNCHANGED <<order, hub, store, cursorId, cursorTime, scoped, faults>>

\* Mutant: dateFrom is the cursor's time, not rewound by the overlap.
View_NoOverlap(w) == {r \in hub : /\ r.student \in sync[w].scope
                                  /\ r.recv >= sync[w].lastTime}

\* The records the Hub serves for the query: the studentID filter, and the
\* dateFrom filter rewound by the overlap.
View(w) == {r \in hub : /\ r.student \in sync[w].scope
                        /\ r.recv >= sync[w].lastTime - Overlap}

Before(q, r) == IF order = "newest_first" THEN q.id > r.id ELSE q.id < r.id

Rank(w, r) == Cardinality({q \in View(w) : Before(q, r)})

\* Mutant: pages counted from one.
Page_OneBased(w) == {r \in View(w) : /\ sync[w].offset < Rank(w, r)
                                     /\ Rank(w, r) <= sync[w].offset + PageSize}

Page(w) == {r \in View(w) : /\ sync[w].offset <= Rank(w, r)
                            /\ Rank(w, r) < sync[w].offset + PageSize}

IsDescending(P) == \A q, r \in P : Before(q, r) => q.id > r.id

\* len(batch) < page_size, the empty batch included.
ShortPage(w) == Cardinality(View(w)) < sync[w].offset + PageSize

\* One request of fetch_vex_logs_incremental: keep the ids above the cursor
\* that were not seen yet; stop at a short page, or at the first id of a
\* descending page that the cursor already covers.
FetchPage(w) ==
    /\ sync[w].pc = "fetching"
    /\ LET records == sync[w].got \cup {r \in Page(w) : r.id > sync[w].lastId}
           done == \/ ShortPage(w)
                   \/ /\ IsDescending(Page(w))
                      /\ \E r \in Page(w) : r.id <= sync[w].lastId
       IN  sync' = [sync EXCEPT ![w] =
                      IF done /\ records = {} THEN Idle
                      ELSE IF done
                      THEN [sync[w] EXCEPT !.got = records, !.pc = "insert",
                                           !.offset = 0, !.retried = FALSE]
                      ELSE [sync[w] EXCEPT !.got = records,
                                           !.offset = sync[w].offset + PageSize]]
    /\ UNCHANGED <<order, hub, store, cursorId, cursorTime, scoped, faults>>

\* all_students after an insert: a new row may bring its student into scope.
Rescope == UNCHANGED scoped \/ (store' # store /\ scoped' = TRUE)

\* Mutant: advance_cursor ignored, a request saves the cursor too.
InsertRows_AllAdvance(w) ==
    /\ sync[w].pc = "insert"
    /\ store' = store \cup IdsOf({r \in sync[w].got : r.kind = "ok"})
    /\ sync' = [sync EXCEPT ![w].pc = "save"]
    /\ Rescope
    /\ UNCHANGED <<order, hub, cursorId, cursorTime, faults>>

\* parse_records then insert_rows: one transaction for the whole batch, which
\* a poison record aborts; a malformed record is dropped before it.
InsertRows(w) ==
    /\ sync[w].pc = "insert"
    /\ IF \E r \in sync[w].got : r.kind = "poison"
       THEN /\ sync' = [sync EXCEPT ![w] = Idle]
            /\ UNCHANGED store
       ELSE /\ store' = store \cup IdsOf({r \in sync[w].got : r.kind = "ok"})
            /\ sync' = [sync EXCEPT ![w] = IF w \in FullSync
                                           THEN [sync[w] EXCEPT !.pc = "save"]
                                           ELSE Idle]
    /\ Rescope
    /\ UNCHANGED <<order, hub, cursorId, cursorTime, faults>>

\* Mutant: the upsert without its WHERE.
SaveIngestCursor_Unguarded(w) ==
    /\ sync[w].pc = "save"
    /\ \E n \in sync[w].got, t \in TimesOf(sync[w].got) \cup {sync[w].lastTime} :
          /\ IsNewest(n, sync[w].got)
          /\ IsLatest(t, sync[w].got, sync[w].lastTime)
          /\ cursorId' = n.id
          /\ cursorTime' = t
    /\ sync' = [sync EXCEPT ![w] = Idle]
    /\ UNCHANGED <<order, hub, store, scoped, faults>>

\* save_ingest_cursor with the newest id and the latest receipt time of the
\* batch: the upsert writes both, and only when the id does not go back.
SaveIngestCursor(w) ==
    /\ sync[w].pc = "save"
    /\ \E n \in sync[w].got, t \in TimesOf(sync[w].got) \cup {sync[w].lastTime} :
          /\ IsNewest(n, sync[w].got)
          /\ IsLatest(t, sync[w].got, sync[w].lastTime)
          /\ IF n.id >= cursorId
             THEN cursorId' = n.id /\ cursorTime' = t
             ELSE UNCHANGED <<cursorId, cursorTime>>
    /\ sync' = [sync EXCEPT ![w] = Idle]
    /\ UNCHANGED <<order, hub, store, scoped, faults>>

\* Mutant: the second walk goes on at the offset where the first was rejected.
RejectToken_KeepsOffset(w) ==
    /\ sync[w].pc = "fetching"
    /\ faults < MaxFaults
    /\ faults' = faults + 1
    /\ sync' = [sync EXCEPT ![w] = IF sync[w].retried THEN Idle
                                   ELSE [sync[w] EXCEPT !.got = {}, !.retried = TRUE]]
    /\ UNCHANGED <<order, hub, store, cursorId, cursorTime, scoped>>

\* A 401 or 403 from the Hub: log in again and walk once more from the first
\* page; a second rejection is raised to the caller.
RejectToken(w) ==
    /\ sync[w].pc = "fetching"
    /\ faults < MaxFaults
    /\ faults' = faults + 1
    /\ sync' = [sync EXCEPT ![w] = IF sync[w].retried THEN Idle
                                   ELSE [sync[w] EXCEPT !.offset = 0, !.got = {},
                                                        !.retried = TRUE]]
    /\ UNCHANGED <<order, hub, store, cursorId, cursorTime, scoped>>

\* Mutant: a failed sync never hands its caller back.
SyncFails_Stuck(w) ==
    /\ sync[w].pc # "idle"
    /\ faults < MaxFaults
    /\ faults' = faults + 1
    /\ sync' = [sync EXCEPT ![w].pc = "raised"]
    /\ UNCHANGED <<order, hub, store, cursorId, cursorTime, scoped>>

\* Any other error of the Hub or of Postgres is raised out of the sync, and
\* its transaction, if it was in one, is rolled back.
SyncFails(w) ==
    /\ sync[w].pc # "idle"
    /\ faults < MaxFaults
    /\ faults' = faults + 1
    /\ sync' = [sync EXCEPT ![w] = Idle]
    /\ UNCHANGED <<order, hub, store, cursorId, cursorTime, scoped>>

\* The process dies between any two steps; only the database survives.
Restart ==
    /\ faults < MaxFaults
    /\ faults' = faults + 1
    /\ sync' = [w \in Workers |-> Idle]
    /\ UNCHANGED <<order, hub, store, cursorId, cursorTime, scoped>>

\* TRIGGER_STUDENT_RECENCY_HOURS pass without an event of any student.
Lull ==
    /\ scoped
    /\ faults < MaxFaults
    /\ faults' = faults + 1
    /\ scoped' = FALSE
    /\ UNCHANGED <<order, hub, store, cursorId, cursorTime, sync>>

---------------------------------------------------------------------------

\* The daemon's tick returns at once when its scope is empty; the warm-up and
\* a request sync whatever the scope.
Begin(w) ==
    /\ w = Daemon => scoped
    /\ IF w \in FullSync THEN GetIngestCursor(w, Students)
       ELSE \E s \in Students : GetIngestCursor(w, {s})

Advance(w) == FetchPage(w) \/ InsertRows(w) \/ SaveIngestCursor(w)

Next ==
    \/ \E r \in Records : Publish(r)
    \/ \E w \in Workers : Begin(w) \/ Advance(w) \/ RejectToken(w) \/ SyncFails(w)
    \/ Restart
    \/ Lull

Spec == Init /\ [][Next]_vars

\* The daemon ticks for as long as it runs, and a sync that has begun goes on.
\* The warm-up runs once per boot, a request is made only if a student asks,
\* and the Hub owes nobody a new record.
FairSpec ==
    /\ Spec
    /\ WF_vars(Begin(Daemon))
    /\ \A w \in FullSync : WF_vars(Advance(w))

---------------------------------------------------------------------------
(* Properties. *)

\* No event is ever lost: a record that parses and is not in the table yet can
\* still be fetched, because the cursor's id is below it and the dateFrom
\* filter does not hide it.  It takes the cursor, the overlap, the paging walk
\* and the order of insert and save together, under concurrent syncs, failures
\* between steps and restarts (logsync.py:26-89).
NoRecordLost ==
    \A r \in hub : r.kind = "ok" /\ r.id \notin store =>
        /\ r.id > cursorId
        /\ r.recv >= cursorTime - Overlap

\* The walk leaves no gap: once it has ended, a full sync holds every record
\* between the cursor it read and any record it fetched, although the pages
\* shifted under it while the Hub published, and one call returned early
\* (fetch_invite_hub_logs.py:285-356).
WalkHasNoGap ==
    \A w \in FullSync : sync[w].pc \in {"insert", "save"} =>
        \A r \in hub, g \in sync[w].got :
            sync[w].lastId < r.id /\ r.id <= g.id => r \in sync[w].got

\* The records that parse, which is all the table can hold.
Good == {r \in hub : r.kind = "ok"}

Mirror == INSTANCE LogMirror WITH feed <- Good, table <- store, mark <- cursorId,
                                  floor <- cursorTime - Overlap

\* Under every interleaving of fetches, inserts, saves, failures and restarts
\* ingestion is that mirror: the table holds records of the Hub only and loses
\* none, and cursor and overlap move only where every record that is not
\* stored can still be fetched (logsync.py:26-89, db.py:55-80).
ImplementsMirror == Mirror!Spec

Published(i) == \E r \in hub : r.id = i /\ r.kind = "ok"

\* Every record that parses reaches the table, as long as the daemon has a
\* student in its scope and the Hub no record that Postgres rejects.
EventuallyStored ==
    \A i \in Ids :
        Published(i) ~> \/ i \in store
                        \/ ~ scoped
                        \/ \E r \in hub : r.kind = "poison"

=============================================================================

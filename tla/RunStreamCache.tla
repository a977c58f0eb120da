--------------------------- MODULE RunStreamCache ---------------------------
(***************************************************************************)
(* The run streams of services/proactive.py: the LRU of incremental run    *)
(* parsers, one per session, and the fires persist_new_triggers derives    *)
(* from what they return.                                                  *)
(*                                                                         *)
(* A caller fetches a session's events in one transaction and then, under  *)
(* the lock, feeds the session's stream what it has not seen, or a fresh   *)
(* stream everything if the fetched list does not extend what was fed.     *)
(* Callers of one session may have fetched lists of different age.  A fire *)
(* is keyed by its run_index, the position of the run in the list.  In     *)
(* which runs the detectors see something is an input (NotableIds); that a *)
(* late run may also change what they see in its neighbour is left out.    *)
(***************************************************************************)
EXTENDS Integers, FiniteSets

CONSTANTS
    Sessions,
    Ids,             \* ids of parsed_events rows
    Times,           \* event_ts
    RunIds,          \* rows that are runs (runProject)
    NotableIds,      \* runs in which the detector sees a trigger
    Daemon,          \* the daemon's thread
    Admins,          \* threads serving POST /admin/tick
    RUN_STREAMS_MAX,
    MaxFaults        \* bound on failing calls and restarts

ASSUME CacheAssumption ==
    /\ Ids \subseteq Nat \ {0}
    /\ Times \subseteq Nat
    /\ NotableIds \subseteq RunIds
    /\ Daemon \notin Admins
    /\ RUN_STREAMS_MAX \in Nat \ {0}
    /\ MaxFaults \in Nat

VARIABLES
    table,  \* table[s]: the rows of session s in event_logs.parsed_events
    entry,  \* entry[s]: the _SessionRuns of session s, while it is cached
    age,    \* age[s]: sessions used since s was, RUN_STREAMS_MAX if evicted
    call,   \* call[w]: the local variables of a detecting thread
    rows,   \* agent_triggers, with the run each row was inserted for
    late,   \* history variable: sessions in which an event came out of order
    faults

vars == <<table, entry, age, call, rows, late, faults>>

Workers == {Daemon} \cup Admins

Events == [id : Ids, ts : Times]

\* A stream is what was pushed into it; it is garbled if some push was not
\* later than all before it.
Entries == [fed : Nat, lastId : Nat, seen : SUBSET Events, garbled : BOOLEAN]
Fresh == [fed |-> 0, lastId |-> 0, seen |-> {}, garbled |-> FALSE]

Pcs == {"idle", "fetched", "persist"}
NoSession == "none"
Idle == [pc |-> "idle", session |-> NoSession, events |-> {}, runs |-> {},
         garbled |-> FALSE, todo |-> {}]
Calls == [pc : Pcs, session : Sessions \cup {NoSession}, events : SUBSET Events,
          runs : SUBSET Events, garbled : BOOLEAN, todo : SUBSET Events]

Rows == [session : Sessions, index : Nat, cause : Events]

TypeOK ==
    /\ table \in [Sessions -> SUBSET Events]
    /\ entry \in [Sessions -> Entries]
    /\ age \in [Sessions -> 0 .. RUN_STREAMS_MAX]
    /\ call \in [Workers -> Calls]
    /\ \A w \in Workers : call[w].pc # "idle" => call[w].session \in Sessions
    /\ rows \subseteq Rows
    /\ late \subseteq Sessions
    /\ faults \in Nat

Init ==
    /\ table = [s \in Sessions |-> {}]
    /\ entry = [s \in Sessions |-> Fresh]
    /\ age = [s \in Sessions |-> RUN_STREAMS_MAX]
    /\ call = [w \in Workers |-> Idle]
    /\ rows = {}
    /\ late = {}
    /\ faults = 0

---------------------------------------------------------------------------
(* Lists of events, as sets in the order of the query. *)

\* ORDER BY event_ts, id.  (Rows without a playground are filtered out of every
\* list alike and are not in the model's table.)
Before(d, e) == d.ts < e.ts \/ (d.ts = e.ts /\ d.id < e.id)

\* The position of e in the list S.
Position(S, e) == Cardinality({d \in S : Before(d, e)})

IsLastId(i, S) == IF S = {} THEN i = 0
                  ELSE \E e \in S : e.id = i /\ \A d \in S : d = e \/ Before(d, e)

RunsOf(S) == {e \in S : e.id \in RunIds}

---------------------------------------------------------------------------

Become(w, c) == call' = [call EXCEPT ![w] = c]

\* Ingestion stores an event, which may be older than others of its session.
StoreEvent(s, e) ==
    /\ \A t \in Sessions : \A d \in table[t] : d.id # e.id
    /\ table' = [table EXCEPT ![s] = @ \cup {e}]
    /\ late' = IF \E d \in table[s] : Before(e, d) THEN late \cup {s} ELSE late
    /\ UNCHANGED <<entry, age, call, rows, faults>>

\* fetch_events_from_db, outside the lock.
Fetch(w, s) ==
    /\ call[w].pc = "idle"
    /\ Become(w, [Idle EXCEPT !.pc = "fetched", !.session = s, !.events = table[s]])
    /\ UNCHANGED <<table, entry, age, rows, late, faults>>

\* Mutant: the list is long enough, whatever its row at the last position.
Extends_ByLength(n, S) == n.fed <= Cardinality(S)

\* _extends: S is what the stream saw plus events at the end.
Extends(n, S) ==
    \/ n.fed = 0
    \/ \E e \in S : Position(S, e) = n.fed - 1 /\ e.id = n.lastId

\* The stream to feed: the cached one if the list extends it, or a new one.
\* An evicted session's is new as well.
Current(s, S) == IF Extends(entry[s], S) THEN entry[s] ELSE Fresh

NewEvents(n, S) == {e \in S : n.fed <= Position(S, e)}

\* Pushing the list from position fed on.
Push(n, S, lastId) ==
    [fed |-> Cardinality(S), lastId |-> lastId,
     seen |-> n.seen \cup NewEvents(n, S),
     garbled |-> \/ n.garbled
                 \/ \E e \in NewEvents(n, S), d \in n.seen : ~ Before(d, e)]

\* Mutant: every use ages every other entry, the ones unused for longer too.
Touched_AgesAll(s, t) == IF t = s THEN 0 ELSE age[t] + 1

\* move_to_end: the age of t after a use of s.
Touched(s, t) ==
    IF t = s THEN 0 ELSE IF age[t] < age[s] THEN age[t] + 1 ELSE age[t]

\* The session's entry goes to the end; popitem drops the least recently used.
Keep(s, n) ==
    /\ age' = [t \in Sessions |-> Touched(s, t)]
    /\ entry' = [t \in Sessions |-> IF Touched(s, t) = RUN_STREAMS_MAX THEN Fresh
                                    ELSE IF t = s THEN n ELSE entry[t]]

\* Mutant: only the runs fed by this call are looked at.
ComputeRuns_OnlyNew(w) ==
    /\ call[w].pc = "fetched"
    /\ LET s == call[w].session
           S == call[w].events
           n == Current(s, S)
       IN  \E i \in Ids \cup {0} :
              /\ IsLastId(i, S)
              /\ Keep(s, Push(n, S, i))
              /\ Become(w, [call[w] EXCEPT
                    !.pc = "persist", !.runs = RunsOf(Push(n, S, i).seen),
                    !.garbled = Push(n, S, i).garbled,
                    !.todo = {e \in NewEvents(n, S) : e.id \in NotableIds}])
    /\ UNCHANGED <<table, rows, late, faults>>

\* _compute_run_distances_cached, all of it under the lock, and the detectors
\* over the runs it returns.
ComputeRuns(w) ==
    /\ call[w].pc = "fetched"
    /\ LET s == call[w].session
           S == call[w].events
           n == Current(s, S)
       IN  \E i \in Ids \cup {0} :
              /\ IsLastId(i, S)
              /\ Keep(s, Push(n, S, i))
              /\ Become(w, [call[w] EXCEPT
                    !.pc = "persist", !.runs = RunsOf(Push(n, S, i).seen),
                    !.garbled = Push(n, S, i).garbled,
                    !.todo = {e \in Push(n, S, i).seen : e.id \in NotableIds}])
    /\ UNCHANGED <<table, rows, late, faults>>

Taken(s, i) == \E r \in rows : r.session = s /\ r.index = i

\* Mutant: the index is the number of rows the session has.
PersistFire_NextIndex(w, e) ==
    /\ call[w].pc = "persist"
    /\ e \in call[w].todo
    /\ Become(w, [call[w] EXCEPT !.todo = @ \ {e}])
    /\ LET i == Cardinality({r \in rows : r.session = call[w].session})
       IN  rows' = IF Taken(call[w].session, i) THEN rows
                   ELSE rows \cup {[session |-> call[w].session, index |-> i, cause |-> e]}
    /\ UNCHANGED <<table, entry, age, late, faults>>

\* insert_agent_trigger_if_new under the run's index.
PersistFire(w, e) ==
    /\ call[w].pc = "persist"
    /\ e \in call[w].todo
    /\ Become(w, [call[w] EXCEPT !.todo = @ \ {e}])
    /\ LET i == Position(call[w].runs, e)
       IN  rows' = IF Taken(call[w].session, i) THEN rows
                   ELSE rows \cup {[session |-> call[w].session, index |-> i, cause |-> e]}
    /\ UNCHANGED <<table, entry, age, late, faults>>

Finish(w) ==
    /\ call[w].pc = "persist"
    /\ call[w].todo = {}
    /\ Become(w, Idle)
    /\ UNCHANGED <<table, entry, age, rows, late, faults>>

\* A database call raises, before or after the lock was held.
CallFails(w) ==
    /\ call[w].pc # "idle"
    /\ faults < MaxFaults
    /\ faults' = faults + 1
    /\ Become(w, Idle)
    /\ UNCHANGED <<table, entry, age, rows, late>>

\* The process dies and comes back with an empty cache.
Restart ==
    /\ faults < MaxFaults
    /\ faults' = faults + 1
    /\ entry' = [s \in Sessions |-> Fresh]
    /\ age' = [s \in Sessions |-> RUN_STREAMS_MAX]
    /\ call' = [w \in Workers |-> Idle]
    /\ UNCHANGED <<table, rows, late>>

---------------------------------------------------------------------------

Advance(w) == ComputeRuns(w) \/ (\E e \in Events : PersistFire(w, e)) \/ Finish(w)

Next ==
    \/ \E s \in Sessions, e \in Events : StoreEvent(s, e)
    \/ \E w \in Workers : \/ \E s \in Sessions : Fetch(w, s)
                          \/ Advance(w)
                          \/ CallFails(w)
    \/ Restart

Spec == Init /\ [][Next]_vars

---------------------------------------------------------------------------
(* Properties. *)

\* The cache is exact: what a caller gets is what a stream fed with its own list
\* from the start would give, whoever fed the entry before, with a newer or an
\* older list, and whatever came late or was evicted (proactive.py:143-145).
RunsExact ==
    \A w \in Workers : call[w].pc = "persist" =>
        ~ call[w].garbled /\ call[w].runs = RunsOf(call[w].events)

\* As long as a session's events come in order, an index stands for one run,
\* whichever caller inserts the row and however old its list is.
IndexStable ==
    \A q, r \in rows :
        q.session = r.session /\ q.session \notin late =>
            (q.index = r.index <=> q.cause = r.cause)

\* No detected run is skipped: what a call has in its list and no longer to
\* insert has a row of its own, also if an earlier call fed it and failed, or
\* another caller was faster.  A late event may hide it behind a taken index.
NoneSkipped ==
    \A w \in Workers : call[w].pc = "persist" /\ call[w].session \notin late =>
        \A e \in call[w].events :
            e.id \in NotableIds =>
                \/ e \in call[w].todo
                \/ \E r \in rows : r.session = call[w].session /\ r.cause = e

\* configuration.md:122-124: a student only hears again on genuinely new
\* behaviour.  Stated of the rows: none is there twice for one run.
NewBehaviorOnly ==
    \A q, r \in rows : q.session = r.session /\ q.cause = r.cause => q = r

=============================================================================

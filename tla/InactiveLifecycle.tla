-------------------------- MODULE InactiveLifecycle --------------------------
(***************************************************************************)
(* The sustained trigger: detect_inactive_trigger and persist_new_triggers *)
(* of services/proactive.py with the agent_triggers helpers of data/db.py, *)
(* for one session.                                                        *)
(*                                                                         *)
(* A pass reads the session's events, then the clock, then, if the student *)
(* is idle, the newest inactive row, and fires with the next negative      *)
(* run_index if that row is old enough.  Whenever nothing is due it        *)
(* resolves every open inactive row.  Passes of the daemon and of          *)
(* /admin/tick overlap, and every read or write is its own transaction.    *)
(***************************************************************************)
EXTENDS Integers, FiniteSets

CONSTANTS
    Daemon,         \* the daemon's thread
    Admins,         \* threads serving POST /admin/tick
    InactiveAfter,  \* INACTIVE_TRIGGER_SECONDS
    ReAlertAfter,   \* RE_ALERT_SECONDS
    Recency,        \* TRIGGER_STUDENT_RECENCY_HOURS
    MaxTime,        \* bound on the clock
    MaxFaults       \* bound on failing passes

ASSUME InactiveAssumption ==
    /\ Daemon \notin Admins
    /\ {InactiveAfter, ReAlertAfter, Recency, MaxTime, MaxFaults} \subseteq Nat
    /\ ReAlertAfter > 0

VARIABLES
    now,        \* the clock, shared by the process and the database
    lastEvent,  \* event_ts of the newest stored event, 0 when there is none
    rows,       \* the session's rows of agent_triggers with type inactive
    pass,       \* pass[w]: the local variables of a pass
    faults

vars == <<now, lastEvent, rows, pass, faults>>

Workers == {Daemon} \cup Admins

Pcs == {"idle", "clock", "latest", "insert", "resolve"}
Resting == [pc |-> "idle", last |-> 0, at |-> 0, index |-> 0]
PassStates == [pc : Pcs, last : Nat, at : Nat, index : Int]

Rows == [index : Int, firedAt : Nat, state : {"open", "resolved"}]

INACTIVE_RUN_INDEX == -1

TypeOK ==
    /\ now \in Nat
    /\ lastEvent \in Nat
    /\ rows \subseteq Rows
    /\ pass \in [Workers -> PassStates]
    /\ faults \in Nat

Init ==
    /\ now = 1
    /\ lastEvent = 0
    /\ rows = {}
    /\ pass = [w \in Workers |-> Resting]
    /\ faults = 0

---------------------------------------------------------------------------

\* is_inactive: no event is not idle.
IsInactive(last, t) == last > 0 /\ t - last >= InactiveAfter

\* Newest first by fired_at.  Rows fired at the same time, of which there are
\* none (Spaced), the query orders by id; here any of them may come first.
IsNewestRow(r, R) == r \in R /\ \A q \in R : q.firedAt <= r.firedAt

Become(w, p) == pass' = [pass EXCEPT ![w] = p]

PassTime ==
    /\ now < MaxTime
    /\ now' = now + 1
    /\ UNCHANGED <<lastEvent, rows, pass, faults>>

\* Ingestion stores an event, possibly late; the newest one counts.
StoreEvent(t) ==
    /\ lastEvent < t /\ t <= now
    /\ lastEvent' = t
    /\ UNCHANGED <<now, rows, pass, faults>>

\* all_students with the recency window.
InScope == lastEvent > 0 /\ now - lastEvent < Recency

\* fetch_events_from_db; the daemon only visits students in its scope.
StartPass(w) ==
    /\ pass[w].pc = "idle"
    /\ w = Daemon => InScope
    /\ Become(w, [Resting EXCEPT !.pc = "clock", !.last = lastEvent])
    /\ UNCHANGED <<now, lastEvent, rows, faults>>

\* Mutant: a session that is not idle is left alone.
ReadClock_NoResolve(w) ==
    /\ pass[w].pc = "clock"
    /\ Become(w, IF IsInactive(pass[w].last, now)
                 THEN [pass[w] EXCEPT !.at = now, !.pc = "latest"]
                 ELSE Resting)
    /\ UNCHANGED <<now, lastEvent, rows, faults>>

\* Mutant: the pass keeps the elapsed time, subtracted the wrong way round.
ReadClock_Elapsed(w) ==
    /\ pass[w].pc = "clock"
    /\ Become(w, [pass[w] EXCEPT !.at = pass[w].last - now,
                    !.pc = IF IsInactive(pass[w].last, now) THEN "latest" ELSE "resolve"])
    /\ UNCHANGED <<now, lastEvent, rows, faults>>

\* now = datetime.now and is_inactive of the events read before.
ReadClock(w) ==
    /\ pass[w].pc = "clock"
    /\ Become(w, [pass[w] EXCEPT !.at = now,
                    !.pc = IF IsInactive(pass[w].last, now) THEN "latest" ELSE "resolve"])
    /\ UNCHANGED <<now, lastEvent, rows, faults>>

\* The pass w fires with this run_index, or has nothing due.
Due(w, index) == Become(w, [pass[w] EXCEPT !.pc = "insert", !.index = index])
NotDue(w) == Become(w, [pass[w] EXCEPT !.pc = "resolve"])

\* Mutant: the elapsed time is not looked at.
ReadLatest_Always(w) ==
    /\ pass[w].pc = "latest"
    /\ \/ rows = {} /\ Due(w, INACTIVE_RUN_INDEX)
       \/ \E r \in rows : IsNewestRow(r, rows) /\ Due(w, r.index - 1)
    /\ UNCHANGED <<now, lastEvent, rows, faults>>

\* Mutant: every fire uses the first index, so the unique key stops re-alerts.
ReadLatest_SameIndex(w) ==
    /\ pass[w].pc = "latest"
    /\ \/ rows = {} /\ Due(w, INACTIVE_RUN_INDEX)
       \/ \E r \in rows :
             /\ IsNewestRow(r, rows)
             /\ IF pass[w].at - r.firedAt < ReAlertAfter
                THEN NotDue(w)
                ELSE Due(w, INACTIVE_RUN_INDEX)
    /\ UNCHANGED <<now, lastEvent, rows, faults>>

\* latest_inactive_trigger: the first fire, a re-alert with the next negative
\* index, or nothing because the newest row, open or resolved, is too young.
ReadLatest(w) ==
    /\ pass[w].pc = "latest"
    /\ \/ rows = {} /\ Due(w, INACTIVE_RUN_INDEX)
       \/ \E r \in rows :
             /\ IsNewestRow(r, rows)
             /\ IF pass[w].at - r.firedAt < ReAlertAfter
                THEN NotDue(w)
                ELSE Due(w, r.index - 1)
    /\ UNCHANGED <<now, lastEvent, rows, faults>>

\* resolve_open_inactive_triggers, the branch for inactive_fire is None.
Resolve(w) ==
    /\ pass[w].pc = "resolve"
    /\ rows' = {[r EXCEPT !.state = "resolved"] : r \in rows}
    /\ Become(w, Resting)
    /\ UNCHANGED <<now, lastEvent, faults>>

\* Mutant: no ON CONFLICT, the table has no unique key on the index.
InsertRow_NoUnique(w) ==
    /\ pass[w].pc = "insert"
    /\ rows' = rows \cup {[index |-> pass[w].index,
                           firedAt |-> now, state |-> "open"]}
    /\ Become(w, Resting)
    /\ UNCHANGED <<now, lastEvent, faults>>

\* insert_agent_trigger_if_new with fired_at DEFAULT NOW().
InsertRow(w) ==
    /\ pass[w].pc = "insert"
    /\ rows' = IF \E r \in rows : r.index = pass[w].index
               THEN rows
               ELSE rows \cup {[index |-> pass[w].index,
                                firedAt |-> now, state |-> "open"]}
    /\ Become(w, Resting)
    /\ UNCHANGED <<now, lastEvent, faults>>

\* A database call raises, or the process dies.
PassFails(w) ==
    /\ pass[w].pc # "idle"
    /\ faults < MaxFaults
    /\ faults' = faults + 1
    /\ Become(w, Resting)
    /\ UNCHANGED <<now, lastEvent, rows>>

---------------------------------------------------------------------------

Advance(w) == ReadClock(w) \/ ReadLatest(w) \/ Resolve(w) \/ InsertRow(w)

Next ==
    \/ PassTime
    \/ \E t \in 1 .. MaxTime : StoreEvent(t)
    \/ \E w \in Workers : StartPass(w) \/ Advance(w) \/ PassFails(w)

Spec == Init /\ [][Next]_vars

\* Passes run on and the daemon comes back to every student in scope; nobody
\* has to use the program or to call /admin/tick, and the clock may stand.
FairSpec ==
    /\ Spec
    /\ \A w \in Workers : WF_vars(Advance(w))
    /\ WF_vars(StartPass(Daemon))

---------------------------------------------------------------------------
(* Properties. *)

Idle == IsInactive(lastEvent, now)

\* The fires of a session are numbered -1, -2, -3, ... without a gap and each
\* number once, although concurrent passes take the next number from the
\* newest row they happen to read (proactive.py:193-197).
NumberedOneByOne ==
    /\ \A q, r \in rows : q.index = r.index => q = r
    /\ \A r \in rows :
          /\ r.index <= INACTIVE_RUN_INDEX
          /\ r.index # INACTIVE_RUN_INDEX => \E q \in rows : q.index = r.index + 1

\* An idle student hears again only after the re-alert time, whichever passes
\* fire (proactive-triggers.md:42).
Spaced ==
    \A q, r \in rows : r.index < q.index => r.firedAt >= q.firedAt + ReAlertAfter

\* A student who stays idle is fired at again: the re-alert does not stay due.
ReAlertDue ==
    /\ InScope /\ Idle
    /\ \A r \in rows : now - r.firedAt >= ReAlertAfter

ReAlerts == ReAlertDue ~> ~ ReAlertDue

\* A student who is active again has no open inactive row for long.
RecoveryResolves ==
    (InScope /\ ~ Idle) ~> (Idle \/ \A r \in rows : r.state = "resolved")

=============================================================================

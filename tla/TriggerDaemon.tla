---------------------------- MODULE TriggerDaemon ----------------------------
(***************************************************************************)
(* The thread of the trigger daemon (services/daemon.py) and the identity  *)
(* switches its ticks record (services/identity.py, with the tables of     *)
(* migrations 009 and 011).  One student, who appears under several        *)
(* spellings and class codes; the daemon walks the spellings it has recent *)
(* telemetry for, and POST /admin/tick ticks one of them at the same time. *)
(*                                                                         *)
(* The rest of a tick is module ProactiveTick and the sync is module       *)
(* Ingest: here the one may raise and the other adds events.  How long the *)
(* loop sleeps, which is all its counters of failures and idle ticks       *)
(* decide, is left out.                                                    *)
(***************************************************************************)
EXTENDS Integers, FiniteSets

CONSTANTS
    Loops,      \* threads start_daemon may create
    Admins,     \* POST /admin/tick requests
    Spellings,  \* spellings of one canonical student id
    Classes,    \* class codes
    Times,      \* event times
    None,       \* no row
    MaxFaults,  \* bound on failing calls and restarts
    MaxStarts   \* bound on the calls of start_daemon

ASSUME DaemonAssumption ==
    /\ Times \subseteq Nat
    /\ {MaxFaults, MaxStarts} \subseteq Nat
    /\ Loops \cap Admins = {}
    /\ None \notin [id : Spellings, class : Classes, ts : Times]

VARIABLES
    events,     \* identities and times of event_logs.parsed_events
    window,     \* no event before this time is recent (all_students)
    pointer,    \* the student's row of event_logs.student_identity
    switches,   \* event_logs.switch_events
    stopping,   \* the event _stop
    thread,     \* the handle _thread: the thread that was started last
    work,       \* where each loop and each admin request is
    starts,
    faults

vars == <<events, window, pointer, switches, stopping, thread, work, starts, faults>>

Workers == Loops \cup Admins

Identities == [id : Spellings, class : Classes, ts : Times]

\* A row of switch_events; the session it was noticed in is left out.
Switches ==
    {s \in [kind : {"casing"}, from : Spellings, to : Spellings] : s.from # s.to} \cup
    {s \in [kind : {"class"}, from : Classes, to : Classes] : s.from # s.to}

Pcs == {"idle", "begin", "visit", "latest", "state", "record", "upsert", "rest", "asleep"}

Idle == [pc |-> "idle", todo |-> {}, id |-> None, curr |-> None, prev |-> None, found |-> {}]

\* todo: the students of the tick that are left; found: switches to record.
Works == [pc : Pcs, todo : SUBSET Spellings, id : Spellings \cup {None},
          curr : Identities \cup {None}, prev : Identities \cup {None},
          found : SUBSET Switches]

TypeOK ==
    /\ events \subseteq Identities
    /\ window \in Nat
    /\ pointer \in Identities \cup {None}
    /\ switches \subseteq Switches
    /\ stopping \in BOOLEAN
    /\ thread \in Loops
    /\ work \in [Workers -> Works]
    /\ {starts, faults} \subseteq Nat

\* One thread has started and nobody else is at work.
Started(l) ==
    [w \in Workers |-> IF w = l THEN [Idle EXCEPT !.pc = "begin"] ELSE Idle]

\* The lifespan has started the daemon.
Init ==
    /\ events = {}
    /\ window = 0
    /\ pointer = None
    /\ switches = {}
    /\ stopping = FALSE
    /\ thread \in Loops
    /\ work = Started(thread)
    /\ starts = 1
    /\ faults = 0

Alive(l) == work[l].pc # "idle"

IdentityVars == <<events, window, pointer, switches>>
LifecycleVars == <<stopping, thread, starts>>

Become(w, x) == work' = [work EXCEPT ![w] = x]

\* The tracking of a tick is over.
Rest(w) == [Idle EXCEPT !.pc = "rest", !.todo = work[w].todo]

---------------------------------------------------------------------------

\* Mutant: the new thread is kept in a local variable (no global _thread).
StartDaemon_LocalHandle(l) ==
    /\ starts < MaxStarts
    /\ starts' = starts + 1
    /\ \/ /\ Alive(thread)
          /\ UNCHANGED <<stopping, work>>
       \/ /\ ~ Alive(thread)
          /\ ~ Alive(l)
          /\ stopping' = FALSE
          /\ Become(l, [Idle EXCEPT !.pc = "begin"])
    /\ UNCHANGED <<IdentityVars, thread, faults>>

\* start_daemon.  While the thread of the handle is alive it returns at once,
\* and _stop stays as it is; else it starts a new thread, whatever else runs.
StartDaemon(l) ==
    /\ starts < MaxStarts
    /\ starts' = starts + 1
    /\ \/ /\ Alive(thread)
          /\ UNCHANGED <<stopping, thread, work>>
       \/ /\ ~ Alive(thread)
          /\ ~ Alive(l)
          /\ stopping' = FALSE
          /\ thread' = l
          /\ Become(l, [Idle EXCEPT !.pc = "begin"])
    /\ UNCHANGED <<IdentityVars, faults>>

\* stop_daemon: it waits two seconds for the thread, and no longer.
StopDaemon ==
    /\ stopping' = TRUE
    /\ UNCHANGED <<IdentityVars, thread, work, starts, faults>>

\* The head of the loop, and the scope of the tick: the spellings with a recent
\* event.  No scope is an idle tick, without a sync; with one the sync comes
\* next, and its errors are logged.
BeginTick(l) ==
    /\ work[l].pc = "begin"
    /\ LET scope == {e.id : e \in {f \in events : f.ts >= window}}
       IN Become(l, IF stopping THEN Idle
                    ELSE IF scope = {} THEN [Idle EXCEPT !.pc = "asleep"]
                    ELSE [Idle EXCEPT !.pc = "visit", !.todo = scope])
    /\ UNCHANGED <<IdentityVars, LifecycleVars, faults>>

\* The next student's latest session; the tick is over when none is left.
Visit(l) ==
    /\ work[l].pc = "visit"
    /\ \/ /\ work[l].todo = {}
          /\ Become(l, [Idle EXCEPT !.pc = "asleep"])
       \/ \E s \in work[l].todo :
             Become(l, [work[l] EXCEPT !.pc = "latest", !.id = s, !.todo = @ \ {s}])
    /\ UNCHANGED <<IdentityVars, LifecycleVars, faults>>

\* POST /admin/tick, for a student of the admin's choice.
AdminTick(a) ==
    /\ work[a].pc = "idle"
    /\ \E s \in Spellings : Become(a, [Idle EXCEPT !.pc = "latest", !.id = s])
    /\ UNCHANGED <<IdentityVars, LifecycleVars, faults>>

\* latest_identity: the newest event under this spelling.
ReadLatest(w) ==
    LET mine == {e \in events : e.id = work[w].id}
    IN /\ work[w].pc = "latest"
       /\ \/ /\ mine = {}
             /\ Become(w, Rest(w))
          \/ \E e \in mine :
                /\ \A f \in mine : f.ts <= e.ts
                /\ Become(w, [work[w] EXCEPT !.pc = "state", !.curr = e])
       /\ UNCHANGED <<IdentityVars, LifecycleVars, faults>>

\* Mutant: nothing is compared.
DetectSwitches_All(p, c) ==
    {[kind |-> "casing", from |-> p.id, to |-> c.id]} \cup
    {[kind |-> "class", from |-> p.class, to |-> c.class]}

\* detect_switches of learner_models, for two identities of one student.
DetectSwitches(p, c) ==
    {[kind |-> "casing", from |-> i, to |-> c.id] : i \in {p.id} \ {c.id}} \cup
    {[kind |-> "class", from |-> k, to |-> c.class] : k \in {p.class} \ {c.class}}

\* Mutant: an identity that is older than the pointer counts as a change.
ReadState_AnyTime(w) ==
    /\ work[w].pc = "state"
    /\ Become(w, [work[w] EXCEPT
                     !.pc = "record", !.prev = pointer,
                     !.found = IF pointer = None THEN {}
                               ELSE DetectSwitches(pointer, work[w].curr)])
    /\ UNCHANGED <<IdentityVars, LifecycleVars, faults>>

\* get_identity_state, and the switches from the last-seen identity to this
\* one, if this one is later.
ReadState(w) ==
    /\ work[w].pc = "state"
    /\ Become(w, [work[w] EXCEPT
                     !.pc = "record", !.prev = pointer,
                     !.found = IF pointer # None /\ work[w].curr.ts > pointer.ts
                               THEN DetectSwitches(pointer, work[w].curr) ELSE {}])
    /\ UNCHANGED <<IdentityVars, LifecycleVars, faults>>

\* Mutant: the pointer moves before the switches are recorded.
Record_Last(w) ==
    /\ work[w].pc = "record"
    /\ Become(w, [work[w] EXCEPT !.pc = "upsert"])
    /\ UNCHANGED <<IdentityVars, LifecycleVars, faults>>

\* record_switch, a transaction for each; a row that is there is left alone.
Record(w) ==
    /\ work[w].pc = "record"
    /\ \/ /\ work[w].found = {}
          /\ Become(w, [work[w] EXCEPT !.pc = "upsert"])
          /\ UNCHANGED switches
       \/ \E s \in work[w].found :
             /\ switches' = switches \cup {s}
             /\ Become(w, [work[w] EXCEPT !.found = @ \ {s}])
    /\ UNCHANGED <<events, window, pointer, LifecycleVars, faults>>

\* upsert_identity_state: forward in event time only.
Upsert(w) ==
    /\ work[w].pc = "upsert"
    /\ pointer' = IF pointer = None THEN work[w].curr
                  ELSE IF pointer.ts < work[w].curr.ts THEN work[w].curr ELSE pointer
    /\ Become(w, Rest(w))
    /\ UNCHANGED <<events, window, switches, LifecycleVars, faults>>

\* An error of the tracking is logged, and the tick goes on.
TrackingFails(w) ==
    /\ work[w].pc \in {"latest", "state", "record", "upsert"}
    /\ faults < MaxFaults
    /\ faults' = faults + 1
    /\ Become(w, Rest(w))
    /\ UNCHANGED <<IdentityVars, LifecycleVars>>

\* The rest of run_proactive_tick.  If it raises the daemon logs it and goes on,
\* and the admin gets an error.
FinishTick(w) ==
    /\ work[w].pc = "rest"
    /\ Become(w, IF w \in Admins THEN Idle
                 ELSE [Idle EXCEPT !.pc = "visit", !.todo = work[w].todo])
    /\ UNCHANGED <<IdentityVars, LifecycleVars, faults>>

\* Mutant: an error that leaves the tick ends the thread.
TickFails_Dies(l) ==
    /\ work[l].pc \in {"begin", "visit"}
    /\ faults < MaxFaults
    /\ faults' = faults + 1
    /\ Become(l, Idle)
    /\ UNCHANGED <<IdentityVars, LifecycleVars>>

\* The scope or a student's latest session cannot be read: the whole tick is
\* given up, and the loop backs off.
TickFails(l) ==
    /\ work[l].pc \in {"begin", "visit"}
    /\ work[l].pc = "begin" => ~stopping
    /\ work[l].pc = "visit" => work[l].todo # {}
    /\ faults < MaxFaults
    /\ faults' = faults + 1
    /\ Become(l, [Idle EXCEPT !.pc = "asleep"])
    /\ UNCHANGED <<IdentityVars, LifecycleVars>>

\* The sleep ends: the time is over, or _stop is set.
Wake(l) ==
    /\ work[l].pc = "asleep"
    /\ Become(l, [Idle EXCEPT !.pc = "begin"])
    /\ UNCHANGED <<IdentityVars, LifecycleVars, faults>>

---------------------------------------------------------------------------

\* A sync stores an event, late ones included; no two have the same time.
Arrive(e) ==
    /\ \A f \in events : f.ts # e.ts
    /\ events' = events \cup {e}
    /\ UNCHANGED <<window, pointer, switches, LifecycleVars, work, faults>>

\* Events get older than the recency window.
WindowMoves ==
    /\ \E e \in events : e.ts >= window
    /\ window' = window + 1
    /\ UNCHANGED <<events, pointer, switches, LifecycleVars, work, faults>>

\* The process dies, and the lifespan of the next one starts a thread.
Restart ==
    /\ faults < MaxFaults
    /\ faults' = faults + 1
    /\ thread' \in Loops
    /\ work' = Started(thread')
    /\ stopping' = FALSE
    /\ UNCHANGED <<IdentityVars, starts>>

---------------------------------------------------------------------------

Track(w) ==
    ReadLatest(w) \/ ReadState(w) \/ Record(w) \/ Upsert(w) \/ FinishTick(w)

Loop(l) == BeginTick(l) \/ Visit(l) \/ Track(l) \/ Wake(l)

Next ==
    \/ \E l \in Loops : StartDaemon(l) \/ Loop(l) \/ TickFails(l)
    \/ \E a \in Admins : AdminTick(a) \/ Track(a)
    \/ \E w \in Workers : TrackingFails(w)
    \/ \E e \in Identities : Arrive(e)
    \/ StopDaemon \/ WindowMoves \/ Restart

\* The operating system runs a thread that can run.
Spec == Init /\ [][Next]_vars /\ \A l \in Loops : WF_vars(Loop(l))

---------------------------------------------------------------------------

(* However start_daemon and a stop_daemon that gave up waiting follow each   *)
(* other, and whatever fails, a thread that runs the loop is the one _thread *)
(* names, so one at most does (two would walk the students twice) and        *)
(* stop_daemon waits for it (daemon.py:156-171); and while _stop is not set  *)
(* that thread runs: no error has ended it (daemon.py:18-21).                *)
OneLoop ==
    /\ \A l \in Loops : Alive(l) => l = thread
    /\ ~ stopping => Alive(thread)

\* The student used the earlier value before the later one.
Made(s) ==
    \E e, f \in events :
        /\ e.ts < f.ts
        /\ \/ s.kind = "casing" /\ s.from = e.id /\ s.to = f.id
           \/ s.kind = "class" /\ s.from = e.class /\ s.to = f.class

(* A recorded switch is one the student made: an event with the earlier      *)
(* value comes before an event with the later one, whatever ticks raced and  *)
(* in whichever order the spellings were visited (identity.py:7-9,           *)
(* "stops the two spellings of one student from oscillating a switch every   *)
(* tick").                                                                   *)
SwitchesReal == \A s \in switches : Made(s)

(* The last-seen identity only moves forward in event time (db.py:407-408),  *)
(* and a move that no other tick raced has its switches in the log: a tick   *)
(* that dies between the two records them again (identity.py:43-58).         *)
PointerForward ==
    [][/\ pointer # None /\ pointer' # pointer => pointer' # None /\ pointer'.ts > pointer.ts
       /\ (/\ pointer # None
           /\ pointer' # pointer
           /\ \A w \in Workers : work[w].pc = "upsert" => work[w].prev = pointer)
          => DetectSwitches(pointer, pointer') \subseteq switches]_vars

(* Errors of the scope, of the sync and of one student do not end the loop   *)
(* (daemon.py:18-21, "a dead thread would silently stop the push lane"): the *)
(* last-seen identity reaches every recent event, unless the daemon is told  *)
(* to stop.                                                                  *)
LastSeenCatchesUp ==
    \A n \in Times :
        (\E e \in events : e.ts = n) ~> \/ pointer # None /\ pointer.ts >= n
                                      \/ n < window
                                      \/ stopping

=============================================================================

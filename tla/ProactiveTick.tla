---------------------------- MODULE ProactiveTick ---------------------------
(***************************************************************************)
(* The proactive tick: run_proactive_tick and persist_new_triggers of      *)
(* services/proactive.py with the database helpers they call.              *)
(*                                                                         *)
(* A tick looks at one session: it fetches the telemetry, detects fires,   *)
(* inserts each as a row of agent_triggers unless the row is there, and    *)
(* then, for every row it inserted itself, generates a message, inserts it *)
(* into chat.messages, adds it to both chats' history and marks the row    *)
(* acted.  Each database helper is a transaction of its own.  The daemon   *)
(* and any number of /admin/tick requests run ticks at the same time, on   *)
(* the same session too.                                                   *)
(***************************************************************************)
EXTENDS Integers, FiniteSets, Sequences

CONSTANTS
    Sessions,   \* (student_id, session_id) pairs
    Triggers,   \* (trigger_type, run_index) pairs the detectors can report
    ActedOn,    \* those whose type is in ACTED_TRIGGERS, not TRIGGER_DISABLED
    Chats,      \* CHATS of services/sessions.py: student and research
    Daemon,     \* the daemon's thread
    Admins,     \* threads serving POST /admin/tick
    MaxTurns,   \* MAX_SESSION_TURNS, 6 in the code
    MaxFaults   \* bound on failing calls and restarts

ASSUME TickAssumption ==
    /\ ActedOn \subseteq Triggers
    /\ Daemon \notin Admins
    /\ MaxTurns \in Nat \ {0}
    /\ MaxFaults \in Nat

VARIABLES
    telemetry,  \* telemetry[s]: the triggers detected in the events stored for s
    scope,      \* the sessions a pass of the daemon visits
    rows,       \* agent_triggers: rows[f] for the fires that have a row
    messages,   \* the proactive rows of chat.messages
    history,    \* history[c][s]: chat c's memory of session s, oldest turn first
    tick,       \* tick[w]: the local variables of run_proactive_tick
    responses,  \* response ids handed out by uuid4
    dropped,    \* history variable: fires whose tick ended before their message
    faults

vars == <<telemetry, scope, rows, messages, history, tick, responses, dropped, faults>>

Workers == {Daemon} \cup Admins

\* What agent_triggers is unique on.
Fires == Sessions \X Triggers

NoSession == "none"
NoFire == <<>>

\* A turn of a memory is the response id of a check-in, or this: a question or
\* an answer of a chat request (module ChatRequests).
Exchanged == 0

Pcs == {"idle", "persist", "act", "insert", "history", "mark"}

Idle == [pc |-> "idle", session |-> NoSession, detected |-> {}, new |-> {},
         fire |-> NoFire, response |-> 0, chats |-> {}]

TickStates ==
    [pc : Pcs, session : Sessions \cup {NoSession}, detected : SUBSET Fires,
     new : SUBSET Fires, fire : Fires \cup {NoFire}, response : Nat,
     chats : SUBSET Chats]

Messages == [response : Nat, fire : Fires]

RowStates == [present : BOOLEAN, acted : BOOLEAN, response : Nat]
Absent == [present |-> FALSE, acted |-> FALSE, response |-> 0]

TypeOK ==
    /\ telemetry \in [Sessions -> SUBSET Triggers]
    /\ scope \subseteq Sessions
    /\ rows \in [Fires -> RowStates]
    /\ messages \subseteq Messages
    /\ history \in [Chats -> [Sessions -> Seq(Nat)]]
    /\ \A c \in Chats, s \in Sessions : Len(history[c][s]) <= MaxTurns
    /\ tick \in [Workers -> TickStates]
    /\ \A w \in Workers :
          tick[w].pc \in {"insert", "history", "mark"} => tick[w].fire \in Fires
    /\ responses \in Nat
    /\ dropped \subseteq Fires
    /\ faults \in Nat

Init ==
    /\ telemetry = [s \in Sessions |-> {}]
    /\ scope = {}
    /\ rows = [f \in Fires |-> Absent]
    /\ messages = {}
    /\ history = [c \in Chats |-> [s \in Sessions |-> <<>>]]
    /\ tick = [w \in Workers |-> Idle]
    /\ responses = 0
    /\ dropped = {}
    /\ faults = 0

---------------------------------------------------------------------------

\* The tick of worker w goes on with local variables t.
Become(w, t) == tick' = [tick EXCEPT ![w] = t]

\* Ingestion stores events of the session in which a detector sees a trigger;
\* the detectors are deterministic, so it sees it in every later tick too.
NewTelemetry(s, t) ==
    /\ t \notin telemetry[s]
    /\ telemetry' = [telemetry EXCEPT ![s] = @ \cup {t}]
    /\ UNCHANGED <<scope, rows, messages, history, tick, responses, dropped, faults>>

\* in_scope_students and get_latest_session_id_for_student: the daemon visits
\* the latest session of every student with a recent event.  Events of any
\* session, and time, change which these are.
Rescope ==
    /\ \E S \in SUBSET Sessions : scope' = S
    /\ UNCHANGED <<telemetry, rows, messages, history, tick, responses, dropped, faults>>

\* Mutant: a session that already has a row is taken for done.
StartTick_OncePerSession(w, s) ==
    /\ tick[w].pc = "idle"
    /\ w = Daemon => s \in scope
    /\ Become(w, [Idle EXCEPT !.pc = "persist", !.session = s,
                              !.detected = IF \E f \in Fires : f[1] = s /\ rows[f].present
                                           THEN {} ELSE {s} \X telemetry[s]])
    /\ UNCHANGED <<telemetry, scope, rows, messages, history, responses, dropped, faults>>

\* fetch_events_from_db and the detectors: the fires of this tick are those of
\* the events stored now.
StartTick(w, s) ==
    /\ tick[w].pc = "idle"
    /\ w = Daemon => s \in scope
    /\ Become(w, [Idle EXCEPT !.pc = "persist", !.session = s,
                              !.detected = {s} \X telemetry[s]])
    /\ UNCHANGED <<telemetry, scope, rows, messages, history, responses, dropped, faults>>

\* Mutant: ON CONFLICT DO UPDATE ... RETURNING id hands an unacted row out again.
PersistFire_Upsert(w, f) ==
    /\ tick[w].pc = "persist"
    /\ f \in tick[w].detected
    /\ Become(w, [tick[w] EXCEPT !.detected = tick[w].detected \ {f},
                                 !.new = IF rows[f].acted THEN tick[w].new
                                         ELSE tick[w].new \cup {f}])
    /\ rows' = [rows EXCEPT ![f].present = TRUE]
    /\ UNCHANGED <<telemetry, scope, messages, history, responses, dropped, faults>>

\* insert_agent_trigger_if_new, one fire at a time: only the insert that finds
\* no row returns an id, and only that tick may act on the fire.
PersistFire(w, f) ==
    /\ tick[w].pc = "persist"
    /\ f \in tick[w].detected
    /\ IF rows[f].present
       THEN /\ Become(w, [tick[w] EXCEPT !.detected = tick[w].detected \ {f}])
            /\ UNCHANGED rows
       ELSE /\ Become(w, [tick[w] EXCEPT !.detected = tick[w].detected \ {f},
                                         !.new = tick[w].new \cup {f}])
            /\ rows' = [rows EXCEPT ![f] = [Absent EXCEPT !.present = TRUE]]
    /\ UNCHANGED <<telemetry, scope, messages, history, responses, dropped, faults>>

StartActing(w) ==
    /\ tick[w].pc = "persist"
    /\ tick[w].detected = {}
    /\ Become(w, [tick[w] EXCEPT !.pc = "act"])
    /\ UNCHANGED <<telemetry, scope, rows, messages, history, responses, dropped, faults>>

\* Mutant: the row is marked acted before its message is inserted.
Generate_MarksActed(w, f) ==
    /\ tick[w].pc = "act"
    /\ f \in tick[w].new
    /\ f[2] \in ActedOn
    /\ responses' = responses + 1
    /\ rows' = [rows EXCEPT ![f] = [present |-> TRUE, acted |-> TRUE,
                                    response |-> responses + 1]]
    /\ Become(w, [tick[w] EXCEPT !.pc = "insert", !.fire = f,
                                 !.new = tick[w].new \ {f},
                                 !.response = responses + 1])
    /\ UNCHANGED <<telemetry, scope, messages, history, dropped, faults>>

\* Mutant: the loop returns, not continues, at a fire that is not acted on.
Generate_Returns(w, f) ==
    /\ tick[w].pc = "act"
    /\ f \in tick[w].new
    /\ IF f[2] \in ActedOn
       THEN /\ responses' = responses + 1
            /\ Become(w, [tick[w] EXCEPT !.pc = "insert", !.fire = f,
                                         !.new = tick[w].new \ {f},
                                         !.response = responses + 1])
       ELSE /\ Become(w, Idle)
            /\ UNCHANGED responses
    /\ UNCHANGED <<telemetry, scope, rows, messages, history, dropped, faults>>

\* Mutant: the result is kept without the fire it answers.
Generate_LosesFire(w, f) ==
    /\ tick[w].pc = "act"
    /\ f \in tick[w].new
    /\ f[2] \in ActedOn
    /\ responses' = responses + 1
    /\ Become(w, [tick[w] EXCEPT !.pc = "insert", !.new = tick[w].new \ {f},
                                 !.response = responses + 1])
    /\ UNCHANGED <<telemetry, scope, rows, messages, history, dropped, faults>>

\* generate_proactive_response: None for a type that is not acted on, and the
\* loop goes on to the next new fire; else the model answers.
Generate(w, f) ==
    /\ tick[w].pc = "act"
    /\ f \in tick[w].new
    /\ IF f[2] \in ActedOn
       THEN /\ responses' = responses + 1
            /\ Become(w, [tick[w] EXCEPT !.pc = "insert", !.fire = f,
                                         !.new = tick[w].new \ {f},
                                         !.response = responses + 1])
       ELSE /\ Become(w, [tick[w] EXCEPT !.new = tick[w].new \ {f}])
            /\ UNCHANGED responses
    /\ UNCHANGED <<telemetry, scope, rows, messages, history, dropped, faults>>

InsertMessage(w) ==
    /\ tick[w].pc = "insert"
    /\ messages' = messages \cup {[response |-> tick[w].response, fire |-> tick[w].fire]}
    /\ Become(w, [tick[w] EXCEPT !.pc = "history", !.chats = Chats])
    /\ UNCHANGED <<telemetry, scope, rows, history, responses, dropped, faults>>

\* The newest turns of a memory, at most MaxTurns.
Newest(h) == IF Len(h) > MaxTurns THEN SubSeq(h, Len(h) - MaxTurns + 1, Len(h)) ELSE h

\* append_session_message; it appends and cuts in one step, as in ChatRequests.
Remember(c, s, turn) ==
    history' = [history EXCEPT ![c][s] = Newest(Append(@, turn))]

\* A chat request of the session adds a turn to the memory of its chat.
ExchangeTurn(c, s) ==
    /\ Remember(c, s, Exchanged)
    /\ UNCHANGED <<telemetry, scope, rows, messages, tick, responses, dropped, faults>>

\* Mutant: the check-in joins only the chat it is appended to first.
AppendHistory_OneChat(w, c) ==
    /\ tick[w].pc = "history"
    /\ c \in tick[w].chats
    /\ Remember(c, tick[w].session, tick[w].response)
    /\ Become(w, [tick[w] EXCEPT !.chats = {}, !.pc = "mark"])
    /\ UNCHANGED <<telemetry, scope, rows, messages, responses, dropped, faults>>

\* append_session_message for one chat after the other.
AppendHistory(w, c) ==
    /\ tick[w].pc = "history"
    /\ c \in tick[w].chats
    /\ Remember(c, tick[w].session, tick[w].response)
    /\ Become(w, [tick[w] EXCEPT !.chats = tick[w].chats \ {c},
                                 !.pc = IF tick[w].chats = {c} THEN "mark" ELSE "history"])
    /\ UNCHANGED <<telemetry, scope, rows, messages, responses, dropped, faults>>

\* mark_agent_trigger_acted, and on to the next new fire.
MarkActed(w) ==
    /\ tick[w].pc = "mark"
    /\ rows' = [rows EXCEPT ![tick[w].fire] =
                   [present |-> TRUE, acted |-> TRUE, response |-> tick[w].response]]
    /\ Become(w, [tick[w] EXCEPT !.pc = "act", !.fire = NoFire, !.response = 0])
    /\ UNCHANGED <<telemetry, scope, messages, history, responses, dropped, faults>>

FinishTick(w) ==
    /\ tick[w].pc = "act"
    /\ tick[w].new = {}
    /\ Become(w, Idle)
    /\ UNCHANGED <<telemetry, scope, rows, messages, history, responses, dropped, faults>>

\* The fires a tick has inserted and has not messaged yet.
Unsent(t) == t.new \cup (IF t.pc = "insert" THEN {t.fire} ELSE {})

\* The model or the database raises: the exception leaves run_proactive_tick
\* and the rest of the loop with it (the daemon logs it and goes on to the
\* next student).
TickFails(w) ==
    /\ tick[w].pc # "idle"
    /\ faults < MaxFaults
    /\ faults' = faults + 1
    /\ dropped' = dropped \cup Unsent(tick[w])
    /\ Become(w, Idle)
    /\ UNCHANGED <<telemetry, scope, rows, messages, history, responses>>

\* The process dies and comes back: the ticks and the chats' memory are gone.
Restart ==
    /\ faults < MaxFaults
    /\ faults' = faults + 1
    /\ dropped' = dropped \cup UNION {Unsent(tick[w]) : w \in Workers}
    /\ tick' = [w \in Workers |-> Idle]
    /\ history' = [c \in Chats |-> [s \in Sessions |-> <<>>]]
    /\ UNCHANGED <<telemetry, scope, rows, messages, responses>>

---------------------------------------------------------------------------

Advance(w) ==
    \/ \E f \in Fires : PersistFire(w, f) \/ Generate(w, f)
    \/ \E c \in Chats : AppendHistory(w, c)
    \/ StartActing(w) \/ InsertMessage(w) \/ MarkActed(w) \/ FinishTick(w)

Next ==
    \/ \E s \in Sessions, t \in Triggers : NewTelemetry(s, t)
    \/ Rescope
    \/ \E c \in Chats, s \in Sessions : ExchangeTurn(c, s)
    \/ \E w \in Workers : \/ \E s \in Sessions : StartTick(w, s)
                          \/ Advance(w)
                          \/ TickFails(w)
    \/ Restart

Spec == Init /\ [][Next]_vars

\* A tick runs on until it ends or fails, and each pass of the daemon visits
\* every session in scope; nobody has to call /admin/tick.
FairSpec ==
    /\ Spec
    /\ \A w \in Workers : WF_vars(Advance(w))
    /\ \A s \in Sessions : SF_vars(StartTick(Daemon, s))

---------------------------------------------------------------------------
(* Properties. *)

\* A fire reaches the student at most once, however many ticks detect it, run
\* at the same time, fail in the middle or start again after a restart
\* (daemon.py:9-10: each trigger fires at most once ever).
OneMessagePerFire ==
    \A m, n \in messages : m.fire = n.fire => m = n

\* A row marked acted names a message that exists and that this very fire
\* caused, the link the stream and the research view join on (db.py:295-297).
ActedHasMessage ==
    \A f \in Fires : rows[f].acted =>
        [response |-> rows[f].response, fire |-> f] \in messages

\* A claimed fire is never forgotten silently: a row that was to be acted on
\* and has no message is still in the hands of exactly one tick, unless a
\* failure or a restart dropped it.
OnlyFailuresDrop ==
    \A f \in Fires :
        /\ rows[f].present /\ f[2] \in ActedOn
        /\ f \notin dropped
        /\ ~ \E m \in messages : m.fire = f
        => Cardinality({w \in Workers : f \in Unsent(tick[w])}) = 1

\* Memory h holds response r, or as many turns as a memory ever holds.
Recalled(r, h) == (\E i \in DOMAIN h : h[i] = r) \/ Len(h) = MaxTurns

\* What the chats remember follows what the database holds: a remembered
\* check-in is a stored message of that session, and, as long as nothing has
\* failed or restarted, every chat remembers an acted row's check-in until
\* MaxTurns turns have filled its memory (sessions.py:34-35).
MemoryFollowsMessages ==
    /\ \A c \in Chats, s \in Sessions : \A i \in DOMAIN history[c][s] :
          history[c][s][i] # Exchanged =>
              \E m \in messages : m.response = history[c][s][i] /\ m.fire[1] = s
    /\ faults = 0 =>
          \A f \in Fires : rows[f].acted =>
              \A c \in Chats : Recalled(rows[f].response, history[c][f[1]])

\* Every detected trigger the agent acts on ends in a message, unless a
\* failure or a restart dropped it or the session leaves the daemon's scope.
EveryFireAnswered ==
    \A s \in Sessions, t \in ActedOn :
        t \in telemetry[s] ~>
            \/ \E m \in messages : m.fire = <<s, t>>
            \/ <<s, t>> \in dropped
            \/ s \notin scope

\* The tick implements the lane's promise about each fire.
Status ==
    [f \in Fires |-> IF \E m \in messages : m.fire = f THEN "sent"
                     ELSE IF f \in dropped THEN "dropped"
                     ELSE IF rows[f].present THEN "claimed"
                     ELSE "unseen"]

Promise == INSTANCE CheckIns WITH status <- Status

ImplementsCheckIns == Promise!Spec

=============================================================================

--------------------------- MODULE FeedbackPolicy ---------------------------
(***************************************************************************)
(* How a question of a student gets its feedback classes and its grounding:*)
(* the analysis in the middle of create_response (api/students.py), the    *)
(* situation and the program of domain/context_builder.py.                 *)
(*                                                                         *)
(* A request reads the session's events twice: once for the checks and the *)
(* prompt, once for the snapshot the policy decides on.  Ingestion goes on *)
(* in between, and an event may arrive with an earlier time than those     *)
(* that are stored.                                                        *)
(***************************************************************************)
EXTENDS StateMetrics, SequencesExt

CONSTANTS
    Requests,   \* POST /responses requests of one session with a student_message
    Arrivals,   \* the events ingestion can store, without their time
    MaxTime,    \* bound on the events' times
    MaxEvents,  \* bound on the stored events
    MaxRaces,   \* bound on the events stored once a request has read the list
    MaxFaults   \* bound on failing database calls

ASSUME PolicyAssumption ==
    /\ Arrivals \subseteq [type : Types, playground : {GoMars} \cup Elsewhere,
                           data : Data \cup {NoData}, project : BOOLEAN, pause : BOOLEAN]
    /\ {MaxTime, MaxEvents, MaxRaces, MaxFaults} \subseteq Nat

VARIABLES
    stored,     \* parsed_events of the session, ordered by event_ts and id
    request,    \* request[r]: the local variables of create_response
    row,        \* the session's row of current_state.state_snapshots
    faults

vars == <<stored, request, row, faults>>

Pcs == {"start", "analyze", "save", "feedback", "wrong_playground", "active_run", "failed"}

NoSnapshot == [playground |-> GoMars, time |-> 0, level |-> "LOW", progress |-> 0,
               direction |-> "STATIC", cognition |-> "UNCLASSIFIED",
               persistence |-> "IN_PROGRESS"]

NewRequest == [pc |-> "start", events |-> <<>>, fetched |-> <<>>, snapshot |-> NoSnapshot,
               classes |-> {}]

RequestStates == [pc : Pcs, events : Seq(Events), fetched : Seq(Events),
                  snapshot : Snapshots, classes : SUBSET FeedbackClasses]

TypeOK ==
    /\ stored \in Seq(Events)
    /\ request \in [Requests -> RequestStates]
    /\ \A r \in Requests : request[r].pc = "feedback" => request[r].classes # {}
    /\ row \in Snapshots
    /\ faults \in Nat

Init ==
    /\ stored = <<>>
    /\ request = [r \in Requests |-> NewRequest]
    /\ row = NoSnapshot
    /\ faults = 0

---------------------------------------------------------------------------

\* insert_rows of a sync: fetch_events_from_db lists by event_ts, and a new
\* event behind those of its own time.
StoreEvent(a, ts) ==
    /\ Len(stored) < MaxEvents
    /\ \A r \in Requests : request[r].pc # "start" =>
          Len(stored) < Len(request[r].events) + MaxRaces
    /\ LET event == [ts |-> ts, type |-> a.type, playground |-> a.playground,
                     data |-> a.data, project |-> a.project, pause |-> a.pause]
           place == Cardinality({i \in DOMAIN stored : stored[i].ts <= ts})
       IN stored' = SubSeq(stored, 1, place) \o <<event>>
                    \o SubSeq(stored, place + 1, Len(stored))
    /\ UNCHANGED <<request, row, faults>>

Become(r, q) == request' = [request EXCEPT ![r] = q]

\* fetch_events_from_db and the two checks on its list.
FetchEvents(r) ==
    /\ request[r].pc = "start"
    /\ Become(r, [request[r] EXCEPT
                    !.events = stored,
                    !.pc = IF stored = <<>> THEN "failed"
                           ELSE IF Here(stored) # GoMars THEN "wrong_playground"
                           ELSE IF HasActiveProjectRun(stored) THEN "active_run"
                           ELSE "analyze"])
    /\ UNCHANGED <<stored, row, faults>>

\* Mutant: the list of the checks is analyzed, and the prompt reads it anew.
ComputeSnapshot_Swapped(r) ==
    /\ request[r].pc = "analyze"
    /\ IF Analyzable(request[r].events)
       THEN Become(r, [request[r] EXCEPT !.pc = "save", !.events = stored,
                                         !.fetched = request[r].events,
                                         !.snapshot = AnalyzeCurrentState(request[r].events)])
       ELSE Become(r, [request[r] EXCEPT !.pc = "failed"])
    /\ UNCHANGED <<stored, row, faults>>

\* compute_snapshot_for_student_session fetches the events again.
ComputeSnapshot(r) ==
    /\ request[r].pc = "analyze"
    /\ IF Analyzable(stored)
       THEN Become(r, [request[r] EXCEPT !.pc = "save", !.fetched = stored,
                                         !.snapshot = AnalyzeCurrentState(stored)])
       ELSE Become(r, [request[r] EXCEPT !.pc = "failed"])
    /\ UNCHANGED <<stored, row, faults>>

\* Mutant: no class is no class.
PickClasses_NoFallback(snapshot) ==
    DetermineFeedbackClass(snapshot.cognition, snapshot.persistence)

\* determine_feedback_class, with a question when no rule applies.
PickClasses(snapshot) ==
    LET classes == DetermineFeedbackClass(snapshot.cognition, snapshot.persistence)
    IN IF classes = {} THEN {"QUESTION"} ELSE classes

\* upsert_snapshot, and the classes for the prompt.
SaveSnapshot(r) ==
    /\ request[r].pc = "save"
    /\ row' = request[r].snapshot
    /\ Become(r, [request[r] EXCEPT !.pc = "feedback",
                                    !.classes = PickClasses(request[r].snapshot)])
    /\ UNCHANGED <<stored, faults>>

\* A database call raises: HTTP 500.
RequestFails(r) ==
    /\ request[r].pc \in {"start", "analyze", "save"}
    /\ faults < MaxFaults
    /\ faults' = faults + 1
    /\ Become(r, [request[r] EXCEPT !.pc = "failed"])
    /\ UNCHANGED <<stored, row>>

Next ==
    \/ \E a \in Arrivals, ts \in 0..MaxTime : StoreEvent(a, ts)
    \/ \E r \in Requests : \/ FetchEvents(r) \/ ComputeSnapshot(r) \/ SaveSnapshot(r)
                           \/ RequestFails(r)

Spec == Init /\ [][Next]_vars

---------------------------------------------------------------------------
(* The grounding of the prompt, from the first list. *)

Projects(es) == {i \in DOMAIN es : es[i].project}

\* Mutant: the run with the oldest workspace.
ProgramShown_Oldest(es) ==
    LET runs == Projects(es) \cap Of(es, {"runProject"})
    IN IF runs # {} THEN Min(runs)
       ELSE IF Projects(es) # {} THEN Max(Projects(es)) ELSE 0

\* build_current_program: the newest run with a workspace, else the newest
\* event with one; 0 when there is none.
ProgramShown(es) ==
    LET runs == Projects(es) \cap Of(es, {"runProject"})
    IN IF runs # {} THEN Max(runs)
       ELSE IF Projects(es) # {} THEN Max(Projects(es)) ELSE 0

\* build_situation_model: the event whose parameters the milestones done and to
\* do are told from, 0 for none; the rest is what AnalyzeCurrentState finds.
MilestonesFrom(es) ==
    LET reports == {i \in DOMAIN es : es[i].data \in Parameters}
    IN IF reports = {} THEN 0 ELSE Max(reports)

Answered(r) == request[r].pc = "feedback"

---------------------------------------------------------------------------
(* Properties. *)

\* The classes a student can be given: the rules of the two classifiers exclude
\* each other in such a way that a nudge and a how-to are never chosen, and a
\* diagnosis only for a student at or near completion (feedback_policy.py:66-87
\* has a rule for each).
DeadClasses ==
    \A r \in Requests : Answered(r) =>
        /\ request[r].classes \cap {"NUDGE", "HOW_TO"} = {}
        /\ "DIAGNOSE" \in request[r].classes =>
              request[r].snapshot.persistence = "EXPECTED_COMPLETION"

\* What a class says of the student is so in the list it was chosen from: an
\* error is flagged only after a long time with no progress, a student is
\* reassured only after the static time, and praised only with progress that
\* went up and down and ended above half.
ClassesGrounded ==
    \A r \in Requests : Answered(r) =>
        LET sg == Segment(request[r].fetched)
            classes == request[r].classes
        IN /\ "ERROR_FLAGGING" \in classes =>
                 TimeOnTask(sg) >= StalledAfter /\ FinalProgress(sg) < 10
           /\ "REASSURE" \in classes => TimeOnTask(sg) >= StaticAfter
           /\ "EVIDENCE_BASED_PRAISE" \in classes =>
                 Rises(sg) # {} /\ Falls(sg) # {} /\ FinalProgress(sg) >= 50

\* The policy never decides on an older state than the one the prompt tells the
\* model of, and on the same unless events came in between.
PolicyFollowsPrompt ==
    \A r \in Requests : Answered(r) =>
        LET told == request[r].events
            decided == request[r].fetched
        IN /\ ToSet(told) \subseteq ToSet(decided)
           /\ Len(told) = Len(decided) => AnalyzeCurrentState(told) = request[r].snapshot

\* Which stay the prompt speaks of. Both searches run over the whole session
\* (context_builder.py:406-415 and 495-502), the progress over the current stay alone. The
\* program shown is of this stay exactly if the student ran one in it or, having
\* run none at all, changed one in it: a run of an earlier stay goes before a
\* change in this one. The milestones are of this stay exactly if a report in it
\* has parameters, and the progress is that of those milestones unless the newest
\* report of the stay has none, when it is zero.
WhichStayIsShown ==
    \A r \in Requests : Answered(r) =>
        LET es == request[r].events
            start == SegmentStart(es)
            runs == Projects(es) \cap Of(es, {"runProject"})
            reports == Reports(es) \cap start..Len(es)
        IN /\ ProgramShown(es) >= start <=>
                 \/ \E i \in runs : i >= start
                 \/ runs = {} /\ \E i \in Projects(es) : i >= start
           /\ MilestonesFrom(es) >= start <=>
                 \E i \in reports : es[i].data # NoParameters
           /\ FinalProgress(Segment(es)) =
                 IF reports = {} THEN 0
                 ELSE IF es[Max(reports)].data = NoParameters THEN 0
                 ELSE Progress(es[MilestonesFrom(es)].data)

=============================================================================

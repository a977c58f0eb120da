---------------------------- MODULE StateMetrics ----------------------------
(***************************************************************************)
(* What a session's events say about the student: domain/metrics.py and    *)
(* the choice of feedback classes of domain/feedback_policy.py, as         *)
(* operators on the list fetch_events_from_db returns.                     *)
(*                                                                         *)
(* Times are in seconds, progress is in percent and a score counts whole   *)
(* points.  The thresholds on progress are the code's; those on time are   *)
(* constants, so that a short list can cross them.                         *)
(***************************************************************************)
EXTENDS Integers, Sequences, FiniteSets, FiniteSetsExt

CONSTANTS
    GoMars,         \* DEFAULT_PLAYGROUND, the only one with a progress metric
    Elsewhere,      \* the other playgrounds
    NoData,         \* an event without playground_data_json
    NoParameters,   \* playground data without parameters
    NoScore,        \* parameters without a total_score
    Minute,         \* 60 in the code
    StalledAfter,   \* 600
    StaticAfter,    \* 300
    QuitWithin,     \* 120
    SnapTestGap     \* 90

Milestones == {"sample", "lab", "panel", "rover", "rocket", "fuel"}
GoalScore == 5

Parameters == [score : Nat \cup {NoScore}, milestones : SUBSET Milestones]
Data == Parameters \cup {NoParameters}

ASSUME MetricsAssumption ==
    /\ GoMars \notin Elsewhere
    /\ NoData \notin Data
    /\ NoParameters \notin Parameters
    /\ NoScore \notin Nat
    /\ Minute \in Nat \ {0}
    /\ {StalledAfter, StaticAfter, QuitWithin, SnapTestGap} \subseteq Nat
    /\ QuitWithin < StaticAfter
    /\ StaticAfter <= StalledAfter

\* A blockMoved event snaps a block (its newInfo has a parent), takes one off
\* (only its oldInfo has), or neither.
Edits == {"blockCreated", "blockChanged", "blockDeleted", "snap", "unsnap", "blockMoved"}
Types == Edits \cup {"runProject", "projectEnd", "switch", "other"}

\* project: the event carries the workspace; pause: the segmenter of agent_lm
\* reports a POST_RUN_PAUSE that begins here.
Events == [ts : Nat, type : Types, playground : {GoMars} \cup Elsewhere,
           data : Data \cup {NoData}, project : BOOLEAN, pause : BOOLEAN]

Levels == {"LOW", "MEDIUM", "HIGH"}
Directions == {"INCREASING", "STATIC", "DECREASING"}
Cognitions == {"LONG_TERM_STALLED_PROGRESS", "DEVELOPMENT_INCREASES_PROGRESS",
               "DEVELOPMENT_STATIC_PROGRESS", "DEVELOPMENT_DECREASES_PROGRESS",
               "TRIAL_AND_ERROR", "CODE_ABANDONMENT", "STEP_BY_STEP_ELIMINATION",
               "SNAP_N_TEST", "UNCLASSIFIED"}
Persistences == {"EXPECTED_COMPLETION", "HIGH_PERSISTER", "EARLY_QUITTER", "IN_PROGRESS"}

---------------------------------------------------------------------------
(* One list of events, ordered by time. *)

Here(es) == es[Len(es)].playground

Of(es, types) == {i \in DOMAIN es : es[i].type \in types}

\* The last event of one of these types, by its place in the list.
LastTs(es, types) == es[Max(Of(es, types))].ts

HasActiveProjectRun(es) ==
    /\ Of(es, {"runProject"}) # {}
    /\ \/ Of(es, {"projectEnd"}) = {}
       \/ LastTs(es, {"runProject"}) > LastTs(es, {"projectEnd"})

\* The scan from the newest event back stops at the first one from another
\* playground and starts right after it; a scan that meets none starts at the
\* oldest switch event it has seen, or at the first event.
SegmentStart(es) ==
    LET away == {i \in DOMAIN es : es[i].playground # Here(es)}
        switches == Of(es, {"switch"})
    IN CASE away # {} -> Max(away) + 1
         [] away = {} /\ switches # {} -> Min(switches)
         [] OTHER -> 1

Segment(es) == SubSeq(es, SegmentStart(es), Len(es))

\* total_score if the playground reports one, else the milestones reached, as a
\* share of the goal of five.
Progress(data) ==
    IF data = NoParameters THEN 0
    ELSE 20 * Min({GoalScore, IF data.score = NoScore THEN Cardinality(data.milestones)
                              ELSE data.score})

---------------------------------------------------------------------------
(* The segment sg and the places of its progress reports. *)

TimeOnTask(sg) == sg[Len(sg)].ts - sg[1].ts

\* Fewer than 1.5 or at most 3.5 events a minute, in doubled and multiplied-out
\* form; less than a minute counts as one.
ActionLevel(n, time) ==
    LET minutes == Max({Minute, time})
    IN CASE 2 * n * Minute < 3 * minutes -> "LOW"
         [] 2 * n * Minute >= 3 * minutes /\ 2 * n * Minute <= 7 * minutes -> "MEDIUM"
         [] OTHER -> "HIGH"

Reports(sg) == {i \in DOMAIN sg : sg[i].data # NoData}

ProgressAt(sg, i) == Progress(sg[i].data)

\* progress_pct: what the newest report says.
FinalProgress(sg) == IF Reports(sg) = {} THEN 0 ELSE ProgressAt(sg, Max(Reports(sg)))
FirstProgress(sg) == IF Reports(sg) = {} THEN 0 ELSE ProgressAt(sg, Min(Reports(sg)))

Total(sg, R) == MapThenSumSet(LAMBDA i : ProgressAt(sg, i), R)

\* compute_direction: the mean of the reports up to the middle of the segment's
\* time against the mean of those after it, an empty half standing for the first
\* or the last report; the difference of the means is multiplied out.
Direction(sg) ==
    LET R == Reports(sg)
        early == {i \in R : 2 * sg[i].ts <= sg[1].ts + sg[Len(sg)].ts}
        first == IF early = {} THEN {Min(R)} ELSE early
        second == IF early = R THEN {Max(R)} ELSE R \ early
        weight == Cardinality(first) * Cardinality(second)
        delta == Cardinality(first) * Total(sg, second) - Cardinality(second) * Total(sg, first)
    IN CASE R = {} -> "STATIC"
         [] R # {} /\ delta >= 5 * weight -> "INCREASING"
         [] R # {} /\ delta <= -5 * weight -> "DECREASING"
         [] OTHER -> "STATIC"

\* The report before report i.
Previous(sg, i) == Max({j \in Reports(sg) : j < i})

\* compress_progress_values keeps a report whose value is not the one before it,
\* so the differences it leaves are those between neighbouring reports.
Delta(sg, i) == ProgressAt(sg, i) - ProgressAt(sg, Previous(sg, i))
Later(sg) == {i \in Reports(sg) : \E j \in Reports(sg) : j < i}
Changes(sg) == {i \in Later(sg) : Delta(sg, i) # 0}
Rises(sg) == {i \in Later(sg) : Delta(sg, i) >= 5}
Falls(sg) == {i \in Later(sg) : Delta(sg, i) <= -5}

Peak(sg) == Max({ProgressAt(sg, i) : i \in Reports(sg)})
Bottom(sg) == Min({ProgressAt(sg, i) : i \in Reports(sg)})

\* Deltas of both signs: then some neighbouring pair of them changes sign.
TriesAround(sg, level) ==
    /\ level = "HIGH"
    /\ Peak(sg) - Bottom(sg) >= 10
    /\ Rises(sg) # {} /\ Falls(sg) # {}

\* Three or more different values in a row, and nothing but falls since the
\* first peak, by fifteen points or more.
Abandons(sg, level) ==
    LET peak == Min({i \in Reports(sg) : ProgressAt(sg, i) = Peak(sg)})
    IN /\ Cardinality(Changes(sg)) >= 2
       /\ Peak(sg) - FinalProgress(sg) >= 15
       /\ \A i \in Changes(sg) : i > peak => Delta(sg, i) <= 0
       /\ level \in {"MEDIUM", "HIGH"}

Eliminates(sg, level, direction) ==
    /\ Rises(sg) \cup Falls(sg) # {}
    /\ FinalProgress(sg) - FirstProgress(sg) >= 10
    /\ Cardinality(Falls(sg)) <= 1
    /\ direction = "INCREASING"
    /\ level \in {"MEDIUM", "HIGH"}

SnapsAndTests(sg, level) ==
    /\ Of(sg, {"runProject"}) # {}
    /\ Of(sg, {"snap"}) # {}
    /\ \/ /\ Of(sg, {"blockDeleted", "unsnap"}) # {}
          /\ LastTs(sg, {"runProject"}) - LastTs(sg, Edits) <= SnapTestGap
       \/ /\ \E i \in DOMAIN sg : sg[i].pause
          /\ level \in {"MEDIUM", "HIGH"}

---------------------------------------------------------------------------
(* The classifiers: the first rule that applies. *)

\* classify_persistence.
ClassifyPersistence(time, level, progress, direction) ==
    IF progress >= 67 \/ (direction = "INCREASING" /\ progress >= 50)
    THEN "EXPECTED_COMPLETION"
    ELSE IF time >= StalledAfter /\ level = "HIGH" /\ progress < 33
    THEN "HIGH_PERSISTER"
    ELSE IF time <= QuitWithin /\ progress < 10 /\ level = "LOW"
    THEN "EARLY_QUITTER"
    ELSE "IN_PROGRESS"

\* The rules on time, direction and progress alone.
Development(time, level, progress, direction) ==
    IF time >= StalledAfter /\ progress < 10 /\ level # "HIGH"
    THEN "LONG_TERM_STALLED_PROGRESS"
    ELSE IF direction = "INCREASING" /\ progress >= 10
    THEN "DEVELOPMENT_INCREASES_PROGRESS"
    ELSE IF direction = "STATIC" /\ time >= StaticAfter
    THEN "DEVELOPMENT_STATIC_PROGRESS"
    ELSE IF direction = "DECREASING" /\ progress >= 10
    THEN "DEVELOPMENT_DECREASES_PROGRESS"
    ELSE "UNCLASSIFIED"

\* The rules on the shape of the work.
Shape(sg, level, direction) ==
    IF Reports(sg) # {} /\ TriesAround(sg, level) THEN "TRIAL_AND_ERROR"
    ELSE IF Reports(sg) # {} /\ Abandons(sg, level) THEN "CODE_ABANDONMENT"
    ELSE IF Reports(sg) # {} /\ Eliminates(sg, level, direction)
    THEN "STEP_BY_STEP_ELIMINATION"
    ELSE IF SnapsAndTests(sg, level) THEN "SNAP_N_TEST"
    ELSE "UNCLASSIFIED"

\* Mutant: the shape of the work is looked at first.
ClassifyCognition_ShapeFirst(sg, time, level, progress, direction) ==
    LET shape == Shape(sg, level, direction)
    IN IF shape # "UNCLASSIFIED" THEN shape
       ELSE Development(time, level, progress, direction)

ClassifyCognition(sg, time, level, progress, direction) ==
    LET development == Development(time, level, progress, direction)
    IN IF development # "UNCLASSIFIED" THEN development
       ELSE Shape(sg, level, direction)

---------------------------------------------------------------------------

Snapshots == [playground : {GoMars} \cup Elsewhere, time : Nat, level : Levels,
              progress : Nat, direction : Directions, cognition : Cognitions,
              persistence : Persistences]

\* compute_progress_pct raises for the data of any other playground.
Analyzable(es) ==
    /\ es # <<>>
    /\ Here(es) = GoMars \/ Reports(Segment(es)) = {}

AnalyzeCurrentState(es) ==
    LET sg == Segment(es)
        time == TimeOnTask(sg)
        level == ActionLevel(Len(sg), time)
        progress == FinalProgress(sg)
        direction == Direction(sg)
    IN [playground |-> Here(es), time |-> time, level |-> level, progress |-> progress,
        direction |-> direction,
        cognition |-> ClassifyCognition(sg, time, level, progress, direction),
        persistence |-> ClassifyPersistence(time, level, progress, direction)]

\* FeedbackClass, without the five members no rule mentions.
FeedbackClasses ==
    {"PARTIAL_CORRECTNESS", "EVIDENCE_BASED_PRAISE", "REASSURE", "ERROR_FLAGGING", "HOW_TO",
     "INFORM", "NUDGE", "DIAGNOSE", "QUESTION", "ELABORATE"}

\* Mutant: the praise of a finished trial and the comfort of a persistent one
\* are swapped.
DetermineFeedbackClass_Swapped(cognition, persistence) ==
    IF cognition = "TRIAL_AND_ERROR"
    THEN {"PARTIAL_CORRECTNESS",
          IF persistence = "HIGH_PERSISTER" THEN "EVIDENCE_BASED_PRAISE" ELSE "REASSURE"}
    ELSE {}

DetermineFeedbackClass(cognition, persistence) ==
    CASE cognition = "LONG_TERM_STALLED_PROGRESS" -> {"ERROR_FLAGGING"}
      [] cognition = "DEVELOPMENT_INCREASES_PROGRESS" -> {"ELABORATE"}
      [] cognition = "DEVELOPMENT_STATIC_PROGRESS" -> {"REASSURE"}
      [] cognition \in {"DEVELOPMENT_DECREASES_PROGRESS", "SNAP_N_TEST"} -> {"INFORM"}
      [] cognition = "TRIAL_AND_ERROR" ->
            {"PARTIAL_CORRECTNESS"} \cup
            (CASE persistence = "EXPECTED_COMPLETION" -> {"EVIDENCE_BASED_PRAISE"}
               [] persistence = "HIGH_PERSISTER" -> {"REASSURE"}
               [] persistence = "EARLY_QUITTER" -> {"HOW_TO"}
               [] OTHER -> {})
      [] cognition = "CODE_ABANDONMENT" ->
            (CASE persistence \in {"EXPECTED_COMPLETION", "EARLY_QUITTER"} -> {"DIAGNOSE"}
               [] persistence = "HIGH_PERSISTER" -> {"REASSURE", "ELABORATE"}
               [] OTHER -> {})
      [] cognition = "STEP_BY_STEP_ELIMINATION" -> {"NUDGE"}
      [] OTHER -> {}

=============================================================================

------------------------ MODULE FeedbackPolicyProofs ------------------------
(***************************************************************************)
(* For every list of events and all thresholds: which feedback classes the *)
(* rules can give, what they rest on, and that the two lists a request     *)
(* reads fit together.                                                     *)
(***************************************************************************)
EXTENDS FeedbackPolicy, FiniteSetTheorems, SequenceTheorems, WellFoundedInduction, TLAPS

---------------------------------------------------------------------------
(* The least and the greatest place of a list: among the intervals that end *)
(* there, a smallest one.                                                   *)

LEMMA MinPlace ==
    ASSUME NEW R \in SUBSET Nat, R # {}
    PROVE  Min(R) \in R /\ \A i \in R : Min(R) <= i
<1> DEFINE T == {0..i : i \in R}
<1>1. T \subseteq FiniteSubsetsOf(Nat)
  <2> SUFFICES ASSUME NEW i \in R PROVE (0..i) \in FiniteSubsetsOf(Nat)
    OBVIOUS
  <2>1. i \in Nat /\ 0 \in Int /\ i \in Int
    OBVIOUS
  <2>2. IsFiniteSet(0..i)
    BY <2>1, FS_Interval
  <2>3. (0..i) \in SUBSET Nat
    BY <2>1
  <2> QED
    BY <2>2, <2>3 DEF FiniteSubsetsOf
<1>2. T # {}
  OBVIOUS
<1>3. PICK x \in T : \A y \in T : ~ (<<y, x>> \in StrictSubsetOrdering(Nat))
  <2> HIDE DEF T
  <2> QED
    BY <1>1, <1>2, FS_StrictSubsetOrderingWellFounded, WFMin
<1>4. PICK m \in R : x = 0..m
  BY <1>3
<1>5. ASSUME NEW i \in R PROVE m <= i
  <2>1. i \in Nat /\ m \in Nat
    BY <1>4
  <2>2. ~ (<<0..i, 0..m>> \in StrictSubsetOrdering(Nat))
    BY <1>3, <1>4
  <2>3. (0..i) \in SUBSET Nat /\ (0..m) \in SUBSET Nat
    BY <2>1
  <2>4. ~ (0..i \subseteq 0..m) \/ 0..i = 0..m
    BY <2>2, <2>3, Zenon DEF StrictSubsetOrdering
  <2>5. CASE i < m
    <3>1. 0..i \subseteq 0..m
      BY <2>1, <2>5
    <3>2. m \in 0..m /\ m \notin 0..i
      BY <2>1, <2>5
    <3> QED
      BY <3>1, <3>2, <2>4
  <2> QED
    BY <2>1, <2>5
<1> QED
  BY <1>5 DEF Min

LEMMA MaxPlace ==
    ASSUME NEW n \in Nat, NEW R \in SUBSET (1..n), R # {}
    PROVE  Max(R) \in R /\ \A i \in R : Max(R) >= i
<1> DEFINE D == {j \in Nat : n - j \in R}
<1>1. D # {}
  <2>1. PICK i \in R : TRUE
    OBVIOUS
  <2>2. i \in Nat /\ n - i \in Nat /\ n - (n - i) = i
    BY <2>1
  <2> QED
    BY <2>1, <2>2
<1>2. Min(D) \in D /\ \A e \in D : Min(D) <= e
  <2>1. D \in SUBSET Nat
    OBVIOUS
  <2> HIDE DEF D
  <2> QED
    BY <1>1, <2>1, MinPlace
<1>3. PICK d \in D : \A e \in D : d <= e
  BY <1>2
<1>4. ASSUME NEW i \in R PROVE n - d >= i
  <2>1. i \in Nat /\ n - i \in Nat /\ n - (n - i) = i
    OBVIOUS
  <2>2. n - i \in D
    BY <2>1
  <2>3. d <= n - i /\ d \in Nat
    BY <2>2, <1>3
  <2> QED
    BY <2>1, <2>3
<1> QED
  BY <1>3, <1>4 DEF Max

LEMMA PlacesOf ==
    ASSUME NEW es \in Seq(Events), NEW types
    PROVE  Of(es, types) \in SUBSET (1..Len(es)) /\ Len(es) \in Nat
BY DEF Of

---------------------------------------------------------------------------
(* Progress is a natural number. *)

LEMMA MilestonesFinite == IsFiniteSet(Milestones)
<1>1. IsFiniteSet({"sample"})
  BY FS_Singleton
<1>2. IsFiniteSet({"sample"} \cup {"lab"})
  BY <1>1, FS_AddElement
<1>3. IsFiniteSet(({"sample"} \cup {"lab"}) \cup {"panel"})
  BY <1>2, FS_AddElement
<1>4. IsFiniteSet((({"sample"} \cup {"lab"}) \cup {"panel"}) \cup {"rover"})
  BY <1>3, FS_AddElement
<1>5. IsFiniteSet(((({"sample"} \cup {"lab"}) \cup {"panel"}) \cup {"rover"}) \cup {"rocket"})
  BY <1>4, FS_AddElement
<1>6. IsFiniteSet((((({"sample"} \cup {"lab"}) \cup {"panel"}) \cup {"rover"}) \cup {"rocket"})
                  \cup {"fuel"})
  BY <1>5, FS_AddElement
<1>7. Milestones = (((({"sample"} \cup {"lab"}) \cup {"panel"}) \cup {"rover"}) \cup {"rocket"})
                  \cup {"fuel"}
  BY DEF Milestones
<1> QED
  BY <1>6, <1>7

LEMMA ProgressNat ==
    ASSUME NEW data \in Data
    PROVE  Progress(data) \in Nat
<1>1. CASE data = NoParameters
  BY <1>1 DEF Progress
<1>2. CASE data # NoParameters
  <2>1. data \in Parameters
    BY <1>2 DEF Data
  <2> DEFINE points == IF data.score = NoScore THEN Cardinality(data.milestones) ELSE data.score
  <2>2. Cardinality(data.milestones) \in Nat
    BY <2>1, MilestonesFinite, FS_Subset, FS_CardinalityType DEF Parameters
  <2>3. points \in Nat
    BY <2>1, <2>2 DEF Parameters
  <2>4. {GoalScore, points} \in SUBSET Nat /\ {GoalScore, points} # {}
    BY <2>3 DEF GoalScore
  <2>5. Min({GoalScore, points}) \in Nat
    <3> HIDE DEF points
    <3> QED
      BY <2>4, MinPlace
  <2>6. Progress(data) = 20 * Min({GoalScore, points})
    BY <1>2 DEF Progress
  <2> QED
    BY <2>5, <2>6
<1> QED
  BY <1>1, <1>2

LEMMA ReportsTyped ==
    ASSUME NEW sg \in Seq(Events)
    PROVE  /\ Reports(sg) \in SUBSET (1..Len(sg))
           /\ Len(sg) \in Nat
           /\ \A i \in Reports(sg) : ProgressAt(sg, i) \in Nat
           /\ FinalProgress(sg) \in Nat
           /\ FirstProgress(sg) \in Nat
<1>1. Reports(sg) \in SUBSET (1..Len(sg)) /\ Len(sg) \in Nat
  BY DEF Reports
<1>2. ASSUME NEW i \in Reports(sg) PROVE ProgressAt(sg, i) \in Nat
  <2>1. sg[i] \in Events /\ sg[i].data # NoData
    BY <1>1 DEF Reports
  <2>2. sg[i].data \in Data
    BY <2>1 DEF Events
  <2> QED
    BY <2>2, ProgressNat DEF ProgressAt
<1>3. CASE Reports(sg) = {}
  BY <1>1, <1>2, <1>3 DEF FinalProgress, FirstProgress
<1>4. CASE Reports(sg) # {}
  <2>1. Max(Reports(sg)) \in Reports(sg)
    BY <1>1, <1>4, MaxPlace
  <2>2. Reports(sg) \in SUBSET Nat
    BY <1>1
  <2>3. Min(Reports(sg)) \in Reports(sg)
    BY <2>2, <1>4, MinPlace
  <2> QED
    BY <1>1, <1>2, <1>4, <2>1, <2>3 DEF FinalProgress, FirstProgress
<1> QED
  BY <1>3, <1>4

---------------------------------------------------------------------------
(* The segment is the tail of the list, and its events are the list's. *)

LEMMA SegmentTyped ==
    ASSUME NEW es \in Seq(Events), es # <<>>
    PROVE  /\ SegmentStart(es) \in 1..Len(es)
           /\ Segment(es) \in Seq(Events)
           /\ Len(Segment(es)) = Len(es) - SegmentStart(es) + 1
           /\ \A i \in 1..Len(Segment(es)) : Segment(es)[i] = es[SegmentStart(es) + i - 1]
<1> DEFINE away == {i \in DOMAIN es : es[i].playground # Here(es)}
           switches == Of(es, {"switch"})
<1>1. Len(es) \in Nat /\ Len(es) >= 1
  BY EmptySeq
<1>2. SegmentStart(es) \in 1..Len(es)
  <2>1. CASE away # {}
    <3>1. away \in SUBSET (1..Len(es))
      OBVIOUS
    <3>2. Max(away) \in away
      <4> HIDE DEF away
      <4> QED
        BY <1>1, <2>1, <3>1, MaxPlace
    <3>3. Max(away) # Len(es)
      BY <3>2 DEF Here
    <3>4. SegmentStart(es) = Max(away) + 1
      BY <2>1 DEF SegmentStart
    <3>5. Max(away) \in 1..Len(es)
      BY <3>1, <3>2
    <3> HIDE DEF away
    <3> QED
      BY <1>1, <3>3, <3>4, <3>5
  <2>2. CASE away = {} /\ switches # {}
    <3>1. switches \in SUBSET (1..Len(es))
      BY PlacesOf
    <3>2. switches \in SUBSET Nat
      BY <3>1, <1>1
    <3>3. Min(switches) \in switches
      <4> HIDE DEF switches
      <4> QED
        BY <2>2, <3>2, MinPlace
    <3>4. SegmentStart(es) = Min(switches)
      BY <2>2 DEF SegmentStart
    <3> QED
      BY <3>1, <3>3, <3>4
  <2>3. CASE away = {} /\ switches = {}
    <3>1. SegmentStart(es) = 1
      BY <2>3 DEF SegmentStart
    <3> QED
      BY <1>1, <3>1
  <2> QED
    BY <2>1, <2>2, <2>3
<1>3. SegmentStart(es) \in Int /\ Len(es) \in Int
  BY <1>1, <1>2
<1>4. \A i \in SegmentStart(es)..Len(es) : es[i] \in Events
  BY <1>1, <1>2
<1>5. /\ Segment(es) \in Seq(Events)
      /\ Len(Segment(es)) = IF SegmentStart(es) <= Len(es)
                             THEN Len(es) - SegmentStart(es) + 1 ELSE 0
      /\ \A i \in 1..(Len(es) - SegmentStart(es) + 1) :
            Segment(es)[i] = es[SegmentStart(es) + i - 1]
  BY <1>3, <1>4, SubSeqProperties DEF Segment
<1> QED
  BY <1>1, <1>2, <1>5

---------------------------------------------------------------------------
(* What each label of the two classifiers stands for. *)

LEMMA DevelopmentRules ==
    ASSUME NEW time \in Int, NEW level, NEW progress \in Nat, NEW direction
    PROVE  /\ Development(time, level, progress, direction) \in
                  {"LONG_TERM_STALLED_PROGRESS", "DEVELOPMENT_INCREASES_PROGRESS",
                   "DEVELOPMENT_STATIC_PROGRESS", "DEVELOPMENT_DECREASES_PROGRESS",
                   "UNCLASSIFIED"}
           /\ Development(time, level, progress, direction) = "LONG_TERM_STALLED_PROGRESS" =>
                  time >= StalledAfter /\ progress < 10
           /\ Development(time, level, progress, direction) = "DEVELOPMENT_STATIC_PROGRESS" =>
                  time >= StaticAfter
           /\ direction = "INCREASING" /\ progress >= 10 =>
                  Development(time, level, progress, direction) # "UNCLASSIFIED"
BY DEF Development

LEMMA ShapeRules ==
    ASSUME NEW sg \in Seq(Events), NEW level, NEW direction
    PROVE  /\ Shape(sg, level, direction) \in
                  {"TRIAL_AND_ERROR", "CODE_ABANDONMENT", "STEP_BY_STEP_ELIMINATION",
                   "SNAP_N_TEST", "UNCLASSIFIED"}
           /\ Shape(sg, level, direction) = "TRIAL_AND_ERROR" =>
                  level = "HIGH" /\ Rises(sg) # {} /\ Falls(sg) # {}
           /\ Shape(sg, level, direction) = "CODE_ABANDONMENT" => level \in {"MEDIUM", "HIGH"}
           /\ Shape(sg, level, direction) = "STEP_BY_STEP_ELIMINATION" =>
                  direction = "INCREASING" /\ FinalProgress(sg) >= 10
<1>1. Eliminates(sg, level, direction) => direction = "INCREASING" /\ FinalProgress(sg) >= 10
  BY ReportsTyped DEF Eliminates
<1>2. TriesAround(sg, level) => level = "HIGH" /\ Rises(sg) # {} /\ Falls(sg) # {}
  BY DEF TriesAround
<1>3. Abandons(sg, level) => level \in {"MEDIUM", "HIGH"}
  BY DEF Abandons
<1> QED
  BY <1>1, <1>2, <1>3 DEF Shape

\* The elimination rule wants ten points gained in a rising segment, and the
\* rule on development has taken every such segment before.
LEMMA CognitionRules ==
    ASSUME NEW sg \in Seq(Events), NEW time \in Int, NEW level, NEW direction, NEW c,
           c = ClassifyCognition(sg, time, level, FinalProgress(sg), direction)
    PROVE  /\ c \in Cognitions
           /\ c # "STEP_BY_STEP_ELIMINATION"
           /\ c = "LONG_TERM_STALLED_PROGRESS" => time >= StalledAfter /\ FinalProgress(sg) < 10
           /\ c = "DEVELOPMENT_STATIC_PROGRESS" => time >= StaticAfter
           /\ c = "TRIAL_AND_ERROR" => level = "HIGH" /\ Rises(sg) # {} /\ Falls(sg) # {}
           /\ c = "CODE_ABANDONMENT" => level \in {"MEDIUM", "HIGH"}
<1> DEFINE d == Development(time, level, FinalProgress(sg), direction)
           h == Shape(sg, level, direction)
<1>1. c = IF d # "UNCLASSIFIED" THEN d ELSE h
  BY DEF ClassifyCognition
<1>2. FinalProgress(sg) \in Nat
  BY ReportsTyped
<1>3. CASE d # "UNCLASSIFIED"
  BY <1>1, <1>2, <1>3, DevelopmentRules DEF Cognitions
<1>4. CASE d = "UNCLASSIFIED"
  <2>1. ~ (direction = "INCREASING" /\ FinalProgress(sg) >= 10)
    BY <1>2, <1>4, DevelopmentRules
  <2>2. c = h
    BY <1>1, <1>4
  <2> HIDE DEF d, h
  <2> QED
    BY <2>1, <2>2, ShapeRules DEF Cognitions, h
<1> QED
  BY <1>3, <1>4

LEMMA PersistenceRules ==
    ASSUME NEW time \in Int, NEW level, NEW progress \in Nat, NEW direction, NEW p,
           p = ClassifyPersistence(time, level, progress, direction)
    PROVE  /\ p \in Persistences
           /\ p = "EXPECTED_COMPLETION" => progress >= 50
           /\ p = "HIGH_PERSISTER" => time >= StalledAfter
           /\ p = "EARLY_QUITTER" => level = "LOW"
BY DEF ClassifyPersistence, Persistences

LEMMA ClassRules ==
    ASSUME NEW c \in Cognitions, NEW p \in Persistences, NEW S,
           S = DetermineFeedbackClass(c, p)
    PROVE  /\ S \in SUBSET FeedbackClasses
           /\ "NUDGE" \in S => c = "STEP_BY_STEP_ELIMINATION"
           /\ "HOW_TO" \in S => c = "TRIAL_AND_ERROR" /\ p = "EARLY_QUITTER"
           /\ "DIAGNOSE" \in S => c = "CODE_ABANDONMENT"
                                /\ p \in {"EXPECTED_COMPLETION", "EARLY_QUITTER"}
           /\ "ERROR_FLAGGING" \in S => c = "LONG_TERM_STALLED_PROGRESS"
           /\ "REASSURE" \in S => c = "DEVELOPMENT_STATIC_PROGRESS" \/ p = "HIGH_PERSISTER"
           /\ "EVIDENCE_BASED_PRAISE" \in S => c = "TRIAL_AND_ERROR"
                                             /\ p = "EXPECTED_COMPLETION"
BY DEF DetermineFeedbackClass, FeedbackClasses, Cognitions, Persistences

---------------------------------------------------------------------------
(* The analysis of one list. *)

LEMMA TimeTyped ==
    ASSUME NEW es \in Seq(Events), es # <<>>
    PROVE  TimeOnTask(Segment(es)) \in Int
<1> DEFINE sg == Segment(es)
<1>1. sg \in Seq(Events) /\ Len(sg) \in 1..Len(sg) /\ 1 \in 1..Len(sg)
  <2>1. Len(es) \in Nat /\ SegmentStart(es) \in 1..Len(es)
        /\ Len(sg) = Len(es) - SegmentStart(es) + 1 /\ sg \in Seq(Events)
    BY SegmentTyped
  <2>2. Len(sg) >= 1 /\ Len(sg) \in Nat
    BY <2>1
  <2> QED
    BY <2>1, <2>2
<1>2. sg[1].ts \in Nat /\ sg[Len(sg)].ts \in Nat
  <2> HIDE DEF sg
  <2>1. sg[1] \in Events /\ sg[Len(sg)] \in Events
    BY <1>1
  <2> QED
    BY <2>1 DEF Events
<1> QED
  BY <1>2 DEF TimeOnTask

LEMMA DirectionTyped ==
    ASSUME NEW sg
    PROVE  Direction(sg) \in Directions
<1> DEFINE R == Reports(sg)
           early == {i \in R : 2 * sg[i].ts <= sg[1].ts + sg[Len(sg)].ts}
           first == IF early = {} THEN {Min(R)} ELSE early
           second == IF early = R THEN {Max(R)} ELSE R \ early
           weight == Cardinality(first) * Cardinality(second)
           delta == Cardinality(first) * Total(sg, second) - Cardinality(second) * Total(sg, first)
<1>1. Direction(sg) = CASE R = {} -> "STATIC"
                        [] R # {} /\ delta >= 5 * weight -> "INCREASING"
                        [] R # {} /\ delta <= -5 * weight -> "DECREASING"
                        [] OTHER -> "STATIC"
  BY DEF Direction
<1> HIDE DEF R, weight, delta
<1> QED
  BY <1>1, Zenon DEF Directions

LEMMA LevelTyped ==
    ASSUME NEW n, NEW time
    PROVE  ActionLevel(n, time) \in Levels
BY Zenon DEF ActionLevel, Levels

LEMMA AnalysisFields ==
    ASSUME NEW es \in Seq(Events), es # <<>>
    PROVE  LET sg == Segment(es)
               s == AnalyzeCurrentState(es)
           IN /\ s.playground = Here(es)
              /\ s.time = TimeOnTask(sg)
              /\ s.level = ActionLevel(Len(sg), TimeOnTask(sg))
              /\ s.progress = FinalProgress(sg)
              /\ s.direction = Direction(sg)
              /\ s.cognition = ClassifyCognition(sg, TimeOnTask(sg), s.level, FinalProgress(sg),
                                                s.direction)
              /\ s.persistence = ClassifyPersistence(TimeOnTask(sg), s.level, FinalProgress(sg),
                                                    s.direction)
BY DEF AnalyzeCurrentState

LEMMA ClassesSound ==
    ASSUME NEW es \in Seq(Events), es # <<>>
    PROVE  LET sg == Segment(es)
               s == AnalyzeCurrentState(es)
               classes == PickClasses(s)
           IN /\ classes \in SUBSET FeedbackClasses /\ classes # {}
              /\ classes \cap {"NUDGE", "HOW_TO"} = {}
              /\ "DIAGNOSE" \in classes => s.persistence = "EXPECTED_COMPLETION"
              /\ "ERROR_FLAGGING" \in classes =>
                    TimeOnTask(sg) >= StalledAfter /\ FinalProgress(sg) < 10
              /\ "REASSURE" \in classes => TimeOnTask(sg) >= StaticAfter
              /\ "EVIDENCE_BASED_PRAISE" \in classes =>
                    Rises(sg) # {} /\ Falls(sg) # {} /\ FinalProgress(sg) >= 50
<1> DEFINE sg == Segment(es)
           s == AnalyzeCurrentState(es)
           D == DetermineFeedbackClass(s.cognition, s.persistence)
<1>1. sg \in Seq(Events)
  BY SegmentTyped
<1>2. TimeOnTask(sg) \in Int
  BY TimeTyped
<1>3. FinalProgress(sg) \in Nat
  BY <1>1, ReportsTyped
<1>4. /\ s.cognition \in Cognitions
      /\ s.cognition # "STEP_BY_STEP_ELIMINATION"
      /\ s.cognition = "LONG_TERM_STALLED_PROGRESS" =>
            TimeOnTask(sg) >= StalledAfter /\ FinalProgress(sg) < 10
      /\ s.cognition = "DEVELOPMENT_STATIC_PROGRESS" => TimeOnTask(sg) >= StaticAfter
      /\ s.cognition = "TRIAL_AND_ERROR" => s.level = "HIGH" /\ Rises(sg) # {} /\ Falls(sg) # {}
      /\ s.cognition = "CODE_ABANDONMENT" => s.level \in {"MEDIUM", "HIGH"}
  <2>1. s.cognition = ClassifyCognition(sg, TimeOnTask(sg), s.level, FinalProgress(sg), s.direction)
    BY AnalysisFields
  <2> HIDE DEF sg, s
  <2> QED
    BY <1>1, <1>2, <2>1, CognitionRules
<1>5. /\ s.persistence \in Persistences
      /\ s.persistence = "EXPECTED_COMPLETION" => FinalProgress(sg) >= 50
      /\ s.persistence = "HIGH_PERSISTER" => TimeOnTask(sg) >= StalledAfter
      /\ s.persistence = "EARLY_QUITTER" => s.level = "LOW"
  <2>1. s.persistence = ClassifyPersistence(TimeOnTask(sg), s.level, FinalProgress(sg), s.direction)
    BY AnalysisFields
  <2> HIDE DEF sg, s
  <2> QED
    BY <1>2, <1>3, <2>1, PersistenceRules
<1>6. /\ D \in SUBSET FeedbackClasses
      /\ "NUDGE" \in D => s.cognition = "STEP_BY_STEP_ELIMINATION"
      /\ "HOW_TO" \in D => s.cognition = "TRIAL_AND_ERROR" /\ s.persistence = "EARLY_QUITTER"
      /\ "DIAGNOSE" \in D => s.cognition = "CODE_ABANDONMENT"
                           /\ s.persistence \in {"EXPECTED_COMPLETION", "EARLY_QUITTER"}
      /\ "ERROR_FLAGGING" \in D => s.cognition = "LONG_TERM_STALLED_PROGRESS"
      /\ "REASSURE" \in D => s.cognition = "DEVELOPMENT_STATIC_PROGRESS"
                           \/ s.persistence = "HIGH_PERSISTER"
      /\ "EVIDENCE_BASED_PRAISE" \in D => s.cognition = "TRIAL_AND_ERROR"
                                        /\ s.persistence = "EXPECTED_COMPLETION"
  <2> HIDE DEF s
  <2> QED
    BY <1>4, <1>5, ClassRules
<1>7. PickClasses(s) = IF D = {} THEN {"QUESTION"} ELSE D
  BY DEF PickClasses
<1>8. StaticAfter \in Nat /\ StalledAfter \in Nat /\ StaticAfter <= StalledAfter
  BY MetricsAssumption
<1>9. "REASSURE" \in D => TimeOnTask(sg) >= StaticAfter
  <2> HIDE DEF sg, s, D
  <2> QED
    BY <1>2, <1>4, <1>5, <1>6, <1>8
<1>10. "QUESTION" \in FeedbackClasses
  BY DEF FeedbackClasses
<1> HIDE DEF sg, s, D
<1>11. CASE D = {}
  <2>1. PickClasses(s) = {"QUESTION"}
    BY <1>7, <1>11
  <2> QED
    BY <2>1, <1>10 DEF sg, s
<1>12. CASE D # {}
  <2>1. PickClasses(s) = D
    BY <1>7, <1>12
  <2> QED
    BY <2>1, <1>3, <1>4, <1>5, <1>6, <1>9, <1>12 DEF sg, s
<1> QED
  BY <1>11, <1>12

---------------------------------------------------------------------------
(* What the prompt is grounded in. *)

LEMMA NewestFrom ==
    ASSUME NEW n \in Nat, NEW S \in SUBSET (1..n), S # {}, NEW start \in 1..n
    PROVE  Max(S) >= start <=> \E i \in S : i >= start
<1>1. Max(S) \in S /\ \A i \in S : Max(S) >= i
  BY MaxPlace
<1>2. Max(S) \in 1..n
  BY <1>1
<1>3. ASSUME NEW i \in S, i >= start PROVE Max(S) >= start
  <2>1. Max(S) >= i /\ i \in 1..n
    BY <1>1
  <2> QED
    BY <1>2, <1>3, <2>1
<1> QED
  BY <1>1, <1>3

LEMMA Grounding ==
    ASSUME NEW es \in Seq(Events), es # <<>>
    PROVE  LET start == SegmentStart(es)
               runs == Projects(es) \cap Of(es, {"runProject"})
               reports == Reports(es) \cap start..Len(es)
           IN /\ ProgramShown(es) >= start <=>
                    \/ \E i \in runs : i >= start
                    \/ runs = {} /\ \E i \in Projects(es) : i >= start
              /\ MilestonesFrom(es) >= start <=>
                    \E i \in reports : es[i].data # NoParameters
              /\ FinalProgress(Segment(es)) =
                    IF reports = {} THEN 0
                    ELSE IF es[Max(reports)].data = NoParameters THEN 0
                    ELSE Progress(es[MilestonesFrom(es)].data)
<1> DEFINE start == SegmentStart(es)
           runs == Projects(es) \cap Of(es, {"runProject"})
           changes == Projects(es)
           P == {i \in DOMAIN es : es[i].data \in Parameters}
           reports == Reports(es) \cap start..Len(es)
           sg == Segment(es)
<1>1. Len(es) \in Nat /\ start \in 1..Len(es)
  BY SegmentTyped
<1>2. runs \in SUBSET (1..Len(es)) /\ changes \in SUBSET (1..Len(es))
  BY PlacesOf DEF Projects
<1>3. ProgramShown(es) >= start <=> \/ \E i \in runs : i >= start
                                    \/ runs = {} /\ \E i \in changes : i >= start
  <2>1. CASE runs # {}
    <3>1. ProgramShown(es) = Max(runs)
      BY <2>1 DEF ProgramShown
    <3> HIDE DEF runs, changes, start
    <3> QED
      BY <1>1, <1>2, <2>1, <3>1, NewestFrom
  <2>2. CASE runs = {} /\ changes # {}
    <3>1. ProgramShown(es) = Max(changes)
      BY <2>2 DEF ProgramShown
    <3> HIDE DEF runs, changes, start
    <3> QED
      BY <1>1, <1>2, <2>2, <3>1, NewestFrom
  <2>3. CASE runs = {} /\ changes = {}
    <3>1. ProgramShown(es) = 0
      BY <2>3 DEF ProgramShown
    <3>2. ~ (0 >= start)
      BY <1>1
    <3> HIDE DEF runs, changes, start
    <3> QED
      BY <2>3, <3>1, <3>2
  <2> QED
    BY <2>1, <2>2, <2>3
<1>4. /\ P \in SUBSET (1..Len(es))
      /\ P = {i \in Reports(es) : es[i].data # NoParameters}
  <2>1. ASSUME NEW i \in DOMAIN es
        PROVE  es[i].data \in Parameters <=>
                  es[i].data # NoData /\ es[i].data # NoParameters
    <3>1. es[i] \in Events
      BY <2>1
    <3>2. es[i].data \in Data \cup {NoData}
      BY <3>1 DEF Events
    <3> QED
      BY <3>2, MetricsAssumption DEF Data
  <2> QED
    BY <2>1 DEF Reports
<1>5. MilestonesFrom(es) >= start <=> \E i \in reports : es[i].data # NoParameters
  <2>1. (\E i \in P : i >= start) <=> \E i \in reports : es[i].data # NoParameters
    <3>1. \A i \in P : i \in 1..Len(es)
      BY <1>4
    <3>2. \A i \in reports : i >= start /\ i \in Reports(es)
      BY <1>1
    <3> QED
      BY <1>1, <1>4, <3>1, <3>2
  <2>2. CASE P # {}
    <3>1. MilestonesFrom(es) = Max(P)
      BY <2>2 DEF MilestonesFrom
    <3>2. Max(P) >= start <=> \E i \in P : i >= start
      <4> HIDE DEF P, start
      <4> QED
        BY <1>1, <1>4, <2>2, NewestFrom
    <3> QED
      BY <2>1, <3>1, <3>2
  <2>3. CASE P = {}
    <3>1. MilestonesFrom(es) = 0
      BY <2>3 DEF MilestonesFrom
    <3>2. ~ (0 >= start)
      BY <1>1
    <3> HIDE DEF P, start, reports
    <3> QED
      BY <2>1, <2>3, <3>1, <3>2
  <2> QED
    BY <2>2, <2>3
<1>6. CASE reports = {}
  <2>1. /\ sg \in Seq(Events) /\ Len(sg) \in Nat
        /\ Len(sg) = Len(es) - start + 1
        /\ \A i \in 1..Len(sg) : sg[i] = es[start + i - 1]
    BY SegmentTyped
  <2>2. Reports(sg) \in SUBSET (1..Len(sg))
    BY <2>1, ReportsTyped
  <2>3. ASSUME NEW i \in Reports(sg) PROVE FALSE
    <3>1. i \in 1..Len(sg) /\ sg[i].data # NoData
      BY <2>2, <2>3 DEF Reports
    <3>2. start + i - 1 \in start..Len(es) /\ start + i - 1 \in 1..Len(es)
      BY <1>1, <2>1, <3>1
    <3>3. start + i - 1 \in reports
      BY <2>1, <3>1, <3>2 DEF Reports
    <3> QED
      BY <1>6, <3>3
  <2>4. Reports(sg) = {}
    BY <2>3
  <2>5. FinalProgress(sg) = 0
    BY <2>4 DEF FinalProgress
  <2> HIDE DEF runs, changes, start, reports, sg
  <2> QED
    BY <1>3, <1>5, <1>6, <2>5 DEF runs, changes, start, reports, sg
<1>7. CASE reports # {}
  <2> DEFINE m == Max(reports)
  <2>1. reports \in SUBSET (1..Len(es))
    BY <1>1
  <2>2. m \in reports /\ \A i \in reports : m >= i
    <3> HIDE DEF reports
    <3> QED
      BY <1>1, <1>7, <2>1, MaxPlace
  <2>3. m \in 1..Len(es) /\ m >= start
    BY <1>1, <2>1, <2>2
  <2>4. FinalProgress(sg) = Progress(es[m].data)
    <3> DEFINE k == m - start + 1
               Q == Reports(sg)
    <3>1. /\ sg \in Seq(Events) /\ Len(sg) \in Nat
          /\ Len(sg) = Len(es) - start + 1
          /\ \A i \in 1..Len(sg) : sg[i] = es[start + i - 1]
      BY SegmentTyped
    <3>2. k \in 1..Len(sg) /\ start + k - 1 = m /\ k \in Int /\ m \in Int
      <4> HIDE DEF m
      <4> QED
        BY <1>1, <2>3, <3>1
    <3>3. sg[k] = es[m]
      BY <3>1, <3>2
    <3>4. k \in Q
      BY <2>2, <3>1, <3>2, <3>3 DEF Reports
    <3>5. Q \in SUBSET (1..Len(sg))
      BY <3>1, ReportsTyped
    <3>6. \A i \in Q : k >= i
      <4> SUFFICES ASSUME NEW i \in Q PROVE k >= i
        OBVIOUS
      <4>1. i \in 1..Len(sg) /\ sg[i].data # NoData
        BY <3>5 DEF Reports
      <4>2. start + i - 1 \in 1..Len(es) /\ start + i - 1 >= start /\ sg[i] = es[start + i - 1]
        BY <1>1, <3>1, <4>1
      <4>3. start + i - 1 \in reports
        BY <1>1, <4>1, <4>2 DEF Reports
      <4>4. m >= start + i - 1
        BY <2>2, <4>3
      <4>5. start \in Int /\ i \in Int
        BY <1>1, <4>1
      <4> HIDE DEF m
      <4> QED
        BY <3>2, <4>4, <4>5
    <3>7. Max(Q) \in Q /\ \A i \in Q : Max(Q) >= i
      <4> HIDE DEF Q
      <4> QED
        BY <3>1, <3>4, <3>5, MaxPlace
    <3>8. Max(Q) = k
      <4> HIDE DEF Q, k
      <4>1. k >= Max(Q) /\ Max(Q) >= k
        BY <3>4, <3>6, <3>7
      <4>2. Max(Q) \in 1..Len(sg)
        BY <3>5, <3>7
      <4> QED
        BY <3>1, <3>2, <4>1, <4>2
    <3> QED
      BY <3>3, <3>4, <3>8 DEF FinalProgress, ProgressAt
  <2>5. CASE es[m].data = NoParameters
    <3>1. Progress(es[m].data) = 0
      BY <2>5 DEF Progress
    <3> HIDE DEF runs, changes, start, reports, sg, m
    <3> QED
      BY <1>3, <1>5, <1>7, <2>4, <2>5, <3>1 DEF runs, changes, start, reports, sg, m
  <2>6. CASE es[m].data # NoParameters
    <3>1. MilestonesFrom(es) = m
      <4>1. es[m] \in Events /\ es[m].data # NoData
        BY <2>2, <2>3 DEF Reports
      <4>2. es[m].data \in Parameters
        BY <2>6, <4>1 DEF Events, Data
      <4>3. m \in P
        BY <2>3, <4>2
      <4>4. P \in SUBSET (1..Len(es))
        OBVIOUS
      <4>5. P \subseteq Reports(es)
        BY MetricsAssumption DEF Data, Reports
      <4>6. \A i \in P : m >= i
        <5> SUFFICES ASSUME NEW i \in P PROVE m >= i
          OBVIOUS
        <5>1. i \in 1..Len(es) /\ i \in Reports(es)
          BY <4>4, <4>5
        <5>2. CASE i >= start
          <6>1. i \in reports
            BY <1>1, <5>1, <5>2
          <6> QED
            BY <6>1, <2>2
        <5>3. CASE ~ (i >= start)
          <6> HIDE DEF m
          <6> QED
            BY <1>1, <2>3, <5>1, <5>3
        <5> QED
          BY <5>2, <5>3
      <4>7. Max(P) \in P /\ \A i \in P : Max(P) >= i
        <5> HIDE DEF P
        <5> QED
          BY <1>1, <4>3, <4>4, MaxPlace
      <4>8. Max(P) = m
        <5> HIDE DEF P, m
        <5>1. m >= Max(P) /\ Max(P) >= m
          BY <4>3, <4>6, <4>7
        <5>2. Max(P) \in 1..Len(es)
          BY <4>4, <4>7
        <5> QED
          BY <1>1, <2>3, <5>1, <5>2
      <4> QED
        BY <4>3, <4>8 DEF MilestonesFrom
    <3> HIDE DEF runs, changes, start, reports, sg, m
    <3> QED
      BY <1>3, <1>5, <1>7, <2>4, <2>6, <3>1 DEF runs, changes, start, reports, sg, m
  <2> QED
    BY <2>5, <2>6
<1> QED
  BY <1>6, <1>7

---------------------------------------------------------------------------
(* The list of a session stays ordered by time, and an older copy of it is *)
(* contained in it.                                                        *)

Sorted(es) == \A i, j \in 1..Len(es) : i <= j => es[i].ts <= es[j].ts

Embedded(old, new) ==
    /\ ToSet(old) \subseteq ToSet(new)
    /\ Len(old) <= Len(new)
    /\ Len(old) = Len(new) => old = new

LEMMA SnapshotTyped ==
    ASSUME NEW es \in Seq(Events), es # <<>>, Sorted(es)
    PROVE  AnalyzeCurrentState(es) \in Snapshots
<1> DEFINE sg == Segment(es)
           start == SegmentStart(es)
           time == TimeOnTask(sg)
           level == ActionLevel(Len(sg), time)
           progress == FinalProgress(sg)
           direction == Direction(sg)
<1>1. /\ sg \in Seq(Events) /\ Len(es) \in Nat /\ start \in 1..Len(es)
      /\ Len(sg) = Len(es) - start + 1
      /\ \A i \in 1..Len(sg) : sg[i] = es[start + i - 1]
  BY SegmentTyped
<1>2. time \in Nat
  <2>1. 1 \in 1..Len(sg) /\ Len(sg) \in 1..Len(sg) /\ start + 1 - 1 = start
        /\ start + Len(sg) - 1 = Len(es)
    BY <1>1
  <2>2. sg[1] = es[start] /\ sg[Len(sg)] = es[Len(es)]
    <3>1. sg[1] = es[start + 1 - 1] /\ sg[Len(sg)] = es[start + Len(sg) - 1]
      BY <1>1, <2>1
    <3> QED
      BY <2>1, <3>1
  <2>3. Len(es) \in 1..Len(es) /\ start <= Len(es)
    BY <1>1
  <2>4. es[start].ts <= es[Len(es)].ts
    BY <1>1, <2>3 DEF Sorted
  <2>5. es[start] \in Events /\ es[Len(es)] \in Events
    BY <1>1, <2>3
  <2>6. es[start].ts \in Nat /\ es[Len(es)].ts \in Nat
    BY <2>5 DEF Events
  <2>7. time = es[Len(es)].ts - es[start].ts
    BY <2>2 DEF TimeOnTask
  <2> HIDE DEF time, start
  <2> QED
    BY <2>4, <2>6, <2>7
<1>3. Here(es) \in {GoMars} \cup Elsewhere
  <2>1. es[Len(es)] \in Events
    BY <1>1
  <2> QED
    BY <2>1 DEF Here, Events
<1>4. level \in Levels
  BY LevelTyped
<1>5. progress \in Nat
  BY <1>1, ReportsTyped
<1>6. direction \in Directions
  BY DirectionTyped
<1>7. ClassifyCognition(sg, time, level, progress, direction) \in Cognitions
  <2>1. time \in Int
    BY <1>2
  <2> HIDE DEF sg, time, level, direction
  <2> QED
    BY <1>1, <2>1, CognitionRules
<1>8. ClassifyPersistence(time, level, progress, direction) \in Persistences
  <2>1. time \in Int
    BY <1>2
  <2> HIDE DEF sg, time, level, progress, direction
  <2> QED
    BY <1>5, <2>1, PersistenceRules
<1>9. AnalyzeCurrentState(es) =
        [playground |-> Here(es), time |-> time, level |-> level, progress |-> progress,
         direction |-> direction,
         cognition |-> ClassifyCognition(sg, time, level, progress, direction),
         persistence |-> ClassifyPersistence(time, level, progress, direction)]
  BY DEF AnalyzeCurrentState
<1> HIDE DEF sg, time, level, progress, direction
<1> QED
  BY <1>2, <1>3, <1>4, <1>5, <1>6, <1>7, <1>8, <1>9 DEF Snapshots

LEMMA EmbeddedReflexive ==
    ASSUME NEW s \in Seq(Events)
    PROVE  Embedded(s, s)
BY DEF Embedded

LEMMA EmbeddedTransitive ==
    ASSUME NEW s \in Seq(Events), NEW t \in Seq(Events), NEW u \in Seq(Events),
           Embedded(s, t), Embedded(t, u)
    PROVE  Embedded(s, u)
BY DEF Embedded

LEMMA Insertion ==
    ASSUME NEW s \in Seq(Events), NEW e \in Events, NEW k \in 0..Len(s)
    PROVE  LET t == SubSeq(s, 1, k) \o <<e>> \o SubSeq(s, k + 1, Len(s))
           IN /\ t \in Seq(Events)
              /\ Len(t) = Len(s) + 1
              /\ \A i \in 1..k : t[i] = s[i]
              /\ t[k + 1] = e
              /\ \A i \in (k + 2)..Len(t) : t[i] = s[i - 1]
<1> DEFINE t == SubSeq(s, 1, k) \o <<e>> \o SubSeq(s, k + 1, Len(s))
           a == SubSeq(s, 1, k)
           b == SubSeq(s, k + 1, Len(s))
           c == a \o <<e>>
<1>1. k \in Nat /\ Len(s) \in Nat /\ k <= Len(s) /\ k + 1 \in Int /\ 1 \in Int
  OBVIOUS
<1>2. (\A i \in 1..k : s[i] \in Events) /\ (\A i \in (k + 1)..Len(s) : s[i] \in Events)
  BY <1>1
<1>3. a \in Seq(Events) /\ Len(a) = k /\ \A i \in 1..k : a[i] = s[i]
  <2>1. /\ a \in Seq(Events)
        /\ Len(a) = IF 1 <= k THEN k - 1 + 1 ELSE 0
        /\ \A i \in 1..(k - 1 + 1) : a[i] = s[1 + i - 1]
    BY <1>1, <1>2, SubSeqProperties
  <2> QED
    BY <1>1, <2>1
<1>4. b \in Seq(Events) /\ Len(b) = Len(s) - k /\ \A i \in 1..(Len(s) - k) : b[i] = s[k + i]
  <2>1. /\ b \in Seq(Events)
        /\ Len(b) = IF k + 1 <= Len(s) THEN Len(s) - (k + 1) + 1 ELSE 0
        /\ \A i \in 1..(Len(s) - (k + 1) + 1) : b[i] = s[k + 1 + i - 1]
    BY <1>1, <1>2, SubSeqProperties
  <2> QED
    BY <1>1, <2>1
<1>5. <<e>> \in Seq(Events) /\ Len(<<e>>) = 1 /\ <<e>>[1] = e
  OBVIOUS
<1> HIDE DEF a, b, t, c
<1>6. /\ c \in Seq(Events) /\ Len(c) = k + 1
      /\ \A i \in 1..(k + 1) : c[i] = IF i <= k THEN a[i] ELSE <<e>>[i - k]
  BY <1>1, <1>3, <1>5, ConcatProperties DEF c
<1>7. t = c \o b
  BY DEF a, b, c, t
<1>8. /\ t \in Seq(Events) /\ Len(t) = (k + 1) + (Len(s) - k)
      /\ \A i \in 1..((k + 1) + (Len(s) - k)) :
            t[i] = IF i <= k + 1 THEN c[i] ELSE b[i - (k + 1)]
  <2>1. /\ c \o b \in Seq(Events) /\ Len(c \o b) = Len(c) + Len(b)
        /\ \A i \in 1..(Len(c) + Len(b)) :
              (c \o b)[i] = IF i <= Len(c) THEN c[i] ELSE b[i - Len(c)]
    BY <1>4, <1>6, ConcatProperties
  <2> QED
    BY <1>4, <1>6, <1>7, <2>1
<1>9. Len(t) = Len(s) + 1
  BY <1>1, <1>8
<1>10. ASSUME NEW i \in 1..k PROVE t[i] = s[i]
  <2>1. i <= k /\ i <= k + 1 /\ i \in 1..(k + 1) /\ i \in 1..((k + 1) + (Len(s) - k))
    BY <1>1
  <2> QED
    BY <1>3, <1>6, <1>8, <2>1
<1>11. t[k + 1] = e
  <2>1. t[k + 1] = c[k + 1]
    BY <1>1, <1>8
  <2>2. c[k + 1] = <<e>>[k + 1 - k] /\ k + 1 - k = 1
    BY <1>1, <1>6
  <2> QED
    BY <1>5, <2>1, <2>2
<1>12. ASSUME NEW i \in (k + 2)..Len(t) PROVE t[i] = s[i - 1]
  <2>1. i - (k + 1) \in 1..(Len(s) - k) /\ k + (i - (k + 1)) = i - 1 /\ ~ (i <= k + 1)
    BY <1>1, <1>9
  <2>2. t[i] = b[i - (k + 1)]
    BY <1>1, <1>8, <1>9, <2>1
  <2> QED
    BY <1>4, <2>1, <2>2
<1> QED
  BY <1>8, <1>9, <1>10, <1>11, <1>12 DEF t

\* The events that are not later than ts are the first ones of the list.
LEMMA Place ==
    ASSUME NEW s \in Seq(Events), Sorted(s), NEW ts \in Nat
    PROVE  LET L == {i \in DOMAIN s : s[i].ts <= ts}
           IN Cardinality(L) \in 0..Len(s) /\ L = 1..Cardinality(L)
<1> DEFINE L == {i \in DOMAIN s : s[i].ts <= ts}
<1>1. Len(s) \in Nat /\ L \in SUBSET (1..Len(s))
  OBVIOUS
<1>2. CASE L = {}
  <2>1. Cardinality(L) = 0
    BY <1>2, FS_EmptySet
  <2>2. 1..0 = {}
    OBVIOUS
  <2>3. 0 \in 0..Len(s)
    BY <1>1
  <2> HIDE DEF L
  <2>4. Cardinality(L) \in 0..Len(s) /\ L = 1..Cardinality(L)
    BY <1>2, <2>1, <2>2, <2>3, Zenon
  <2> QED
    BY <2>4 DEF L
<1>3. CASE L # {}
  <2> DEFINE m == Max(L)
  <2>1. m \in L /\ \A i \in L : m >= i
    <3> HIDE DEF L
    <3> QED
      BY <1>1, <1>3, MaxPlace
  <2>2. m \in 1..Len(s)
    BY <1>1, <2>1
  <2>3. ASSUME NEW i \in 1..m PROVE i \in L
    <3>1. i \in 1..Len(s) /\ i <= m
      BY <1>1, <2>2
    <3>2. s[i].ts <= s[m].ts
      BY <2>2, <3>1 DEF Sorted
    <3>3. s[i] \in Events /\ s[m] \in Events
      BY <2>2, <3>1
    <3>4. s[i].ts \in Nat /\ s[m].ts \in Nat /\ s[m].ts <= ts
      BY <2>1, <3>3 DEF Events
    <3>5. s[i].ts <= ts
      <4> HIDE DEF m
      <4> QED
        BY <3>2, <3>4
    <3> QED
      BY <3>1, <3>5
  <2>4. ASSUME NEW i \in L PROVE i \in 1..m
    BY <1>1, <2>1, <2>2
  <2>5. L = 1..m
    <3> HIDE DEF L, m
    <3> QED
      BY <2>3, <2>4
  <2>6. Cardinality(1..m) = m
    <3>1. m \in Int /\ 1 \in Int /\ m >= 1
      BY <2>2
    <3>2. Cardinality(1..m) = IF 1 > m THEN 0 ELSE m - 1 + 1
      <4> HIDE DEF m
      <4> QED
        BY <3>1, FS_Interval
    <3> HIDE DEF m
    <3> QED
      BY <3>1, <3>2
  <2>7. Cardinality(L) = m
    <3> HIDE DEF L, m
    <3> QED
      BY <2>5, <2>6
  <2>8. m \in 0..Len(s)
    <3> HIDE DEF m
    <3> QED
      BY <1>1, <2>2
  <2> HIDE DEF L, m
  <2> QED
    BY <2>5, <2>7, <2>8 DEF L
<1> QED
  BY <1>2, <1>3

LEMMA InsertionKeepsOrder ==
    ASSUME NEW s \in Seq(Events), Sorted(s), NEW e \in Events, NEW t \in Seq(Events),
           NEW k \in 0..Len(s),
           {i \in DOMAIN s : s[i].ts <= e.ts} = 1..k,
           Len(t) = Len(s) + 1,
           \A i \in 1..k : t[i] = s[i],
           t[k + 1] = e,
           \A i \in (k + 2)..Len(t) : t[i] = s[i - 1]
    PROVE  Sorted(t) /\ Embedded(s, t)
<1>1. k \in Nat /\ Len(s) \in Nat /\ k <= Len(s) /\ Len(t) \in Nat
  OBVIOUS
<1>2. ASSUME NEW i \in 1..Len(t) PROVE i \in 1..k \/ i = k + 1 \/ i \in (k + 2)..Len(t)
  BY <1>1
<1>3. ASSUME NEW i \in (k + 2)..Len(t)
      PROVE  i - 1 \in 1..Len(s) /\ i - 1 > k /\ i - 1 \notin 1..k
  BY <1>1
<1>4. ASSUME NEW i \in 1..k PROVE i \in 1..Len(s) /\ s[i].ts <= e.ts
  BY <1>1
<1>5. e.ts \in Nat /\ \A i \in 1..Len(s) : s[i].ts \in Nat
  <2>1. e.ts \in Nat
    BY DEF Events
  <2>2. ASSUME NEW i \in 1..Len(s) PROVE s[i].ts \in Nat
    <3>1. s[i] \in Events
      OBVIOUS
    <3> QED
      BY <3>1 DEF Events
  <2> QED
    BY <2>1, <2>2
<1>6. ASSUME NEW i \in (k + 2)..Len(t) PROVE e.ts <= s[i - 1].ts
  <2>1. i - 1 \in 1..Len(s) /\ i - 1 \notin 1..k
    BY <1>3
  <2>2. ~ (s[i - 1].ts <= e.ts)
    BY <2>1
  <2> QED
    BY <1>5, <2>1, <2>2
<1>7. Sorted(t)
  <2> SUFFICES ASSUME NEW i \in 1..Len(t), NEW j \in 1..Len(t), i <= j
               PROVE  t[i].ts <= t[j].ts
    BY DEF Sorted
  <2>1. CASE i \in 1..k /\ j \in 1..k
    BY <1>4, <2>1 DEF Sorted
  <2>2. CASE i \in 1..k /\ j = k + 1
    BY <1>4, <2>2
  <2>3. CASE i \in 1..k /\ j \in (k + 2)..Len(t)
    <3>1. i \in 1..Len(s) /\ j - 1 \in 1..Len(s) /\ i <= j - 1
      BY <1>1, <1>3, <1>4, <2>3
    <3>2. t[i] = s[i] /\ t[j] = s[j - 1]
      BY <2>3
    <3> QED
      BY <3>1, <3>2 DEF Sorted
  <2>4. CASE i = k + 1 /\ j = k + 1
    BY <1>5, <2>4
  <2>5. CASE i = k + 1 /\ j \in (k + 2)..Len(t)
    <3>1. t[i] = e /\ t[j] = s[j - 1]
      BY <2>5
    <3> QED
      BY <1>6, <2>5, <3>1
  <2>6. CASE i \in (k + 2)..Len(t) /\ j \in (k + 2)..Len(t)
    <3>1. i - 1 \in 1..Len(s) /\ j - 1 \in 1..Len(s) /\ i - 1 <= j - 1
      BY <1>1, <1>3, <2>6
    <3>2. t[i] = s[i - 1] /\ t[j] = s[j - 1]
      BY <2>6
    <3> QED
      BY <3>1, <3>2 DEF Sorted
  <2>7. \/ i \in 1..k /\ j \in 1..k
        \/ i \in 1..k /\ j = k + 1
        \/ i \in 1..k /\ j \in (k + 2)..Len(t)
        \/ i = k + 1 /\ j = k + 1
        \/ i = k + 1 /\ j \in (k + 2)..Len(t)
        \/ i \in (k + 2)..Len(t) /\ j \in (k + 2)..Len(t)
    BY <1>1
  <2> QED
    BY <2>1, <2>2, <2>3, <2>4, <2>5, <2>6, <2>7
<1>8. ASSUME NEW i \in 1..Len(s) PROVE \E j \in 1..Len(t) : t[j] = s[i]
  <2>1. CASE i \in 1..k
    <3>1. i \in 1..Len(t) /\ t[i] = s[i]
      BY <1>1, <2>1
    <3> QED
      BY <3>1
  <2>2. CASE i \notin 1..k
    <3>1. i + 1 \in (k + 2)..Len(t) /\ i + 1 \in 1..Len(t) /\ i + 1 - 1 = i
      BY <1>1, <2>2
    <3>2. t[i + 1] = s[i + 1 - 1]
      BY <3>1
    <3> QED
      BY <3>1, <3>2
  <2> QED
    BY <2>1, <2>2
<1>9. DOMAIN s = 1..Len(s) /\ DOMAIN t = 1..Len(t)
  OBVIOUS
<1>10. ToSet(s) \subseteq ToSet(t)
  <2>1. ASSUME NEW x \in ToSet(s) PROVE x \in ToSet(t)
    <3>1. PICK i \in 1..Len(s) : x = s[i]
      BY <1>9, Zenon DEF ToSet
    <3>2. PICK j \in 1..Len(t) : t[j] = s[i]
      BY <1>8
    <3> QED
      BY <1>9, <3>1, <3>2, Zenon DEF ToSet
  <2> QED
    BY <2>1
<1> QED
  BY <1>1, <1>7, <1>10 DEF Embedded

---------------------------------------------------------------------------
(* The inductive invariant: what a request has read is contained in what   *)
(* is stored, its second list contains its first, and everything it has    *)
(* derived is derived from the second.                                     *)

Sound(q, now) ==
    /\ q.pc \in {"analyze", "save", "feedback"} =>
          q.events # <<>> /\ Embedded(q.events, now)
    /\ q.pc \in {"save", "feedback"} =>
          /\ q.fetched # <<>>
          /\ q.snapshot = AnalyzeCurrentState(q.fetched)
          /\ Embedded(q.events, q.fetched)
    /\ q.pc = "feedback" => q.classes = PickClasses(q.snapshot)

PolicyInv ==
    /\ TypeOK
    /\ Sorted(stored)
    /\ \A r \in Requests : Sound(request[r], stored)

LEMMA NoSnapshotTyped == NoSnapshot \in Snapshots
BY DEF NoSnapshot, Snapshots, Levels, Directions, Cognitions, Persistences

LEMMA InitHolds == Init => PolicyInv
<1> SUFFICES ASSUME Init PROVE PolicyInv
  OBVIOUS
<1>1. NewRequest \in RequestStates /\ NewRequest.pc = "start"
  BY NoSnapshotTyped DEF NewRequest, RequestStates, Pcs
<1>2. TypeOK
  BY <1>1, NoSnapshotTyped DEF Init, TypeOK
<1>3. Sorted(stored)
  BY DEF Init, Sorted
<1>4. \A r \in Requests : Sound(request[r], stored)
  BY <1>1 DEF Init, Sound
<1> QED
  BY <1>2, <1>3, <1>4 DEF PolicyInv

LEMMA OneMoves ==
    ASSUME PolicyInv, NEW r \in Requests, NEW q \in RequestStates, Become(r, q),
           q.pc = "feedback" => q.classes # {},
           Sound(q, stored), stored' = stored, row' \in Snapshots, faults' \in Nat
    PROVE  PolicyInv'
<1>1. \A x \in Requests : request'[x] = IF x = r THEN q ELSE request[x]
  BY DEF PolicyInv, TypeOK, Become
<1>2. request' \in [Requests -> RequestStates]
  BY DEF PolicyInv, TypeOK, Become
<1>3. \A x \in Requests : request'[x].pc = "feedback" => request'[x].classes # {}
  BY <1>1 DEF PolicyInv, TypeOK
<1>4. TypeOK'
  BY <1>2, <1>3 DEF PolicyInv, TypeOK
<1>5. \A x \in Requests : Sound(request'[x], stored)
  BY <1>1 DEF PolicyInv
<1>6. \A x \in Requests : Sound(request[x], stored)'
  BY <1>5, Zenon DEF Sound
<1>7. Sorted(stored)'
  BY Zenon DEF PolicyInv, Sorted
<1> QED
  BY <1>4, <1>6, <1>7 DEF PolicyInv

LEMMA StoreEventStep ==
    ASSUME PolicyInv, NEW a \in Arrivals, NEW ts \in 0..MaxTime, StoreEvent(a, ts)
    PROVE  PolicyInv'
<1> DEFINE e == [ts |-> ts, type |-> a.type, playground |-> a.playground,
                 data |-> a.data, project |-> a.project, pause |-> a.pause]
           k == Cardinality({i \in DOMAIN stored : stored[i].ts <= ts})
<1>1. stored \in Seq(Events) /\ Sorted(stored)
  BY DEF PolicyInv, TypeOK
<1>2. MaxTime \in Nat /\ ts \in Nat
  BY PolicyAssumption
<1>3. e \in Events
  BY <1>2, PolicyAssumption DEF Events
<1>4. k \in 0..Len(stored) /\ {i \in DOMAIN stored : stored[i].ts <= ts} = 1..k
  BY <1>1, <1>2, Place
<1>5. stored' = SubSeq(stored, 1, k) \o <<e>> \o SubSeq(stored, k + 1, Len(stored))
  BY DEF StoreEvent
<1>6. PICK t : t = stored'
  OBVIOUS
<1>7. e.ts = ts
  OBVIOUS
<1> HIDE DEF e, k
<1>8. /\ t \in Seq(Events)
      /\ Len(t) = Len(stored) + 1
      /\ \A i \in 1..k : t[i] = stored[i]
      /\ t[k + 1] = e
      /\ \A i \in (k + 2)..Len(t) : t[i] = stored[i - 1]
  <2>1. t = SubSeq(stored, 1, k) \o <<e>> \o SubSeq(stored, k + 1, Len(stored))
    BY <1>5, <1>6
  <2> QED
    BY <1>1, <1>3, <1>4, <2>1, Insertion
<1>9. Sorted(t) /\ Embedded(stored, t)
  <2>1. {i \in DOMAIN stored : stored[i].ts <= e.ts} = 1..k
    BY <1>4, <1>7
  <2> QED
    BY <1>1, <1>3, <1>4, <1>8, <2>1, InsertionKeepsOrder
<1>10. request' = request /\ row' = row /\ faults' = faults
  BY DEF StoreEvent
<1>11. TypeOK'
  BY <1>6, <1>8, <1>10 DEF PolicyInv, TypeOK
<1>12. ASSUME NEW r \in Requests PROVE Sound(request[r], t)
  <2>1. Sound(request[r], stored) /\ request[r].events \in Seq(Events)
    BY DEF PolicyInv, TypeOK, RequestStates
  <2>2. request[r].pc \in {"analyze", "save", "feedback"} => Embedded(request[r].events, t)
    BY <1>1, <1>8, <1>9, <2>1, EmbeddedTransitive DEF Sound
  <2> QED
    BY <2>1, <2>2 DEF Sound
<1>13. \A r \in Requests : Sound(request[r], stored)'
  BY <1>6, <1>10, <1>12, Zenon DEF Sound
<1>14. Sorted(stored)'
  BY <1>6, <1>9, Zenon DEF Sorted
<1> QED
  BY <1>11, <1>13, <1>14 DEF PolicyInv

LEMMA FetchEventsStep ==
    ASSUME PolicyInv, NEW r \in Requests, FetchEvents(r)
    PROVE  PolicyInv'
<1>1. PICK pc \in Pcs :
        /\ Become(r, [request[r] EXCEPT !.events = stored, !.pc = pc])
        /\ pc \notin {"start", "save", "feedback"}
        /\ pc = "analyze" => stored # <<>>
  BY DEF FetchEvents, Pcs
<1> DEFINE q == [request[r] EXCEPT !.events = stored, !.pc = pc]
<1>2. request[r] \in RequestStates /\ stored \in Seq(Events)
  BY DEF PolicyInv, TypeOK
<1>3. q \in RequestStates /\ q.pc = pc /\ q.events = stored
  BY <1>2 DEF RequestStates
<1>4. Sound(q, stored)
  <2>1. Embedded(stored, stored)
    BY <1>2, EmbeddedReflexive
  <2> HIDE DEF q
  <2> QED
    BY <1>1, <1>3, <2>1 DEF Sound
<1>5. stored' = stored /\ row' \in Snapshots /\ faults' \in Nat
  BY DEF FetchEvents, PolicyInv, TypeOK
<1>6. Become(r, q) /\ q.pc # "feedback"
  BY <1>1, <1>3
<1> HIDE DEF q
<1> QED
  BY <1>3, <1>4, <1>5, <1>6, OneMoves

LEMMA ComputeSnapshotStep ==
    ASSUME PolicyInv, NEW r \in Requests, ComputeSnapshot(r)
    PROVE  PolicyInv'
<1>1. request[r] \in RequestStates /\ stored \in Seq(Events) /\ Sorted(stored)
      /\ Sound(request[r], stored) /\ request[r].pc = "analyze"
  BY DEF PolicyInv, TypeOK, ComputeSnapshot
<1>2. stored' = stored /\ row' \in Snapshots /\ faults' \in Nat
  BY DEF ComputeSnapshot, PolicyInv, TypeOK
<1>3. CASE Analyzable(stored)
  <2> DEFINE q == [request[r] EXCEPT !.pc = "save", !.fetched = stored,
                                     !.snapshot = AnalyzeCurrentState(stored)]
  <2>1. Become(r, q)
    BY <1>3 DEF ComputeSnapshot
  <2>2. stored # <<>>
    BY <1>3 DEF Analyzable
  <2>3. AnalyzeCurrentState(stored) \in Snapshots
    BY <1>1, <2>2, SnapshotTyped
  <2>4. /\ q \in RequestStates /\ q.pc = "save" /\ q.fetched = stored
        /\ q.snapshot = AnalyzeCurrentState(stored) /\ q.events = request[r].events
    BY <1>1, <2>3 DEF RequestStates, Pcs
  <2> HIDE DEF q
  <2>5. Sound(q, stored)
    BY <1>1, <2>2, <2>4 DEF Sound
  <2> QED
    BY <1>2, <2>1, <2>4, <2>5, OneMoves
<1>4. CASE ~ Analyzable(stored)
  <2> DEFINE q == [request[r] EXCEPT !.pc = "failed"]
  <2>1. Become(r, q)
    BY <1>4 DEF ComputeSnapshot
  <2>2. q \in RequestStates /\ q.pc = "failed" /\ q.events = request[r].events
    BY <1>1 DEF RequestStates, Pcs
  <2> HIDE DEF q
  <2>3. Sound(q, stored)
    BY <1>1, <2>2 DEF Sound
  <2> QED
    BY <1>2, <2>1, <2>2, <2>3, OneMoves
<1> QED
  BY <1>3, <1>4

LEMMA SaveSnapshotStep ==
    ASSUME PolicyInv, NEW r \in Requests, SaveSnapshot(r)
    PROVE  PolicyInv'
<1> DEFINE q == [request[r] EXCEPT !.pc = "feedback",
                                   !.classes = PickClasses(request[r].snapshot)]
<1>1. request[r] \in RequestStates /\ Sound(request[r], stored) /\ request[r].pc = "save"
  BY DEF PolicyInv, TypeOK, SaveSnapshot
<1>2. stored' = stored /\ row' \in Snapshots /\ faults' \in Nat
  BY <1>1 DEF SaveSnapshot, PolicyInv, TypeOK, RequestStates
<1>3. Become(r, q)
  BY DEF SaveSnapshot
<1>4. PickClasses(request[r].snapshot) \in SUBSET FeedbackClasses
      /\ PickClasses(request[r].snapshot) # {}
  <2>1. request[r].fetched \in Seq(Events) /\ request[r].fetched # <<>>
        /\ request[r].snapshot = AnalyzeCurrentState(request[r].fetched)
    BY <1>1 DEF Sound, RequestStates
  <2> QED
    BY <2>1, ClassesSound
<1>5. /\ q \in RequestStates /\ q.pc = "feedback" /\ q.events = request[r].events
      /\ q.fetched = request[r].fetched /\ q.snapshot = request[r].snapshot
      /\ q.classes = PickClasses(request[r].snapshot)
  BY <1>1, <1>4 DEF RequestStates, Pcs
<1> HIDE DEF q
<1>6. Sound(q, stored)
  BY <1>1, <1>5 DEF Sound
<1> QED
  BY <1>2, <1>3, <1>4, <1>5, <1>6, OneMoves

LEMMA RequestFailsStep ==
    ASSUME PolicyInv, NEW r \in Requests, RequestFails(r)
    PROVE  PolicyInv'
<1> DEFINE q == [request[r] EXCEPT !.pc = "failed"]
<1>1. request[r] \in RequestStates /\ stored \in Seq(Events) /\ Sound(request[r], stored)
  BY DEF PolicyInv, TypeOK
<1>2. stored' = stored /\ row' \in Snapshots /\ faults' \in Nat
  BY DEF RequestFails, PolicyInv, TypeOK
<1>3. Become(r, q)
  BY DEF RequestFails
<1>4. q \in RequestStates /\ q.pc = "failed" /\ q.events = request[r].events
  BY <1>1 DEF RequestStates, Pcs
<1> HIDE DEF q
<1>5. Sound(q, stored)
  BY <1>1, <1>4 DEF Sound
<1> QED
  BY <1>2, <1>3, <1>4, <1>5, OneMoves

LEMMA StepHolds == PolicyInv /\ [Next]_vars => PolicyInv'
<1> SUFFICES ASSUME PolicyInv, [Next]_vars PROVE PolicyInv'
  OBVIOUS
<1>1. ASSUME NEW a \in Arrivals, NEW ts \in 0..MaxTime, StoreEvent(a, ts) PROVE PolicyInv'
  BY <1>1, StoreEventStep
<1>2. ASSUME NEW r \in Requests, FetchEvents(r) PROVE PolicyInv'
  BY <1>2, FetchEventsStep
<1>3. ASSUME NEW r \in Requests, ComputeSnapshot(r) PROVE PolicyInv'
  BY <1>3, ComputeSnapshotStep
<1>4. ASSUME NEW r \in Requests, SaveSnapshot(r) PROVE PolicyInv'
  BY <1>4, SaveSnapshotStep
<1>5. ASSUME NEW r \in Requests, RequestFails(r) PROVE PolicyInv'
  BY <1>5, RequestFailsStep
<1>6. CASE UNCHANGED vars
  <2>1. stored' = stored /\ request' = request /\ row' = row /\ faults' = faults
    BY <1>6 DEF vars
  <2>2. TypeOK'
    BY <2>1 DEF PolicyInv, TypeOK
  <2>3. Sorted(stored)'
    BY <2>1, Zenon DEF PolicyInv, Sorted
  <2>4. \A r \in Requests : Sound(request[r], stored)'
    BY <2>1, Zenon DEF PolicyInv, Sound
  <2> QED
    BY <2>2, <2>3, <2>4 DEF PolicyInv
<1> QED
  BY <1>1, <1>2, <1>3, <1>4, <1>5, <1>6 DEF Next

LEMMA Invariance == Spec => []PolicyInv
BY InitHolds, StepHolds, PTL DEF Spec

---------------------------------------------------------------------------
(* The theorems. *)

LEMMA Ready ==
    ASSUME PolicyInv, NEW r \in Requests, Answered(r)
    PROVE  /\ request[r].events \in Seq(Events) /\ request[r].events # <<>>
           /\ request[r].fetched \in Seq(Events) /\ request[r].fetched # <<>>
           /\ request[r].snapshot = AnalyzeCurrentState(request[r].fetched)
           /\ request[r].classes = PickClasses(AnalyzeCurrentState(request[r].fetched))
           /\ Embedded(request[r].events, request[r].fetched)
<1>1. request[r] \in RequestStates /\ Sound(request[r], stored) /\ request[r].pc = "feedback"
  BY DEF PolicyInv, TypeOK, Answered
<1> QED
  BY <1>1 DEF Sound, RequestStates

\* The variables keep their types: in particular no segment lasts a negative
\* time, whatever order the events arrive in, and every answered request has a
\* class.
THEOREM TypeCorrect == Spec => []TypeOK
<1>1. PolicyInv => TypeOK
  BY DEF PolicyInv
<1> QED
  BY <1>1, Invariance, PTL

\* A nudge and a how-to are never given, whatever the thresholds on time: the
\* rules for them in feedback_policy.py:66-87 cannot be reached.
THEOREM RulesNeverReached == Spec => []DeadClasses
<1>1. PolicyInv => DeadClasses
  <2> SUFFICES ASSUME PolicyInv, NEW r \in Requests, Answered(r)
               PROVE  /\ request[r].classes \cap {"NUDGE", "HOW_TO"} = {}
                      /\ "DIAGNOSE" \in request[r].classes =>
                            request[r].snapshot.persistence = "EXPECTED_COMPLETION"
    BY DEF DeadClasses
  <2> QED
    BY Ready, ClassesSound
<1> QED
  BY <1>1, Invariance, PTL

\* What a class says of the student is so in the list it was chosen from.
THEOREM ClassesTrue == Spec => []ClassesGrounded
<1>1. PolicyInv => ClassesGrounded
  <2> SUFFICES ASSUME PolicyInv, NEW r \in Requests, Answered(r)
               PROVE  LET sg == Segment(request[r].fetched)
                          classes == request[r].classes
                      IN /\ "ERROR_FLAGGING" \in classes =>
                               TimeOnTask(sg) >= StalledAfter /\ FinalProgress(sg) < 10
                         /\ "REASSURE" \in classes => TimeOnTask(sg) >= StaticAfter
                         /\ "EVIDENCE_BASED_PRAISE" \in classes =>
                               Rises(sg) # {} /\ Falls(sg) # {} /\ FinalProgress(sg) >= 50
    BY DEF ClassesGrounded
  <2> QED
    BY Ready, ClassesSound
<1> QED
  BY <1>1, Invariance, PTL

\* The list the policy decides on contains the one the prompt is written from,
\* and is the same when it is as long.
THEOREM PolicyNotBehindPrompt == Spec => []PolicyFollowsPrompt
<1>1. PolicyInv => PolicyFollowsPrompt
  <2> SUFFICES ASSUME PolicyInv, NEW r \in Requests, Answered(r)
               PROVE  LET told == request[r].events
                          decided == request[r].fetched
                      IN /\ ToSet(told) \subseteq ToSet(decided)
                         /\ Len(told) = Len(decided) =>
                               AnalyzeCurrentState(told) = request[r].snapshot
    BY DEF PolicyFollowsPrompt
  <2> QED
    BY Ready DEF Embedded
<1> QED
  BY <1>1, Invariance, PTL

\* Which stay the program and the milestones shown are of, and which milestones
\* the progress is of.
THEOREM WhenPromptIsOfThisStay == Spec => []WhichStayIsShown
<1>1. PolicyInv => WhichStayIsShown
  <2> SUFFICES ASSUME PolicyInv, NEW r \in Requests, Answered(r)
               PROVE  LET es == request[r].events
                          start == SegmentStart(es)
                          runs == Projects(es) \cap Of(es, {"runProject"})
                          reports == Reports(es) \cap start..Len(es)
                      IN /\ ProgramShown(es) >= start <=>
                               \/ \E i \in runs : i >= start
                               \/ runs = {} /\ \E i \in Projects(es) : i >= start
                         /\ MilestonesFrom(es) >= start <=>
                               \E i \in reports : es[i].data # NoParameters
                         /\ FinalProgress(Segment(es)) =
                               IF reports = {} THEN 0
                               ELSE IF es[Max(reports)].data = NoParameters THEN 0
                               ELSE Progress(es[MilestonesFrom(es)].data)
    BY DEF WhichStayIsShown
  <2> QED
    BY Ready, Grounding
<1> QED
  BY <1>1, Invariance, PTL

=============================================================================

---------------------------- MODULE IngestProofs ----------------------------
(***************************************************************************)
(* Ingest loses no record, for any number of callers, ids, students, any   *)
(* page size and both orders of the pages, as long as the Hub publishes in *)
(* the order of its ids, and the overlap covers how far its receipt times  *)
(* disagree with the ids and the migration's seed runs ahead of them.      *)
(***************************************************************************)
EXTENDS Ingest, FiniteSetTheorems, WellFoundedInduction, TLAPS

(* What the code relies on and cannot check itself. *)
HubAssumption ==
    /\ InOrder
    /\ Skew + SeedAhead <= Overlap

---------------------------------------------------------------------------
(* Type correctness. *)

\* The variables keep their types: ids and times are numbers, a caller is in
\* one of the four stages of sync_invite_hub_logs.
THEOREM TypeCorrect == Spec => []TypeOK
<1> USE IngestAssumption
<1>1. Init => TypeOK
  <2> SUFFICES ASSUME Init PROVE TypeOK
    OBVIOUS
  <2>1. /\ order \in Orders /\ faults \in Nat /\ scoped \in BOOLEAN
        /\ sync = [w \in Workers |-> Idle]
    BY DEF Init
  <2>2. hub \subseteq Records /\ cursorId \in Nat /\ cursorTime \in Nat
    <3>1. CASE hub = {} /\ cursorId = 0 /\ cursorTime = 0
      BY <3>1
    <3>2. CASE \E r \in Records : /\ hub = {r}
                                  /\ cursorId = r.id
                                  /\ cursorTime \in r.recv .. r.recv + SeedAhead
      <4> PICK r \in Records : /\ hub = {r}
                               /\ cursorId = r.id
                               /\ cursorTime \in r.recv .. r.recv + SeedAhead
        BY <3>2
      <4>1. r.id \in Nat /\ r.recv \in Nat
        BY DEF Records
      <4> QED BY <4>1
    <3> QED BY <3>1, <3>2 DEF Init
  <2>3. store \subseteq Ids
    BY <2>2 DEF Init, IdsOf, Records
  <2>4. sync \in [Workers -> SyncStates]
    BY <2>1 DEF Idle, Pcs, SyncStates
  <2> QED BY <2>1, <2>2, <2>3, <2>4 DEF TypeOK
<1>2. TypeOK /\ [Next]_vars => TypeOK'
  <2> SUFFICES ASSUME TypeOK, [Next]_vars PROVE TypeOK'
    OBVIOUS
  <2> USE DEF TypeOK
  <2>0. Idle \in SyncStates
    BY DEF Idle, SyncStates, Pcs
  <2>1. ASSUME NEW r \in Records, Publish(r) PROVE TypeOK'
    BY <2>1 DEF Publish
  <2>2. ASSUME NEW w \in Workers, NEW scope \in SUBSET Students, GetIngestCursor(w, scope)
        PROVE  TypeOK'
    <3>1. [Idle EXCEPT !.pc = "fetching", !.scope = scope,
                       !.lastId = cursorId, !.lastTime = cursorTime] \in SyncStates
      BY DEF Idle, SyncStates, Pcs
    <3> QED BY <2>2, <3>1 DEF GetIngestCursor
  <2>3. ASSUME NEW w \in Workers, FetchPage(w) PROVE TypeOK'
    <3> DEFINE records == sync[w].got \cup {r \in Page(w) : r.id > sync[w].lastId}
    <3>1. sync[w] \in SyncStates /\ records \subseteq Records
      BY DEF Page, View, SyncStates
    <3> HIDE DEF records
    <3>2. sync[w].offset + PageSize \in Nat
      BY <3>1 DEF SyncStates
    <3>3. /\ [sync[w] EXCEPT !.got = records, !.pc = "insert",
                             !.offset = 0, !.retried = FALSE] \in SyncStates
          /\ [sync[w] EXCEPT !.got = records,
                             !.offset = sync[w].offset + PageSize] \in SyncStates
      BY <3>1, <3>2 DEF SyncStates, Pcs
    <3>4. sync' \in [Workers -> SyncStates]
      BY <2>0, <2>3, <3>3 DEF FetchPage, records
    <3> QED BY <2>3, <3>4 DEF FetchPage
  <2>4. ASSUME NEW w \in Workers, InsertRows(w) PROVE TypeOK'
    <3>1. sync[w] \in SyncStates
      OBVIOUS
    <3>2. IdsOf({r \in sync[w].got : r.kind = "ok"}) \subseteq Ids
      BY <3>1 DEF IdsOf, Records, SyncStates
    <3>3. [sync[w] EXCEPT !.pc = "save"] \in SyncStates
      BY <3>1 DEF SyncStates, Pcs
    <3> QED BY <2>0, <2>4, <3>2, <3>3 DEF InsertRows, Rescope
  <2>5. ASSUME NEW w \in Workers, SaveIngestCursor(w) PROVE TypeOK'
    <3>1. sync[w].got \subseteq Records /\ sync[w].lastTime \in Nat
      BY DEF SyncStates
    <3>2. \A r \in sync[w].got : r.id \in Nat /\ r.recv \in Nat
      BY <3>1 DEF Records
    <3>3. TimesOf(sync[w].got) \cup {sync[w].lastTime} \subseteq Nat
      BY <3>1, <3>2 DEF TimesOf
    <3> QED BY <2>0, <2>5, <3>2, <3>3 DEF SaveIngestCursor
  <2>6. ASSUME NEW w \in Workers, RejectToken(w) PROVE TypeOK'
    <3>1. [sync[w] EXCEPT !.offset = 0, !.got = {}, !.retried = TRUE] \in SyncStates
      BY DEF SyncStates
    <3> QED BY <2>0, <2>6, <3>1 DEF RejectToken
  <2>7. ASSUME NEW w \in Workers, SyncFails(w) PROVE TypeOK'
    BY <2>0, <2>7 DEF SyncFails
  <2>8. ASSUME Restart PROVE TypeOK'
    BY <2>0, <2>8 DEF Restart
  <2>9. ASSUME Lull PROVE TypeOK'
    <3>1. faults' \in Nat
      BY <2>9 DEF Lull
    <3>2. scoped' \in BOOLEAN
      BY <2>9, Zenon DEF Lull
    <3> QED BY <2>9, <3>1, <3>2 DEF Lull
  <2>10. ASSUME UNCHANGED vars PROVE TypeOK'
    BY <2>10 DEF vars
  <2>11. QED
    <3>1. ASSUME NEW w \in Workers, Begin(w) PROVE TypeOK'
      BY <2>2, <3>1 DEF Begin
    <3> QED
      BY <2>1, <2>3, <2>4, <2>5, <2>6, <2>7, <2>8, <2>9, <2>10, <3>1 DEF Next, Advance
<1>3. QED
  BY <1>1, <1>2, PTL DEF Spec

---------------------------------------------------------------------------
(* The inductive invariant. *)

\* Id i and time t are a position some record of the Hub justifies.
Justified(i, t) ==
    \/ i = 0 /\ t = 0
    \/ \E p, q \in hub : p.id = i /\ q.id <= i /\ t <= q.recv + SeedAhead

HubInv == IsFiniteSet(hub) /\ WellStamped(hub)

\* The cursor is a watermark of the table.
CursorInv ==
    /\ Justified(cursorId, cursorTime)
    /\ \A r \in hub : r.kind = "ok" /\ r.id <= cursorId => r.id \in store

\* A record between the cursor a sync read and a record it holds is either
\* held too, or still ahead of the walk.
NoGap(w) ==
    \A r \in hub, g \in sync[w].got :
        sync[w].lastId < r.id /\ r.id <= g.id =>
            \/ r \in sync[w].got
            \/ sync[w].pc = "fetching" /\ sync[w].offset <= Rank(w, r)

\* Oldest first, the pages do not shift: what the walk has passed it holds.
PassedKept(w) ==
    sync[w].pc = "fetching" /\ order = "oldest_first" =>
        /\ sync[w].offset <= Cardinality(View(w))
        /\ \A r \in View(w) :
              sync[w].lastId < r.id /\ Rank(w, r) < sync[w].offset => r \in sync[w].got

WalkInv(w) ==
    /\ sync[w].got \subseteq hub
    /\ PassedKept(w)
    /\ sync[w].lastId <= cursorId
    /\ Justified(sync[w].lastId, sync[w].lastTime)
    /\ w \in FullSync => sync[w].scope = Students /\ NoGap(w)
    /\ sync[w].pc = "save" => /\ w \in FullSync
                              /\ \A g \in sync[w].got : g.kind = "ok" => g.id \in store

SyncInv == \A w \in Workers : sync[w].pc # "idle" => WalkInv(w)

IInv == TypeOK /\ HubInv /\ CursorInv /\ SyncInv

---------------------------------------------------------------------------
(* Lemmas on the walk. *)

\* The overlap reaches every record above a position that records justify.
LEMMA OverlapReaches ==
  ASSUME HubAssumption, NEW H \in SUBSET Records, WellStamped(H), NEW i \in Nat, NEW t \in Nat,
         \/ i = 0 /\ t = 0
         \/ \E q \in H : q.id <= i /\ t <= q.recv + SeedAhead,
         NEW r \in H, i < r.id
  PROVE  r.recv >= t - Overlap
<1> USE IngestAssumption DEF HubAssumption
<1>1. \A q \in H : q.id \in Nat /\ q.recv \in Nat
  BY DEF Records
<1>2. CASE t = 0
  BY <1>1, <1>2
<1>3. CASE \E q \in H : q.id <= i /\ t <= q.recv + SeedAhead
  <2>1. PICK q \in H : q.id <= i /\ t <= q.recv + SeedAhead
    BY <1>3
  <2>2. q.recv <= r.recv + Skew
    BY <1>1, <2>1 DEF WellStamped
  <2> QED BY <1>1, <2>1, <2>2
<1> QED BY <1>2, <1>3

\* Records the Hub still hides cannot be covered by a justified position.
LEMMA InView ==
  ASSUME HubAssumption, TypeOK, HubInv, NEW w \in Workers, NEW r \in hub,
         sync[w].scope = Students,
         Justified(sync[w].lastId, sync[w].lastTime),
         sync[w].lastId < r.id
  PROVE  r \in View(w)
<1>1. r \in Records /\ sync[w] \in SyncStates /\ hub \in SUBSET Records
  BY DEF TypeOK
<1>2. r.student \in Students /\ sync[w].lastTime \in Nat /\ sync[w].lastId \in Nat
  BY <1>1 DEF Records, SyncStates
<1>3. r.recv >= sync[w].lastTime - Overlap
  BY <1>1, <1>2, OverlapReaches DEF HubInv, Justified
<1> QED BY <1>2, <1>3 DEF View

\* Newest first an older record ranks no lower than a newer one, oldest first
\* no higher.
LEMMA RankOrder ==
  ASSUME TypeOK, HubInv, NEW w \in Workers,
         NEW r \in hub, NEW g \in hub, r.id <= g.id
  PROVE  /\ Rank(w, g) \in Nat /\ Rank(w, r) \in Nat
         /\ order = "newest_first" => Rank(w, g) <= Rank(w, r)
         /\ order = "oldest_first" => Rank(w, r) <= Rank(w, g)
<1> DEFINE Above(x) == {q \in View(w) : Before(q, x)}
<1>1. /\ \A q \in hub : q.id \in Nat
      /\ View(w) \subseteq hub
  BY IngestAssumption DEF TypeOK, Records, View
<1>2. IsFiniteSet(Above(r)) /\ IsFiniteSet(Above(g))
  BY <1>1, FS_Subset DEF HubInv
<1>3. order = "newest_first" => Above(g) \subseteq Above(r)
  BY <1>1 DEF Before
<1>4. order = "oldest_first" => Above(r) \subseteq Above(g)
  BY <1>1 DEF Before
<1> HIDE DEF Above
<1>5. /\ order = "newest_first" => Cardinality(Above(g)) <= Cardinality(Above(r))
      /\ order = "oldest_first" => Cardinality(Above(r)) <= Cardinality(Above(g))
  BY <1>2, <1>3, <1>4, FS_Subset
<1>6. Cardinality(Above(r)) \in Nat /\ Cardinality(Above(g)) \in Nat
  BY <1>2, FS_CardinalityType
<1> QED BY <1>5, <1>6 DEF Rank, Above

\* The oldest and the newest of some records: no other has fewer before it, or
\* after it.
LEMMA OldestNewest ==
  ASSUME NEW S, IsFiniteSet(S), S # {}, \A q \in S : q.id \in Nat
  PROVE  /\ \E m \in S : \A q \in S : m.id <= q.id
         /\ \E m \in S : \A q \in S : q.id <= m.id
<1>1. ASSUME NEW T, T \subseteq SUBSET S, T # {}
      PROVE  \E x \in T : \A y \in T : y \subseteq x => y = x
  <2>1. T \subseteq FiniteSubsetsOf(S)
    BY <1>1, FS_Subset DEF FiniteSubsetsOf
  <2>2. PICK x \in T : \A y \in T : ~ (<<y, x>> \in StrictSubsetOrdering(S))
    BY <1>1, <2>1, FS_StrictSubsetOrderingWellFounded, WFMin
  <2>3. \A y \in T : y \subseteq x => y = x
    BY <1>1, <2>2, Zenon DEF StrictSubsetOrdering
  <2> QED BY <2>3
<1>2. \E m \in S : \A q \in S : m.id <= q.id
  <2> DEFINE Older(m) == {q \in S : q.id < m.id}
             T == {Older(m) : m \in S}
  <2>1. T \subseteq SUBSET S /\ T # {}
    OBVIOUS
  <2>2. PICK x \in T : \A y \in T : y \subseteq x => y = x
    <3> HIDE DEF T
    <3> QED BY <1>1, <2>1
  <2>3. PICK m \in S : x = Older(m)
    BY <2>2
  <2>4. ASSUME NEW q \in S, q.id < m.id PROVE FALSE
    <3>1. Older(q) \subseteq Older(m)
      BY <2>4
    <3>2. q \in Older(m) /\ q \notin Older(q)
      BY <2>4
    <3>3. Older(q) \in T
      OBVIOUS
    <3> QED BY <2>2, <2>3, <3>1, <3>2, <3>3
  <2> QED BY <2>4
<1>3. \E m \in S : \A q \in S : q.id <= m.id
  <2> DEFINE Newer(m) == {q \in S : q.id > m.id}
             T == {Newer(m) : m \in S}
  <2>1. T \subseteq SUBSET S /\ T # {}
    OBVIOUS
  <2>2. PICK x \in T : \A y \in T : y \subseteq x => y = x
    <3> HIDE DEF T
    <3> QED BY <1>1, <2>1
  <2>3. PICK m \in S : x = Newer(m)
    BY <2>2
  <2>4. ASSUME NEW q \in S, q.id > m.id PROVE FALSE
    <3>1. Newer(q) \subseteq Newer(m)
      BY <2>4
    <3>2. q \in Newer(m) /\ q \notin Newer(q)
      BY <2>4
    <3>3. Newer(q) \in T
      OBVIOUS
    <3> QED BY <2>2, <2>3, <3>1, <3>2, <3>3
  <2> QED BY <2>4
<1> QED BY <1>2, <1>3

\* Oldest first: no more than n records rank below n, for the newest of them
\* ranks above all the others.
LEMMA FewRankBelow ==
  ASSUME TypeOK, HubInv, NEW w \in Workers, order = "oldest_first", NEW n \in Nat
  PROVE  LET S == {q \in View(w) : Rank(w, q) < n}
         IN  IsFiniteSet(S) /\ Cardinality(S) \in Nat /\ Cardinality(S) <= n
<1> DEFINE S == {q \in View(w) : Rank(w, q) < n}
<1>1. View(w) \subseteq hub /\ \A q \in hub : q.id \in Nat
  BY IngestAssumption DEF TypeOK, Records, View
<1>2. IsFiniteSet(View(w)) /\ IsFiniteSet(S)
  BY <1>1, FS_Subset DEF HubInv
<1>3. Cardinality(S) \in Nat
  BY <1>2, FS_CardinalityType
<1>4. CASE S = {}
  BY <1>4, FS_EmptySet
<1>5. CASE S # {}
  <2>1. \A q \in S : q.id \in Nat
    BY <1>1
  <2>2. PICK m \in S : \A q \in S : q.id <= m.id
    <3> HIDE DEF S
    <3> QED BY <1>2, <1>5, <2>1, OldestNewest
  <2>3. m \in View(w) /\ Rank(w, m) < n
    BY <2>2
  <2> DEFINE A == {q \in View(w) : Before(q, m)}
  <2>4. S \ {m} \subseteq A
    <3> SUFFICES ASSUME NEW q \in S, q # m PROVE q \in A
      OBVIOUS
    <3>1. q \in hub /\ m \in hub /\ q \in View(w)
      BY <1>1
    <3>2. q.id # m.id
      BY <3>1 DEF HubInv, WellStamped
    <3>3. q.id < m.id
      BY <1>1, <2>2, <3>1, <3>2
    <3> QED BY <3>1, <3>3 DEF Before
  <2>5. IsFiniteSet(A) /\ Cardinality(A) = Rank(w, m)
    BY <1>2, FS_Subset DEF Rank
  <2> HIDE DEF A, S
  <2>6. Cardinality(S \ {m}) <= Cardinality(A) /\ Cardinality(A) \in Nat
    BY <2>4, <2>5, FS_Subset, FS_CardinalityType
  <2>7. Cardinality(S \ {m}) = Cardinality(S) - 1
    BY <1>2, <2>2, FS_RemoveElement
  <2> QED BY <1>2, <1>3, <2>3, <2>5, <2>6, <2>7 DEF S
<1> QED BY <1>2, <1>3, <1>4, <1>5

\* Oldest first: a page that does not reach the end of the view has two records
\* at least, and is not descending.
LEMMA FullPageAscends ==
  ASSUME TypeOK, HubInv, NEW w \in Workers, order = "oldest_first",
         sync[w].offset \in Nat, NEW r \in View(w),
         sync[w].offset + PageSize <= Rank(w, r), NEW x \in Page(w)
  PROVE  ~ IsDescending(Page(w))
<1> SUFFICES ASSUME IsDescending(Page(w)) PROVE FALSE
  OBVIOUS
<1> DEFINE n == sync[w].offset
           N == {q \in View(w) : n + PageSize <= Rank(w, q)}
           S == {q \in View(w) : Rank(w, q) < n}
<1>0. PageSize \in Nat /\ PageSize >= 2 /\ n \in Nat
  BY IngestAssumption
<1>1. View(w) \subseteq hub /\ \A q \in hub : q.id \in Nat
  BY IngestAssumption DEF TypeOK, Records, View
<1>2. \A q \in View(w) : Rank(w, q) \in Nat
  BY <1>1, RankOrder
<1>3. \A q \in Page(w) : q = x
  <2> SUFFICES ASSUME NEW q \in Page(w), q # x PROVE FALSE
    OBVIOUS
  <2>1. q \in hub /\ x \in hub
    BY <1>1 DEF Page
  <2>2. q.id \in Nat /\ x.id \in Nat /\ q.id # x.id
    BY <1>1, <2>1 DEF HubInv, WellStamped
  <2> QED BY <2>2 DEF IsDescending, Before
<1>4. PICK m \in N : \A q \in N : m.id <= q.id
  <2>1. IsFiniteSet(N) /\ r \in N /\ \A q \in N : q.id \in Nat
    BY <1>1, FS_Subset DEF HubInv
  <2> HIDE DEF N
  <2> QED BY <2>1, OldestNewest
<1>5. m \in View(w) /\ n + PageSize <= Rank(w, m) /\ Rank(w, m) \in Nat
  BY <1>2, <1>4
<1> DEFINE A == {q \in View(w) : Before(q, m)}
<1>6. A \subseteq S \cup {x}
  <2> SUFFICES ASSUME NEW q \in View(w), Before(q, m), q # x PROVE Rank(w, q) < n
    OBVIOUS
  <2>1. q.id < m.id /\ q.id \in Nat /\ m.id \in Nat
    BY <1>1, <1>5 DEF Before
  <2>2. q \notin N
    BY <1>4, <2>1
  <2>3. Rank(w, q) \in Nat /\ ~ (n + PageSize <= Rank(w, q))
    BY <1>2, <2>2
  <2>4. q \notin Page(w)
    BY <1>3
  <2> HIDE DEF n
  <2>5. ~ (n <= Rank(w, q) /\ Rank(w, q) < n + PageSize)
    BY <2>4 DEF Page, n
  <2> QED BY <1>0, <2>3, <2>5
<1>7. IsFiniteSet(S) /\ Cardinality(S) \in Nat /\ Cardinality(S) <= n
  BY FewRankBelow
<1>8. Cardinality(A) = Rank(w, m)
  BY DEF Rank
<1> HIDE DEF A, S, n
<1>9. IsFiniteSet(S \cup {x}) /\ Cardinality(S \cup {x}) <= Cardinality(S) + 1
      /\ Cardinality(S \cup {x}) \in Nat
  <2>1. /\ IsFiniteSet(S \cup {x})
        /\ Cardinality(S \cup {x}) = IF x \in S THEN Cardinality(S) ELSE Cardinality(S) + 1
    BY <1>7, FS_AddElement, Zenon
  <2>2. Cardinality(S \cup {x}) \in Nat
    BY <2>1, FS_CardinalityType
  <2> QED BY <1>7, <2>1, <2>2
<1>10. Cardinality(A) <= Cardinality(S \cup {x})
  BY <1>6, <1>9, FS_Subset
<1> QED BY <1>0, <1>5, <1>7, <1>8, <1>9, <1>10

\* A record of the view that no page up to a short one reached is in it.
LEMMA RankBelowView ==
  ASSUME TypeOK, HubInv, NEW w \in Workers, NEW r
  PROVE  /\ Cardinality(View(w)) \in Nat
         /\ Rank(w, r) <= Cardinality(View(w))
<1>1. IsFiniteSet(View(w))
  BY FS_Subset DEF View, HubInv
<1>2. {q \in View(w) : Before(q, r)} \in SUBSET View(w)
  OBVIOUS
<1> QED BY <1>1, <1>2, FS_Subset, FS_CardinalityType DEF Rank

---------------------------------------------------------------------------
(* The steps. *)

LEMMA PublishStep ==
  ASSUME HubAssumption, IInv, NEW r0 \in Records, Publish(r0)
  PROVE  HubInv' /\ CursorInv' /\ SyncInv'
<1> USE DEF HubAssumption, IInv
<1>1. /\ hub' = hub \cup {r0} /\ \A q \in hub : q.id < r0.id
      /\ UNCHANGED <<order, store, cursorId, cursorTime, sync>>
  BY DEF Publish
<1>2. \A q \in hub \cup {r0} : q.id \in Nat \ {0}
  BY IngestAssumption DEF TypeOK, Records
<1>3. HubInv'
  BY <1>1, FS_AddElement DEF Publish, HubInv, WellStamped
<1>4. cursorId < r0.id
  BY <1>1, <1>2 DEF CursorInv, Justified
<1>5. Justified(cursorId, cursorTime)'
  BY <1>1 DEF CursorInv, Justified
<1>6. CursorInv'
  BY <1>1, <1>2, <1>4, <1>5 DEF CursorInv, TypeOK
<1>7. ASSUME NEW w \in Workers, sync[w].pc # "idle"
      PROVE  WalkInv(w)'
  <2>1. WalkInv(w) /\ sync'[w] = sync[w]
    BY <1>1, <1>7 DEF SyncInv
  <2>2. Justified(sync[w].lastId, sync[w].lastTime)'
    BY <1>1, <2>1 DEF WalkInv, Justified
  <2>3. ASSUME NoGap(w) PROVE NoGap(w)'
    <3>1. ASSUME NEW r \in hub', NEW g \in sync[w].got,
                 sync[w].lastId < r.id, r.id <= g.id
          PROVE  r \in hub /\ (\/ r \in sync[w].got
                               \/ sync[w].pc = "fetching" /\ sync[w].offset <= Rank(w, r))
      <4>1. g \in hub
        BY <2>1 DEF WalkInv
      <4>2. r \in hub
        BY <1>1, <1>2, <3>1, <4>1
      <4> QED BY <2>3, <3>1, <4>2 DEF NoGap
    <3>2. ASSUME NEW r \in hub, sync[w].offset <= Rank(w, r)
          PROVE  sync[w].offset <= Rank(w, r)'
      <4>1. View(w) \subseteq View(w)'
        BY <1>1 DEF View
      <4>2. {q \in View(w) : Before(q, r)} \subseteq {q \in View(w)' : Before(q, r)'}
        BY <1>1, <4>1 DEF Before
      <4>3. IsFiniteSet({q \in View(w)' : Before(q, r)'})
        BY <1>1, <1>3, FS_Subset DEF HubInv, View
      <4>4. Rank(w, r) \in Nat /\ Rank(w, r)' \in Nat /\ Rank(w, r) <= Rank(w, r)'
        BY <4>2, <4>3, FS_Subset, FS_CardinalityType DEF Rank
      <4>5. sync[w].offset \in Nat
        BY DEF TypeOK, SyncStates
      <4> QED BY <3>2, <4>4, <4>5
    <3> QED BY <1>1, <3>1, <3>2 DEF NoGap
  <2>4. PassedKept(w)'
    <3> SUFFICES ASSUME sync[w].pc = "fetching", order = "oldest_first"
                 PROVE  /\ sync[w].offset <= Cardinality(View(w)')
                        /\ \A r \in View(w)' :
                              sync[w].lastId < r.id /\ Rank(w, r)' < sync[w].offset
                              => r \in sync[w].got
      BY <1>1 DEF PassedKept
    <3>1. /\ sync[w].offset <= Cardinality(View(w))
          /\ \A r \in View(w) :
                sync[w].lastId < r.id /\ Rank(w, r) < sync[w].offset => r \in sync[w].got
      BY <2>1 DEF WalkInv, PassedKept
    <3>2. View(w) \subseteq View(w)' /\ View(w)' \subseteq View(w) \cup {r0}
      BY <1>1 DEF View
    <3>3. IsFiniteSet(View(w)') /\ IsFiniteSet(View(w))
      BY <1>1, <1>3, FS_Subset DEF HubInv, View
    <3>4. /\ Cardinality(View(w)) \in Nat /\ Cardinality(View(w)') \in Nat
          /\ Cardinality(View(w)) <= Cardinality(View(w)') /\ sync[w].offset \in Nat
      BY <3>2, <3>3, FS_Subset, FS_CardinalityType DEF TypeOK, SyncStates
    <3>5. \A q \in View(w)' : q.id \in Nat
      BY <1>1, <1>2 DEF View
    <3>6. ASSUME NEW r \in View(w), r # r0 PROVE Rank(w, r)' = Rank(w, r)
      <4>1. r \in hub
        BY DEF View
      <4>2. {q \in View(w)' : Before(q, r)'} = {q \in View(w) : Before(q, r)}
        BY <1>1, <1>2, <3>2, <4>1 DEF Before
      <4> QED BY <4>2 DEF Rank
    <3>7. ASSUME r0 \in View(w)', Rank(w, r0)' < sync[w].offset PROVE FALSE
      <4>1. \A q \in View(w) : q \in hub
        BY DEF View
      <4>2. View(w) \subseteq {q \in View(w)' : Before(q, r0)'}
        BY <1>1, <3>2, <4>1 DEF Before
      <4>3. IsFiniteSet({q \in View(w)' : Before(q, r0)'})
        BY <3>3, FS_Subset
      <4>4. Rank(w, r0)' \in Nat /\ Cardinality(View(w)) <= Rank(w, r0)'
        BY <4>2, <4>3, FS_Subset, FS_CardinalityType DEF Rank
      <4> QED BY <3>1, <3>4, <3>7, <4>4
    <3>8. ASSUME NEW r \in View(w)', sync[w].lastId < r.id, Rank(w, r)' < sync[w].offset
          PROVE  r \in sync[w].got
      <4>1. r # r0
        BY <3>7, <3>8
      <4>2. r \in View(w) /\ Rank(w, r)' = Rank(w, r)
        BY <3>2, <3>6, <4>1
      <4> QED BY <3>1, <3>8, <4>2
    <3> QED BY <3>1, <3>4, <3>8
  <2> QED BY <1>1, <2>1, <2>2, <2>3, <2>4 DEF WalkInv
<1> QED BY <1>1, <1>3, <1>6, <1>7 DEF SyncInv

\* Only one caller moves in a step of a sync; the others keep their part of
\* the invariant, for the cursor and the table only grow.
LEMMA OthersKeep ==
  ASSUME IInv, NEW w \in Workers,
         UNCHANGED <<order, hub>>, store \subseteq store', cursorId <= cursorId',
         cursorId' \in Nat,
         \A v \in Workers \ {w} : sync'[v] = sync[v],
         sync'[w].pc # "idle" => WalkInv(w)'
  PROVE  SyncInv'
<1>1. ASSUME NEW v \in Workers \ {w}, sync'[v].pc # "idle"
      PROVE  WalkInv(v)'
  <2>1. WalkInv(v) /\ sync'[v] = sync[v]
    BY <1>1 DEF IInv, SyncInv
  <2>2. sync[v].lastId \in Nat /\ cursorId \in Nat
    BY DEF IInv, TypeOK, SyncStates
  <2>3. Justified(sync[v].lastId, sync[v].lastTime)'
    BY <2>1 DEF WalkInv, Justified
  <2>4. NoGap(v) => NoGap(v)'
    BY <2>1 DEF NoGap, Rank, View, Before
  <2>5. PassedKept(v)'
    BY <2>1 DEF WalkInv, PassedKept, Rank, View, Before
  <2> QED BY <2>1, <2>2, <2>3, <2>4, <2>5 DEF WalkInv
<1> QED BY <1>1 DEF SyncInv

LEMMA FetchStep ==
  ASSUME HubAssumption, IInv, NEW w \in Workers, FetchPage(w), sync'[w].pc # "idle"
  PROVE  WalkInv(w)'
<1> USE DEF IInv
<1> DEFINE P == Page(w)
           records == sync[w].got \cup {r \in P : r.id > sync[w].lastId}
           done == \/ ShortPage(w)
                   \/ IsDescending(P) /\ \E r \in P : r.id <= sync[w].lastId
<1>1. sync[w] \in SyncStates /\ sync[w].pc = "fetching"
  BY DEF FetchPage, TypeOK
<1>2. sync' = [sync EXCEPT ![w] =
                 IF done /\ records = {} THEN Idle
                 ELSE IF done
                 THEN [sync[w] EXCEPT !.got = records, !.pc = "insert",
                                      !.offset = 0, !.retried = FALSE]
                 ELSE [sync[w] EXCEPT !.got = records,
                                      !.offset = sync[w].offset + PageSize]]
  BY DEF FetchPage
<1>3. WalkInv(w)
  BY <1>1 DEF SyncInv
<1> HIDE DEF records, done
<1>4. /\ sync'[w].got = records
      /\ sync'[w].lastId = sync[w].lastId
      /\ sync'[w].lastTime = sync[w].lastTime
      /\ sync'[w].scope = sync[w].scope
      /\ ~done => sync'[w].pc = "fetching" /\ sync'[w].offset = sync[w].offset + PageSize
      /\ sync'[w].pc # "save"
  BY <1>1, <1>2 DEF TypeOK, SyncStates, Idle
<1>5. UNCHANGED <<order, hub, store, cursorId, cursorTime>>
  BY DEF FetchPage
<1>6. records \subseteq hub
  BY <1>3 DEF records, WalkInv, Page, View
<1>7. ASSUME w \in FullSync PROVE NoGap(w)'
  <2>1. ASSUME NEW r \in hub, NEW g \in records,
               sync[w].lastId < r.id, r.id <= g.id, r \notin records
        PROVE  ~done /\ sync[w].offset + PageSize <= Rank(w, r)
    <3>1. /\ r.id \in Nat /\ g.id \in Nat /\ sync[w].lastId \in Nat
          /\ sync[w].offset \in Nat /\ PageSize \in Nat
      BY <1>1, <1>6, <2>1, IngestAssumption DEF TypeOK, SyncStates, Records
    <3>2. r \in View(w)
      BY <1>3, <1>7, <2>1, InView DEF WalkInv
    <3>3. Rank(w, r) \in Nat
      BY RankOrder, <3>1
    <3>4. sync[w].offset <= Rank(w, r)
      <4>1. CASE g \in sync[w].got
        BY <1>3, <1>7, <2>1, <4>1 DEF WalkInv, NoGap, records
      <4>2. CASE g \in P
        <5>1. sync[w].offset <= Rank(w, g) /\ g \in hub
          BY <4>2 DEF Page, View
        <5>2. CASE order = "newest_first"
          <6>1. Rank(w, g) \in Nat /\ Rank(w, g) <= Rank(w, r)
            BY <2>1, <5>1, <5>2, RankOrder
          <6> QED BY <3>1, <3>3, <5>1, <6>1
        <5>3. CASE order = "oldest_first"
          <6>1. ~ (Rank(w, r) < sync[w].offset)
            BY <1>1, <1>3, <2>1, <3>2, <5>3 DEF WalkInv, PassedKept, records
          <6> QED BY <3>1, <3>3, <6>1
        <5> QED BY <5>2, <5>3, IngestAssumption DEF TypeOK
      <4> QED BY <4>1, <4>2 DEF records
    <3>5. ~(Rank(w, r) < sync[w].offset + PageSize)
      BY <2>1, <3>2, <3>4 DEF records, Page
    <3>6. ~ShortPage(w)
      BY <3>1, <3>3, <3>5, RankBelowView DEF ShortPage
    <3>7. ASSUME NEW x \in P, x.id <= sync[w].lastId, IsDescending(P) PROVE FALSE
      <4>1. x \in hub /\ Rank(w, x) < sync[w].offset + PageSize
        BY DEF Page, View
      <4>2. x.id \in Nat
        BY <4>1, IngestAssumption DEF TypeOK, Records
      <4>3. x.id <= r.id
        BY <2>1, <3>1, <3>7, <4>2
      <4>4. CASE order = "newest_first"
        <5>1. Rank(w, r) <= Rank(w, x) /\ Rank(w, x) \in Nat
          BY <4>1, <4>3, <4>4, RankOrder
        <5> QED BY <3>1, <3>3, <3>5, <4>1, <5>1
      <4>5. CASE order = "oldest_first"
        <5>1. sync[w].offset + PageSize <= Rank(w, r)
          BY <3>1, <3>3, <3>5
        <5> QED BY <3>1, <3>2, <3>7, <4>5, <5>1, FullPageAscends
      <4> QED BY <4>4, <4>5, IngestAssumption DEF TypeOK
    <3> QED BY <3>1, <3>3, <3>5, <3>6, <3>7 DEF done
  <2> QED BY <1>4, <1>5, <2>1 DEF NoGap, Rank, View, Before
<1>8. PassedKept(w)'
  <2> SUFFICES ASSUME sync'[w].pc = "fetching", order' = "oldest_first"
               PROVE  /\ sync'[w].offset <= Cardinality(View(w)')
                      /\ \A r \in View(w)' :
                            sync'[w].lastId < r.id /\ Rank(w, r)' < sync'[w].offset
                            => r \in sync'[w].got
    BY DEF PassedKept
  <2>1. ~ done
    <3>1. ASSUME done PROVE sync'[w].pc # "fetching"
      BY <1>1, <1>2, <3>1 DEF TypeOK, SyncStates, Idle
    <3> QED BY <3>1
  <2>2. /\ View(w)' = View(w) /\ order = "oldest_first"
        /\ \A r : Rank(w, r)' = Rank(w, r)
    BY <1>4, <1>5 DEF View, Rank, Before
  <2>3. sync'[w].offset = sync[w].offset + PageSize /\ sync[w].offset \in Nat /\ PageSize \in Nat
    BY <1>1, <1>4, <2>1, IngestAssumption DEF SyncStates
  <2>4. sync[w].offset + PageSize <= Cardinality(View(w))
    <3>1. ~ ShortPage(w)
      BY <2>1 DEF done
    <3>2. Cardinality(View(w)) \in Nat
      BY RankBelowView
    <3> QED BY <2>3, <3>1, <3>2 DEF ShortPage
  <2>5. ASSUME NEW r \in View(w), sync[w].lastId < r.id,
               Rank(w, r) < sync[w].offset + PageSize
        PROVE  r \in records
    <3>1. CASE Rank(w, r) < sync[w].offset
      BY <1>1, <1>3, <2>2, <2>5, <3>1 DEF WalkInv, PassedKept, records
    <3>2. CASE ~ (Rank(w, r) < sync[w].offset)
      <4>1. r \in hub
        BY DEF View
      <4>2. Rank(w, r) \in Nat /\ r.id \in Nat /\ sync[w].lastId \in Nat
        <5>1. r.id \in Nat /\ sync[w].lastId \in Nat
          BY <1>1, <4>1, IngestAssumption DEF TypeOK, Records, SyncStates
        <5> QED BY <4>1, <5>1, RankOrder
      <4>3. r \in P
        BY <2>3, <2>5, <3>2, <4>2 DEF Page
      <4> QED BY <2>5, <4>2, <4>3 DEF records
    <3> QED BY <3>1, <3>2
  <2> QED BY <1>4, <2>2, <2>3, <2>4, <2>5
<1> QED BY <1>3, <1>4, <1>5, <1>6, <1>7, <1>8 DEF WalkInv, Justified

LEMMA InsertStep ==
  ASSUME IInv, NEW w \in Workers, InsertRows(w)
  PROVE  store \subseteq store' /\ CursorInv' /\ (sync'[w].pc # "idle" => WalkInv(w)')
<1> USE DEF IInv
<1>1. sync[w] \in SyncStates /\ WalkInv(w)
  BY DEF InsertRows, TypeOK, SyncInv
<1>2. UNCHANGED <<order, hub, cursorId, cursorTime>> /\ store \subseteq store'
  BY DEF InsertRows
<1>3. CursorInv'
  BY <1>2 DEF CursorInv, Justified
<1>4. ASSUME sync'[w].pc # "idle"
      PROVE  /\ sync'[w] = [sync[w] EXCEPT !.pc = "save"]
             /\ w \in FullSync
             /\ store' = store \cup IdsOf({r \in sync[w].got : r.kind = "ok"})
  BY <1>4 DEF InsertRows, TypeOK, Idle
<1>5. ASSUME sync'[w].pc # "idle" PROVE WalkInv(w)'
  <2>1. /\ sync'[w].pc = "save"
        /\ sync'[w].got = sync[w].got
        /\ sync'[w].lastId = sync[w].lastId
        /\ sync'[w].lastTime = sync[w].lastTime
        /\ sync'[w].scope = sync[w].scope
    BY <1>1, <1>4, <1>5 DEF SyncStates
  <2>2. \A g \in sync[w].got : g.kind = "ok" => g.id \in store'
    BY <1>4, <1>5 DEF IdsOf
  <2>3. sync[w].pc = "insert"
    BY DEF InsertRows
  <2>4. NoGap(w)'
    BY <1>1, <1>2, <1>4, <1>5, <2>1, <2>3 DEF WalkInv, NoGap
  <2>5. PassedKept(w)'
    BY <2>1 DEF PassedKept
  <2> QED BY <1>1, <1>2, <1>4, <1>5, <2>1, <2>2, <2>4, <2>5 DEF WalkInv, Justified
<1> QED BY <1>2, <1>3, <1>5

LEMMA SaveStep ==
  ASSUME IInv, NEW w \in Workers, SaveIngestCursor(w)
  PROVE  cursorId <= cursorId' /\ CursorInv' /\ sync'[w].pc = "idle"
<1> USE DEF IInv
<1>1. WalkInv(w) /\ w \in FullSync /\ sync[w].pc = "save"
  BY DEF SaveIngestCursor, SyncInv, WalkInv
<1>2. UNCHANGED <<hub, store>> /\ sync'[w].pc = "idle"
  BY DEF SaveIngestCursor, TypeOK, Idle
<1>3. PICK n \in sync[w].got, t \in TimesOf(sync[w].got) \cup {sync[w].lastTime} :
         /\ IsNewest(n, sync[w].got)
         /\ IF n.id >= cursorId
            THEN cursorId' = n.id /\ cursorTime' = t
            ELSE UNCHANGED <<cursorId, cursorTime>>
  BY DEF SaveIngestCursor
<1>4. n \in hub
  BY <1>1 DEF WalkInv
<1>5. /\ \A r \in hub : r.id \in Nat /\ r.recv \in Nat
      /\ cursorId \in Nat /\ sync[w].lastId \in Nat
  BY IngestAssumption DEF TypeOK, Records, SyncStates
<1>6. CASE n.id >= cursorId
  <2>1. cursorId' = n.id /\ cursorTime' = t
    BY <1>3, <1>6
  <2>2. Justified(n.id, t)
    <3>1. CASE t \in TimesOf(sync[w].got)
      <4>1. PICK q \in sync[w].got : t = q.recv
        BY <3>1 DEF TimesOf
      <4>2. q \in hub /\ q.id <= n.id
        BY <1>1, <1>3 DEF WalkInv, IsNewest
      <4>3. t <= q.recv + SeedAhead
        BY <1>5, <4>1, <4>2, IngestAssumption
      <4> QED BY <1>4, <4>2, <4>3 DEF Justified
    <3>2. CASE t = sync[w].lastTime
      <4>1. Justified(sync[w].lastId, t) /\ sync[w].lastId <= cursorId
        BY <1>1, <3>2 DEF WalkInv
      <4>2. CASE sync[w].lastId = 0 /\ t = 0
        <5>1. n.id <= n.id /\ t <= n.recv + SeedAhead
          BY <1>4, <1>5, <4>2, IngestAssumption
        <5> QED BY <1>4, <5>1 DEF Justified
      <4>3. ASSUME NEW q \in hub, q.id <= sync[w].lastId, t <= q.recv + SeedAhead
            PROVE  Justified(n.id, t)
        <5>1. q.id <= n.id
          BY <1>4, <1>5, <1>6, <4>1, <4>3
        <5> QED BY <1>4, <4>3, <5>1 DEF Justified
      <4> QED BY <4>1, <4>2, <4>3 DEF Justified
    <3> QED BY <3>1, <3>2
  <2>3. ASSUME NEW r \in hub, r.kind = "ok", r.id <= n.id PROVE r.id \in store
    <3>1. CASE r.id <= sync[w].lastId
      BY <1>1, <1>5, <2>3, <3>1 DEF WalkInv, CursorInv
    <3>2. CASE sync[w].lastId < r.id
      BY <1>1, <1>3, <2>3, <3>2 DEF WalkInv, NoGap
    <3> QED BY <1>5, <3>1, <3>2
  <2> QED BY <1>2, <1>4, <1>5, <1>6, <2>1, <2>2, <2>3 DEF CursorInv, Justified
<1>7. CASE ~(n.id >= cursorId)
  BY <1>2, <1>3, <1>5, <1>7 DEF CursorInv, Justified
<1> QED BY <1>2, <1>6, <1>7

\* A walk that begins has passed nothing.
LEMMA BeginKeepsPassed ==
  ASSUME TypeOK, HubInv, NEW w \in Workers, UNCHANGED <<hub, order>>,
         sync'[w].pc = "fetching" => sync'[w].offset = 0
  PROVE  PassedKept(w)'
<1> SUFFICES ASSUME sync'[w].pc = "fetching"
             PROVE  /\ 0 <= Cardinality(View(w)')
                    /\ \A r \in View(w)' : ~ (Rank(w, r)' < 0)
  BY DEF PassedKept
<1>1. IsFiniteSet(View(w)') /\ \A r : IsFiniteSet({q \in View(w)' : Before(q, r)'})
  BY FS_Subset DEF View, HubInv
<1>2. Cardinality(View(w)') \in Nat /\ \A r : Rank(w, r)' \in Nat
  BY <1>1, FS_CardinalityType DEF Rank
<1> QED BY <1>2

LEMMA BeginStep ==
  ASSUME IInv, NEW w \in Workers, Begin(w)
  PROVE  WalkInv(w)' /\ UNCHANGED <<order, hub, store, cursorId, cursorTime>>
         /\ \A v \in Workers \ {w} : sync'[v] = sync[v]
<1> USE DEF IInv
<1>1. PICK scope \in SUBSET Students :
         GetIngestCursor(w, scope) /\ (w \in FullSync => scope = Students)
  BY DEF Begin
<1>2. /\ sync'[w].pc = "fetching"
      /\ sync'[w].got = {}
      /\ sync'[w].lastId = cursorId
      /\ sync'[w].lastTime = cursorTime
      /\ sync'[w].scope = scope
      /\ UNCHANGED <<order, hub, store, cursorId, cursorTime>>
      /\ \A v \in Workers \ {w} : sync'[v] = sync[v]
  BY <1>1 DEF GetIngestCursor, TypeOK, Idle
<1>3. cursorId \in Nat /\ Justified(cursorId, cursorTime)'
  BY <1>2 DEF TypeOK, CursorInv, Justified
<1>4. PassedKept(w)'
  <2>1. sync'[w].offset = 0
    BY <1>1 DEF GetIngestCursor, TypeOK, Idle
  <2> QED BY <1>2, <2>1, BeginKeepsPassed
<1> QED BY <1>1, <1>2, <1>3, <1>4 DEF WalkInv, NoGap, Justified

LEMMA RejectStep ==
  ASSUME IInv, NEW w \in Workers, RejectToken(w), sync'[w].pc # "idle"
  PROVE  WalkInv(w)'
<1> USE DEF IInv
<1>1. sync[w] \in SyncStates /\ WalkInv(w)
  BY DEF RejectToken, TypeOK, SyncInv
<1>2. /\ sync'[w].got = {}
      /\ sync'[w].lastId = sync[w].lastId
      /\ sync'[w].lastTime = sync[w].lastTime
      /\ sync'[w].scope = sync[w].scope
      /\ sync'[w].pc = "fetching"
      /\ UNCHANGED <<order, hub, store, cursorId, cursorTime>>
  BY <1>1 DEF RejectToken, TypeOK, SyncStates, Idle
<1>3. PassedKept(w)'
  <2>1. sync'[w].offset = 0
    BY <1>1, <1>2 DEF RejectToken, TypeOK, SyncStates, Idle
  <2> QED BY <1>2, <2>1, BeginKeepsPassed
<1> QED BY <1>1, <1>2, <1>3 DEF WalkInv, NoGap, Justified

---------------------------------------------------------------------------
(* The theorems. *)

LEMMA Inductive ==
  ASSUME HubAssumption
  PROVE  Spec => []IInv
<1> USE IngestAssumption
<1>1. Init => HubInv /\ CursorInv /\ SyncInv
  <2> SUFFICES ASSUME Init PROVE HubInv /\ CursorInv /\ SyncInv
    OBVIOUS
  <2>1. SyncInv
    BY DEF Init, SyncInv, Idle
  <2>2. CASE hub = {} /\ cursorId = 0 /\ cursorTime = 0
    <3>1. IsFiniteSet(hub)
      BY <2>2, FS_EmptySet
    <3> QED BY <2>1, <2>2, <3>1 DEF HubInv, WellStamped, CursorInv, Justified
  <2>3. CASE \E r \in Records : /\ hub = {r}
                                /\ cursorId = r.id
                                /\ cursorTime \in r.recv .. r.recv + SeedAhead
    <3> PICK r \in Records : /\ hub = {r}
                             /\ cursorId = r.id
                             /\ cursorTime \in r.recv .. r.recv + SeedAhead
      BY <2>3
    <3>1. r.id \in Nat /\ r.recv \in Nat
      BY DEF Records
    <3>2. cursorTime <= r.recv + SeedAhead
      BY <3>1
    <3>3. IsFiniteSet(hub) /\ hub = {r}
      BY FS_Singleton
    <3>4. HubInv
      BY <3>1, <3>3 DEF HubInv, WellStamped
    <3>5. CursorInv
      BY <3>1, <3>2 DEF CursorInv, Justified, Init, IdsOf
    <3> QED BY <2>1, <3>4, <3>5
  <2> QED BY <2>1, <2>2, <2>3 DEF Init
<1>2. IInv /\ TypeOK' /\ [Next]_vars => IInv'
  <2> SUFFICES ASSUME IInv, TypeOK', [Next]_vars
               PROVE  HubInv' /\ CursorInv' /\ SyncInv'
    BY DEF IInv
  <2>1. ASSUME NEW r \in Records, Publish(r) PROVE HubInv' /\ CursorInv' /\ SyncInv'
    BY <2>1, PublishStep
  <2>2. ASSUME UNCHANGED <<order, hub, cursorId, cursorTime, store>>,
               NEW w \in Workers,
               \A v \in Workers \ {w} : sync'[v] = sync[v],
               sync'[w].pc # "idle" => WalkInv(w)'
        PROVE  HubInv' /\ CursorInv' /\ SyncInv'
    <3>1. HubInv' /\ CursorInv' /\ cursorId <= cursorId' /\ cursorId' \in Nat
      BY <2>2 DEF IInv, TypeOK, HubInv, WellStamped, CursorInv, Justified
    <3> QED BY <2>2, <3>1, OthersKeep
  <2>3. ASSUME NEW w \in Workers, Begin(w) PROVE HubInv' /\ CursorInv' /\ SyncInv'
    BY <2>2, <2>3, BeginStep
  <2>4. ASSUME NEW w \in Workers, FetchPage(w) PROVE HubInv' /\ CursorInv' /\ SyncInv'
    <3>1. \A v \in Workers \ {w} : sync'[v] = sync[v]
      BY <2>4 DEF FetchPage, IInv, TypeOK
    <3> QED BY <2>2, <2>4, <3>1, FetchStep DEF FetchPage
  <2>5. ASSUME NEW w \in Workers, InsertRows(w) PROVE HubInv' /\ CursorInv' /\ SyncInv'
    <3>1. \A v \in Workers \ {w} : sync'[v] = sync[v]
      BY <2>5 DEF InsertRows, IInv, TypeOK
    <3>2. UNCHANGED <<order, hub, cursorId>> /\ HubInv'
      BY <2>5 DEF InsertRows, IInv, HubInv, WellStamped
    <3>3. cursorId <= cursorId' /\ cursorId' \in Nat
      BY <3>2 DEF IInv, TypeOK
    <3> QED BY <2>5, <3>1, <3>2, <3>3, InsertStep, OthersKeep
  <2>6. ASSUME NEW w \in Workers, SaveIngestCursor(w)
        PROVE  HubInv' /\ CursorInv' /\ SyncInv'
    <3>1. \A v \in Workers \ {w} : sync'[v] = sync[v]
      BY <2>6 DEF SaveIngestCursor, IInv, TypeOK
    <3>2. UNCHANGED <<order, hub, store>> /\ HubInv'
      BY <2>6 DEF SaveIngestCursor, IInv, HubInv, WellStamped
    <3>3. cursorId' \in Nat
      BY DEF TypeOK
    <3> QED BY <2>6, <3>1, <3>2, <3>3, SaveStep, OthersKeep
  <2>7. ASSUME NEW w \in Workers, RejectToken(w) PROVE HubInv' /\ CursorInv' /\ SyncInv'
    <3>1. \A v \in Workers \ {w} : sync'[v] = sync[v]
      BY <2>7 DEF RejectToken, IInv, TypeOK
    <3> QED BY <2>2, <2>7, <3>1, RejectStep DEF RejectToken
  <2>8. ASSUME NEW w \in Workers, SyncFails(w) PROVE HubInv' /\ CursorInv' /\ SyncInv'
    <3>1. sync'[w].pc = "idle" /\ \A v \in Workers \ {w} : sync'[v] = sync[v]
      BY <2>8 DEF SyncFails, IInv, TypeOK, Idle
    <3> QED BY <2>2, <2>8, <3>1 DEF SyncFails
  <2>9. ASSUME Restart PROVE HubInv' /\ CursorInv' /\ SyncInv'
    BY <2>9 DEF Restart, IInv, HubInv, WellStamped, CursorInv, Justified, SyncInv, Idle
  <2>10. ASSUME UNCHANGED vars PROVE HubInv' /\ CursorInv' /\ SyncInv'
    <3>1. \A w \in Workers : WalkInv(w) => WalkInv(w)'
      BY <2>10 DEF vars, WalkInv, PassedKept, NoGap, Rank, View, Before, Justified
    <3> QED BY <2>10, <3>1 DEF vars, IInv, HubInv, WellStamped, CursorInv, Justified, SyncInv
  <2>11. ASSUME Lull PROVE HubInv' /\ CursorInv' /\ SyncInv'
    <3>1. \A w \in Workers : WalkInv(w) => WalkInv(w)'
      BY <2>11 DEF Lull, WalkInv, PassedKept, NoGap, Rank, View, Before, Justified
    <3> QED BY <2>11, <3>1 DEF Lull, IInv, HubInv, WellStamped, CursorInv, Justified, SyncInv
  <2> QED
    BY <2>1, <2>3, <2>4, <2>5, <2>6, <2>7, <2>8, <2>9, <2>10, <2>11 DEF Next, Advance
<1>3. QED
  BY <1>1, <1>2, TypeCorrect, PTL DEF Spec, IInv

LEMMA InvariantLosesNone ==
  ASSUME HubAssumption, IInv
  PROVE  NoRecordLost
<1> SUFFICES ASSUME NEW r \in hub, r.kind = "ok", r.id \notin store
             PROVE  r.id > cursorId /\ r.recv >= cursorTime - Overlap
  BY DEF NoRecordLost
<1>1. hub \in SUBSET Records /\ cursorId \in Nat /\ cursorTime \in Nat /\ r.id \in Nat
  BY IngestAssumption DEF IInv, TypeOK, Records
<1>2. cursorId < r.id
  BY <1>1 DEF IInv, CursorInv
<1>3. r.recv >= cursorTime - Overlap
  BY <1>1, <1>2, OverlapReaches DEF IInv, HubInv, CursorInv, Justified
<1> QED BY <1>1, <1>2, <1>3

\* No record that parses is ever lost: it is in the table, or both halves of
\* the cursor still let the next sync fetch it.
THEOREM Lossless ==
  ASSUME HubAssumption
  PROVE  Spec => []NoRecordLost
<1>1. IInv => NoRecordLost
  BY InvariantLosesNone
<1>2. QED
  BY <1>1, Inductive, PTL

\* Once a full sync has ended its walk, it misses no record between the
\* cursor it read and the newest record it holds.
THEOREM WalkComplete ==
  ASSUME HubAssumption
  PROVE  Spec => []WalkHasNoGap
<1>1. IInv => WalkHasNoGap
  BY DEF IInv, SyncInv, WalkInv, NoGap, WalkHasNoGap, Workers
<1>2. QED
  BY <1>1, Inductive, PTL

---------------------------------------------------------------------------
(* The refinement. *)

\* A record is published where the next fetch finds it.
LEMMA PublishReachable ==
  ASSUME HubAssumption, IInv, NEW r \in Records, Publish(r)
  PROVE  r.id > cursorId /\ r.recv >= cursorTime - Overlap
<1>1. /\ hub \cup {r} \in SUBSET Records /\ WellStamped(hub \cup {r})
      /\ \A q \in hub : q.id < r.id
      /\ cursorId \in Nat /\ cursorTime \in Nat
  BY DEF IInv, TypeOK, Publish, HubAssumption
<1>2. \A q \in hub \cup {r} : q.id \in Nat \ {0}
  BY <1>1, IngestAssumption DEF Records
<1>3. cursorId < r.id
  BY <1>1, <1>2 DEF IInv, CursorInv, Justified
<1>4. \/ cursorId = 0 /\ cursorTime = 0
      \/ \E q \in hub \cup {r} : q.id <= cursorId /\ cursorTime <= q.recv + SeedAhead
  BY DEF IInv, CursorInv, Justified
<1>5. PICK H \in SUBSET Records : H = hub \cup {r}
  BY <1>1
<1>6. r.recv >= cursorTime - Overlap
  BY <1>1, <1>3, <1>4, <1>5, OverlapReaches
<1> QED BY <1>1, <1>2, <1>3, <1>6

\* The cursor moves only where nothing that is not stored goes out of reach.
LEMMA StepMovesOn ==
  ASSUME IInv, IInv', NoRecordLost', UNCHANGED <<hub, store>>, cursorId <= cursorId'
  PROVE  Mirror!MoveOn
<1>1. /\ cursorId \in Nat /\ cursorId' \in Nat /\ cursorTime' \in Nat /\ Overlap \in Nat
      /\ UNCHANGED Good
  BY IngestAssumption DEF IInv, TypeOK, Good
<1>2. \A r \in Mirror!Missing : r.id > cursorId' /\ r.recv >= cursorTime' - Overlap
  BY DEF Mirror!Missing, Good, NoRecordLost
<1> QED BY <1>1, <1>2 DEF Mirror!MoveOn, Mirror!Reachable

LEMMA StepCopies ==
  ASSUME IInv, NEW w \in Workers, InsertRows(w)
  PROVE  Mirror!Copy
<1>1. WalkInv(w)
  BY DEF IInv, SyncInv, InsertRows
<1>2. UNCHANGED <<hub, cursorId, cursorTime>>
  BY DEF InsertRows
<1>3. store' = store \/ store' = store \cup IdsOf({r \in sync[w].got : r.kind = "ok"})
  BY DEF InsertRows
<1>4. IdsOf({r \in sync[w].got : r.kind = "ok"}) \subseteq Mirror!IdsIn(Good)
  BY <1>1 DEF WalkInv, IdsOf, Mirror!IdsIn, Good
<1> QED BY <1>2, <1>3, <1>4 DEF Mirror!Copy, Good

LEMMA StepRefines ==
  ASSUME HubAssumption, IInv, IInv', NoRecordLost', Next
  PROVE  Mirror!Next \/ UNCHANGED <<Good, store, cursorId, cursorTime - Overlap>>
<1>1. ASSUME NEW r \in Records, Publish(r)
      PROVE  Mirror!Next \/ UNCHANGED <<Good, store, cursorId, cursorTime - Overlap>>
  <2>1. hub' = hub \cup {r} /\ UNCHANGED <<store, cursorId, cursorTime>> /\ r.id \notin IdsOf(hub)
    BY <1>1 DEF Publish
  <2>2. CASE r.kind = "ok"
    <3>1. r.id > cursorId /\ r.recv >= cursorTime - Overlap
      BY <1>1, PublishReachable
    <3>2. Good' = Good \cup {r} /\ r.id \notin Mirror!IdsIn(Good)
      BY <2>1, <2>2 DEF Good, IdsOf, Mirror!IdsIn
    <3>3. Mirror!Publish(r)
      BY <2>1, <3>1, <3>2 DEF Mirror!Publish, Mirror!Reachable
    <3> QED BY <3>3 DEF Mirror!Next
  <2>3. CASE r.kind # "ok"
    <3>1. Good' = Good
      BY <2>1, <2>3 DEF Good
    <3> QED BY <2>1, <3>1
  <2> QED BY <2>2, <2>3
<1>2. ASSUME NEW w \in Workers, InsertRows(w) PROVE Mirror!Next
  BY <1>2, StepCopies DEF Mirror!Next
<1>3. ASSUME NEW w \in Workers, SaveIngestCursor(w) PROVE Mirror!Next
  <2>1. UNCHANGED <<hub, store>>
    BY <1>3 DEF SaveIngestCursor
  <2>2. cursorId <= cursorId'
    BY <1>3, SaveStep
  <2> QED BY <2>1, <2>2, StepMovesOn DEF Mirror!Next
<1>4. ASSUME UNCHANGED <<hub, store, cursorId, cursorTime>>
      PROVE  UNCHANGED <<Good, store, cursorId, cursorTime - Overlap>>
  BY <1>4 DEF Good
<1>5. ASSUME NEW w \in Workers, Begin(w) \/ FetchPage(w) \/ RejectToken(w) \/ SyncFails(w)
      PROVE  UNCHANGED <<hub, store, cursorId, cursorTime>>
  BY <1>5 DEF Begin, GetIngestCursor, FetchPage, RejectToken, SyncFails
<1>6. Restart \/ Lull => UNCHANGED <<hub, store, cursorId, cursorTime>>
  BY DEF Restart, Lull
<1> QED BY <1>1, <1>2, <1>3, <1>4, <1>5, <1>6 DEF Next, Advance

\* Ingestion is the mirror LogMirror promises: it stores what the Hub holds,
\* keeps it, and moves its cursor only where nothing goes out of reach.
THEOREM Implements ==
  ASSUME HubAssumption
  PROVE  Spec => ImplementsMirror
<1>1. Init => Mirror!Init
  <2> SUFFICES ASSUME Init PROVE Mirror!Init
    OBVIOUS
  <2>1. hub \subseteq Records /\ \A r \in hub : r.kind = "ok"
    BY DEF Init
  <2>2. Good = hub
    BY <2>1 DEF Good
  <2>3. cursorId \in Int /\ cursorTime \in Int
    <3>1. CASE \E r \in Records : /\ cursorId = r.id
                                  /\ cursorTime \in r.recv .. r.recv + SeedAhead
      <4>1. \A r \in Records : r.id \in Nat /\ r.recv \in Nat
        BY IngestAssumption DEF Records
      <4> QED BY <3>1, <4>1
    <3>2. CASE cursorId = 0 /\ cursorTime = 0
      BY <3>2
    <3> QED BY <3>1, <3>2 DEF Init
  <2>4. store = Mirror!IdsIn(Good)
    BY <2>2 DEF Init, IdsOf, Mirror!IdsIn
  <2> QED BY <2>1, <2>2, <2>3, <2>4, IngestAssumption DEF Mirror!Init
<1>2. IInv /\ IInv' /\ NoRecordLost' /\ [Next]_vars
      => [Mirror!Next]_<<Good, store, cursorId, cursorTime - Overlap>>
  <2>1. UNCHANGED vars => UNCHANGED <<Good, store, cursorId, cursorTime - Overlap>>
    BY DEF vars, Good
  <2> QED BY <2>1, StepRefines
<1>3. Spec => Mirror!Init /\ [][Mirror!Next]_<<Good, store, cursorId, cursorTime - Overlap>>
  BY <1>1, <1>2, Inductive, Lossless, PTL DEF Spec
<1> QED
  BY <1>3 DEF ImplementsMirror, Mirror!Spec

\* What the mirror is for: in it no missing record goes out of reach, so
\* whatever implements it loses no record.
THEOREM MirrorLosesNone == ImplementsMirror => []NoRecordLost
<1>1. Mirror!Init => Mirror!NothingOutOfReach
  BY DEF Mirror!Init, Mirror!NothingOutOfReach, Mirror!Missing, Mirror!IdsIn
<1>2. Mirror!NothingOutOfReach /\ [Mirror!Next]_<<Good, store, cursorId, cursorTime - Overlap>>
      => Mirror!NothingOutOfReach'
  <2> SUFFICES ASSUME Mirror!NothingOutOfReach,
                      [Mirror!Next]_<<Good, store, cursorId, cursorTime - Overlap>>
               PROVE  Mirror!NothingOutOfReach'
    OBVIOUS
  <2> USE DEF Mirror!NothingOutOfReach, Mirror!Missing, Mirror!Reachable
  <2>1. CASE UNCHANGED <<Good, store, cursorId, cursorTime - Overlap>>
    BY <2>1
  <2>2. ASSUME NEW r \in Records, Mirror!Publish(r) PROVE Mirror!NothingOutOfReach'
    BY <2>2 DEF Mirror!Publish
  <2>3. CASE Mirror!Copy
    BY <2>3 DEF Mirror!Copy
  <2>4. CASE Mirror!MoveOn
    BY <2>4 DEF Mirror!MoveOn
  <2> QED BY <2>1, <2>2, <2>3, <2>4 DEF Mirror!Next
<1>3. Mirror!NothingOutOfReach => NoRecordLost
  BY DEF Mirror!NothingOutOfReach, Mirror!Missing, Mirror!Reachable, Good, NoRecordLost
<1>4. ImplementsMirror => Mirror!Init /\ [][Mirror!Next]_<<Good, store, cursorId, cursorTime - Overlap>>
  BY DEF ImplementsMirror, Mirror!Spec
<1> QED
  BY <1>1, <1>2, <1>3, <1>4, PTL

=============================================================================

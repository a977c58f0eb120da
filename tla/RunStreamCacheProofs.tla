------------------------ MODULE RunStreamCacheProofs ------------------------
(***************************************************************************)
(* Theorems about RunStreamCache, for every number of callers and any      *)
(* history.  The lists callers fetched are snapshots of a growing table,   *)
(* so any two of one session are nested; that is why comparing the row at  *)
(* the last position is enough to know that a list extends another.        *)
(***************************************************************************)
EXTENDS RunStreamCache, FiniteSetTheorems, TLAPS

---------------------------------------------------------------------------
(* Lists as ordered sets. *)

\* Rows with distinct ids are strictly and totally ordered by (event_ts, id).
LEMMA Order ==
    /\ \A e \in Events : ~ Before(e, e)
    /\ \A d, e, f \in Events : Before(d, e) /\ Before(e, f) => Before(d, f)
    /\ \A d, e \in Events : d.id = e.id \/ Before(d, e) \/ Before(e, d)
<1>1. ASSUME NEW e \in Events PROVE e.id \in Int /\ e.ts \in Int
  <2>1. e.id \in Ids /\ e.ts \in Times
    BY DEF Events
  <2>2. e.id \in Nat /\ e.ts \in Nat
    BY <2>1, CacheAssumption
  <2> QED BY <2>2
<1> QED BY <1>1 DEF Before

\* A position is the size of a finite set.
LEMMA PositionNat ==
    ASSUME NEW S, IsFiniteSet(S), NEW e
    PROVE  /\ Position(S, e) \in Nat
           /\ IsFiniteSet({d \in S : Before(d, e)})
<1>1. IsFiniteSet({d \in S : Before(d, e)})
  BY FS_Subset
<1> QED BY <1>1, FS_CardinalityType DEF Position

\* Positions follow the order.
LEMMA PositionMono ==
    ASSUME NEW S \in SUBSET Events, IsFiniteSet(S),
           NEW d \in S, NEW e \in S, Before(d, e)
    PROVE  Position(S, d) < Position(S, e)
<1> DEFINE D == {x \in S : Before(x, d)}
           E == {x \in S : Before(x, e)}
<1>1. D \subseteq E /\ d \in E /\ d \notin D
  BY Order
<1>2. IsFiniteSet(D) /\ IsFiniteSet(E)
  BY FS_Subset
<1>3. Cardinality(D) \in Nat /\ Cardinality(E) \in Nat
  BY <1>2, FS_CardinalityType
<1>4. Cardinality(D) <= Cardinality(E) /\ Cardinality(D) # Cardinality(E)
  BY <1>1, <1>2, FS_Subset
<1> QED BY <1>3, <1>4 DEF Position

\* Different rows have different positions.
LEMMA PositionInjective ==
    ASSUME NEW S \in SUBSET Events, IsFiniteSet(S),
           \A d, e \in S : d.id = e.id => d = e,
           NEW d \in S, NEW e \in S, Position(S, d) = Position(S, e)
    PROVE  d = e
<1>1. Position(S, d) \in Nat /\ Position(S, e) \in Nat
  BY PositionNat
<1>2. ~ Before(d, e) /\ ~ Before(e, d)
  BY <1>1, PositionMono
<1> QED BY <1>2, Order

---------------------------------------------------------------------------
(* What a stream holds. *)

\* The stream holds exactly the list seen, which is part of the table T.
Exact(n, T) ==
    /\ n.seen \subseteq T
    /\ n.fed = Cardinality(n.seen)
    /\ IsLastId(n.lastId, n.seen)
    /\ ~ n.garbled

Nested(A, B) == A \subseteq B \/ B \subseteq A

IsTable(T) ==
    /\ T \subseteq Events
    /\ IsFiniteSet(T)
    /\ \A d, e \in T : d.id = e.id => d = e

\* A list that extends the stream's begins with it.
LEMMA ExtendsIsPrefix ==
    ASSUME NEW T, IsTable(T), NEW n, Exact(n, T),
           NEW S \in SUBSET T, Nested(n.seen, S), Extends(n, S), n.fed # 0
    PROVE  \E e \in S : /\ n.seen = {d \in S : Before(d, e)} \cup {e}
                        /\ n.fed = Position(S, e) + 1
<1>1. PICK e \in S : Position(S, e) = n.fed - 1 /\ e.id = n.lastId
  BY DEF Extends
<1> DEFINE P == {d \in S : Before(d, e)}
           Q == {d \in n.seen : Before(d, e)}
<1>2. n.seen # {}
  BY FS_EmptySet DEF Exact
<1>3. PICK l \in n.seen : l.id = n.lastId /\ \A d \in n.seen : d = l \/ Before(d, l)
  BY <1>2 DEF Exact, IsLastId
<1>4. l = e
  BY <1>1, <1>3 DEF Exact, IsTable
<1>5. n.seen = Q \cup {e} /\ e \notin Q
  BY <1>3, <1>4, Order DEF Exact, IsTable
<1>6. IsFiniteSet(P) /\ IsFiniteSet(Q)
  BY FS_Subset DEF Exact, IsTable
<1>7. Cardinality(P) \in Nat /\ Cardinality(Q) \in Nat
  BY <1>6, FS_CardinalityType
<1>8. n.fed = Cardinality(Q) + 1
  BY <1>5, <1>6, FS_AddElement DEF Exact
<1>9. Cardinality(P) = Cardinality(Q)
  BY <1>1, <1>7, <1>8 DEF Position
<1>10. P = Q
  <2>1. P \subseteq Q \/ Q \subseteq P
    BY DEF Nested
  <2>2. CASE P \subseteq Q
    BY <2>2, <1>6, <1>9, FS_Subset
  <2>3. CASE Q \subseteq P
    BY <2>3, <1>6, <1>9, FS_Subset
  <2> QED BY <2>1, <2>2, <2>3
<1> QED BY <1>1, <1>5, <1>7, <1>8, <1>10 DEF Position

\* Feeding the current stream the rest of a list leaves a stream that holds
\* exactly that list, pushed in order.
LEMMA PushExact ==
    ASSUME NEW T, IsTable(T), NEW n, Exact(n, T), n.fed = 0 => n.seen = {},
           NEW S \in SUBSET T, Nested(n.seen, S), Extends(n, S)
    PROVE  /\ n.seen \cup NewEvents(n, S) = S
           /\ \A e \in NewEvents(n, S), d \in n.seen : Before(d, e)
<1>1. IsFiniteSet(S) /\ S \subseteq Events
  BY FS_Subset DEF IsTable
<1>2. CASE n.fed = 0
  <2>1. ASSUME NEW x \in S PROVE n.fed <= Position(S, x)
    <3>1. Position(S, x) \in Nat
      BY <1>1, PositionNat
    <3> QED BY <1>2, <3>1
  <2> QED BY <1>2, <2>1 DEF NewEvents
<1>3. CASE n.fed # 0
  <2>1. PICK e \in S : /\ n.seen = {d \in S : Before(d, e)} \cup {e}
                       /\ n.fed = Position(S, e) + 1
    BY <1>3, ExtendsIsPrefix
  <2>2. \A x \in S : Position(S, x) \in Nat
    BY <1>1, PositionNat
  <2>3. \A x \in S : Before(e, x) => x \in NewEvents(n, S)
    BY <1>1, <2>1, <2>2, PositionMono DEF NewEvents
  <2>4. \A x \in NewEvents(n, S) : x \in S /\ ~ Before(x, e) /\ x # e
    BY <1>1, <2>1, <2>2, PositionMono DEF NewEvents
  <2>5. \A x \in S : x = e \/ Before(x, e) \/ Before(e, x)
    BY <1>1, Order DEF IsTable
  <2>6. n.seen \cup NewEvents(n, S) = S
    BY <2>1, <2>3, <2>4, <2>5
  <2>7. \A x \in NewEvents(n, S), d \in n.seen : Before(d, x)
    BY <1>1, <2>1, <2>4, <2>5, Order
  <2> QED BY <2>6, <2>7
<1> QED BY <1>2, <1>3

\* So it is the stream a fresh one fed with the list would be.
LEMMA PushResult ==
    ASSUME NEW T, IsTable(T), NEW n, Exact(n, T), n.fed = 0 => n.seen = {},
           NEW S \in SUBSET T, Nested(n.seen, S), Extends(n, S), NEW i
    PROVE  Push(n, S, i) = [fed |-> Cardinality(S), lastId |-> i, seen |-> S,
                            garbled |-> FALSE]
<1>1. n.seen \cup NewEvents(n, S) = S
  BY PushExact
<1>2. ~ \E e \in NewEvents(n, S), d \in n.seen : ~ Before(d, e)
  BY PushExact
<1>3. (n.garbled \/ \E e \in NewEvents(n, S), d \in n.seen : ~ Before(d, e)) = FALSE
  BY <1>2, Zenon DEF Exact
<1> QED BY <1>1, <1>3, Zenon DEF Push

---------------------------------------------------------------------------
(* The inductive invariant. *)

TablesOK == \A s \in Sessions : IsTable(table[s])

\* Every stream holds exactly a list that was once the table.
EntriesOK == \A s \in Sessions : Exact(entry[s], table[s])

Active(w) == call[w].pc # "idle"

\* A fetched list is a part of the table, and its beginning in a session
\* whose events came in order.
Snapshots ==
    \A w \in Workers : Active(w) =>
        /\ call[w].events \subseteq table[call[w].session]
        /\ call[w].session \notin late =>
              \A e \in call[w].events, d \in table[call[w].session] :
                  Before(d, e) => d \in call[w].events

\* Two lists of one session, or a list and the stream, are nested.
AllNested ==
    \A w \in Workers : Active(w) =>
        /\ Nested(entry[call[w].session].seen, call[w].events)
        /\ \A x \in Workers : Active(x) /\ call[x].session = call[w].session =>
              Nested(call[x].events, call[w].events)

\* What a call got from its stream.
Returned ==
    \A w \in Workers : call[w].pc = "persist" =>
        /\ ~ call[w].garbled
        /\ call[w].runs = RunsOf(call[w].events)
        /\ \A e \in call[w].todo : e \in call[w].events /\ e.id \in NotableIds

\* A row's index is where its run stands, while events come in order.
RowsPlaced ==
    \A r \in rows :
        /\ r.cause \in table[r.session]
        /\ r.cause.id \in RunIds
        /\ r.session \notin late =>
              r.index = Position(RunsOf(table[r.session]), r.cause)

CacheInv ==
    /\ TypeOK
    /\ TablesOK
    /\ EntriesOK
    /\ Snapshots
    /\ AllNested
    /\ Returned
    /\ RowsPlaced
    /\ NoneSkipped

LEMMA FreshExact == \A T : Exact(Fresh, T)
BY FS_EmptySet DEF Exact, Fresh, IsLastId

LEMMA Elements == Idle \in Calls /\ Fresh \in Entries /\ 0 \in Nat
BY DEF Idle, Calls, Pcs, Fresh, Entries

LEMMA InitInv == Init => CacheInv
<1> SUFFICES ASSUME Init PROVE CacheInv
  OBVIOUS
<1>1. TypeOK
  BY Elements, CacheAssumption DEF Init, TypeOK, Idle
<1>2. \A w \in Workers : call[w].pc = "idle"
  BY DEF Init, Idle
<1>3. TablesOK
  BY FS_EmptySet DEF Init, TablesOK, IsTable
<1>4. EntriesOK
  BY FreshExact DEF Init, EntriesOK
<1>5. Snapshots /\ AllNested /\ Returned /\ NoneSkipped
  BY <1>2 DEF Snapshots, AllNested, Returned, NoneSkipped, Active
<1>6. RowsPlaced
  BY DEF Init, RowsPlaced
<1> QED BY <1>1, <1>3, <1>4, <1>5, <1>6 DEF CacheInv

---------------------------------------------------------------------------
(* One lemma per action. *)

LEMMA StoreStep ==
    ASSUME CacheInv, NEW s \in Sessions, NEW e \in Events, StoreEvent(s, e)
    PROVE  CacheInv'
<1> USE DEF CacheInv
<1>1. /\ table' = [table EXCEPT ![s] = @ \cup {e}]
      /\ late' = late \/ late' = late \cup {s}
      /\ s \notin late' => \A d \in table[s] : ~ Before(e, d)
      /\ \A d \in table[s] : d.id # e.id
      /\ UNCHANGED <<entry, age, call, rows, faults>>
  BY DEF StoreEvent
<1>2. TypeOK'
  BY <1>1 DEF TypeOK
<1>3. /\ table'[s] = table[s] \cup {e}
      /\ \A t \in Sessions : t # s => table'[t] = table[t]
      /\ \A t \in Sessions : table[t] \subseteq table'[t]
  BY <1>1 DEF TypeOK
<1>4. TablesOK'
  <2>1. IsTable(table[s] \cup {e})
    BY <1>1, FS_AddElement DEF TablesOK, IsTable
  <2> QED BY <1>3, <2>1 DEF TablesOK
<1>5. EntriesOK'
  BY <1>1, <1>3 DEF EntriesOK, Exact
<1>6. Snapshots'
  BY <1>1, <1>3 DEF Snapshots, Active, TypeOK
<1>7. AllNested' /\ Returned' /\ NoneSkipped'
  BY <1>1 DEF AllNested, Returned, NoneSkipped, Active
<1>8. RowsPlaced'
  <2> SUFFICES ASSUME NEW r \in rows
               PROVE  /\ r.cause \in table'[r.session]
                      /\ r.cause.id \in RunIds
                      /\ r.session \notin late' =>
                            r.index = Position(RunsOf(table'[r.session]), r.cause)
    BY <1>1 DEF RowsPlaced
  <2>1. r.session \in Sessions
    BY DEF TypeOK, Rows
  <2>2. r.session \notin late' => r.session \notin late
    BY <1>1
  <2>3. ASSUME r.session \notin late'
        PROVE  {d \in RunsOf(table'[r.session]) : Before(d, r.cause)}
                 = {d \in RunsOf(table[r.session]) : Before(d, r.cause)}
    <3>1. r.session = s => ~ Before(e, r.cause)
      BY <1>1, <2>3 DEF RowsPlaced
    <3>2. \A d : Before(d, r.cause) =>
             (d \in table'[r.session] <=> d \in table[r.session])
      BY <1>3, <2>1, <3>1
    <3> QED BY <3>2 DEF RunsOf
  <2> QED BY <1>3, <2>1, <2>2, <2>3 DEF RowsPlaced, Position
<1> QED BY <1>2, <1>4, <1>5, <1>6, <1>7, <1>8

LEMMA FetchStep ==
    ASSUME CacheInv, NEW w \in Workers, NEW s \in Sessions, Fetch(w, s)
    PROVE  CacheInv'
<1> USE DEF CacheInv
<1> DEFINE c == [Idle EXCEPT !.pc = "fetched", !.session = s, !.events = table[s]]
<1>1. /\ call' = [call EXCEPT ![w] = c]
      /\ UNCHANGED <<table, entry, age, rows, late, faults>>
  BY DEF Fetch, Become
<1>2. /\ c \in Calls
      /\ c.pc = "fetched" /\ c.session = s /\ c.events = table[s]
  BY DEF TypeOK, Idle, Calls, Pcs
<1> HIDE DEF c
<1>3. /\ call'[w] = c
      /\ \A x \in Workers : x # w => call'[x] = call[x]
  BY <1>1 DEF TypeOK
<1>4. TypeOK'
  BY <1>1, <1>2, <1>3 DEF TypeOK
<1>5. TablesOK' /\ EntriesOK' /\ RowsPlaced'
  BY <1>1 DEF TablesOK, EntriesOK, RowsPlaced
<1>6. Snapshots'
  BY <1>1, <1>2, <1>3 DEF Snapshots, Active
<1>7. AllNested'
  BY <1>1, <1>2, <1>3 DEF AllNested, Active, Nested, Snapshots, EntriesOK, Exact
<1>8. Returned' /\ NoneSkipped'
  BY <1>1, <1>2, <1>3 DEF Returned, NoneSkipped
<1> QED BY <1>4, <1>5, <1>6, <1>7, <1>8

LEMMA ComputeStep ==
    ASSUME CacheInv, NEW w \in Workers, ComputeRuns(w)
    PROVE  CacheInv'
<1> USE DEF CacheInv
<1> DEFINE s == call[w].session
           S == call[w].events
           n == Current(s, S)
           m(i) == [fed |-> Cardinality(S), lastId |-> i, seen |-> S, garbled |-> FALSE]
           c == [call[w] EXCEPT !.pc = "persist", !.runs = RunsOf(S), !.garbled = FALSE,
                                !.todo = {e \in S : e.id \in NotableIds}]
<1>1. /\ call[w] \in Calls
      /\ call[w].pc = "fetched"
      /\ s \in Sessions
      /\ UNCHANGED <<table, rows, late, faults>>
  BY DEF ComputeRuns, TypeOK
<1>2. /\ IsTable(table[s])
      /\ S \in SUBSET table[s]
      /\ IsFiniteSet(S)
  BY <1>1, FS_Subset DEF TablesOK, Snapshots, Active, IsTable
<1>3. /\ Exact(n, table[s])
      /\ n.fed = 0 => n.seen = {}
      /\ Extends(n, S)
      /\ Nested(n.seen, S)
  <2>1. CASE n = Fresh
    BY <2>1, FreshExact DEF Fresh, Extends, Nested
  <2>2. CASE n = entry[s] /\ Extends(entry[s], S)
    <3>1. IsFiniteSet(n.seen)
      BY <1>1, <1>2, <2>2, FS_Subset DEF EntriesOK, Exact, IsTable
    <3>2. n.fed = Cardinality(n.seen)
      BY <1>1, <2>2 DEF EntriesOK, Exact
    <3> QED BY <1>1, <2>2, <3>1, <3>2, FS_EmptySet DEF EntriesOK, AllNested, Active
  <2> QED BY <2>1, <2>2 DEF Current
<1>4. \A i : Push(n, S, i) = m(i)
  <2> SUFFICES ASSUME NEW i PROVE Push(n, S, i) = m(i)
    OBVIOUS
  <2> DEFINE T == table[s]
  <2>1. /\ IsTable(T) /\ S \in SUBSET T /\ Exact(n, T)
        /\ n.fed = 0 => n.seen = {}
        /\ Extends(n, S) /\ Nested(n.seen, S)
    BY <1>2, <1>3
  <2>2. Push(n, S, i) = [fed |-> Cardinality(S), lastId |-> i, seen |-> S,
                         garbled |-> FALSE]
    <3> HIDE DEF T, S, n, m
    <3> QED BY <2>1, PushResult
  <2> QED BY <2>2
<1>5. PICK i \in Ids \cup {0} :
         /\ IsLastId(i, S)
         /\ Keep(s, m(i))
         /\ call' = [call EXCEPT ![w] = c]
  <2>1. PICK i \in Ids \cup {0} :
           /\ IsLastId(i, S)
           /\ Keep(s, Push(n, S, i))
           /\ Become(w, [call[w] EXCEPT
                 !.pc = "persist", !.runs = RunsOf(Push(n, S, i).seen),
                 !.garbled = Push(n, S, i).garbled,
                 !.todo = {e \in Push(n, S, i).seen : e.id \in NotableIds}])
    BY DEF ComputeRuns
  <2>2. Push(n, S, i) = m(i) /\ m(i).seen = S /\ m(i).garbled = FALSE
    BY <1>4
  <2> QED BY <2>1, <2>2 DEF Become
<1>6. /\ m(i) \in Entries
      /\ m(i).seen = S
      /\ Exact(m(i), table[s])
  BY <1>1, <1>2, <1>5, FS_CardinalityType, CacheAssumption
  DEF Entries, Exact, Calls
<1>7. /\ c \in Calls
      /\ c.pc = "persist" /\ c.session = s /\ c.events = S
      /\ c.runs = RunsOf(S) /\ ~ c.garbled
      /\ c.todo = {e \in S : e.id \in NotableIds}
  BY <1>1 DEF Calls, Pcs, RunsOf
<1> HIDE DEF c, m
<1>8. /\ call'[w] = c
      /\ \A x \in Workers : x # w => call'[x] = call[x]
  BY <1>5 DEF TypeOK
<1>9. /\ entry' \in [Sessions -> Entries]
      /\ \A t \in Sessions : \/ entry'[t] = Fresh
                             \/ t = s /\ entry'[t] = m(i)
                             \/ entry'[t] = entry[t]
  BY <1>5, <1>6, Elements DEF Keep, TypeOK
<1>10. age' \in [Sessions -> 0 .. RUN_STREAMS_MAX]
  BY <1>1, <1>5, CacheAssumption DEF Keep, Touched, TypeOK
<1>11. TypeOK'
  BY <1>1, <1>5, <1>7, <1>8, <1>9, <1>10 DEF TypeOK
<1>12. TablesOK' /\ RowsPlaced'
  BY <1>1 DEF TablesOK, RowsPlaced
<1>13. EntriesOK'
  BY <1>1, <1>6, <1>9, FreshExact DEF EntriesOK
<1>14. \A x \in Workers : /\ Active(x)' <=> Active(x)
                         /\ call'[x].session = call[x].session
                         /\ call'[x].events = call[x].events
  BY <1>1, <1>7, <1>8 DEF Active
<1>15. Snapshots'
  BY <1>1, <1>14 DEF Snapshots
<1>16. AllNested'
  <2>1. ASSUME NEW x \in Workers, Active(x)
        PROVE  Nested(entry'[call[x].session].seen, call[x].events)
    <3>1. call[x].session \in Sessions
      BY <2>1 DEF TypeOK, Active
    <3>2. Nested(entry[call[x].session].seen, call[x].events)
      BY <2>1 DEF AllNested
    <3>3. call[x].session = s => Nested(S, call[x].events)
      BY <1>1, <2>1 DEF AllNested, Active
    <3>4. Fresh.seen = {} /\ Nested({}, call[x].events)
      BY DEF Fresh, Nested
    <3> QED BY <1>6, <1>9, <3>1, <3>2, <3>3, <3>4
  <2> QED BY <1>14, <2>1 DEF AllNested
<1>17. Returned'
  BY <1>7, <1>8 DEF Returned
<1>18. NoneSkipped'
  BY <1>1, <1>7, <1>8 DEF NoneSkipped
<1> QED BY <1>11, <1>12, <1>13, <1>15, <1>16, <1>17, <1>18

LEMMA QuietStep ==
    ASSUME CacheInv, NEW w \in Workers, Become(w, Idle),
           UNCHANGED <<table, entry, age, rows, late>>, faults' \in Nat
    PROVE  CacheInv'
<1> USE DEF CacheInv
<1>1. /\ call'[w] = Idle
      /\ \A x \in Workers : x # w => call'[x] = call[x]
      /\ Idle.pc = "idle"
  BY DEF Become, TypeOK, Idle
<1>2. TypeOK'
  BY <1>1, Elements DEF TypeOK, Become
<1>3. TablesOK' /\ EntriesOK' /\ RowsPlaced'
  BY DEF TablesOK, EntriesOK, RowsPlaced
<1>4. Snapshots' /\ AllNested'
  BY <1>1 DEF Snapshots, AllNested, Active
<1>5. Returned' /\ NoneSkipped'
  BY <1>1 DEF Returned, NoneSkipped
<1> QED BY <1>2, <1>3, <1>4, <1>5

LEMMA RestartStep == CacheInv /\ Restart => CacheInv'
<1> SUFFICES ASSUME CacheInv, Restart PROVE CacheInv'
  OBVIOUS
<1> USE DEF CacheInv
<1>1. \A w \in Workers : call'[w].pc = "idle"
  BY DEF Restart, Idle
<1>2. TypeOK'
  BY Elements, CacheAssumption DEF TypeOK, Restart, Idle
<1>3. TablesOK' /\ EntriesOK' /\ RowsPlaced'
  BY FreshExact DEF TablesOK, EntriesOK, RowsPlaced, Restart
<1>4. Snapshots' /\ AllNested' /\ Returned' /\ NoneSkipped'
  BY <1>1 DEF Snapshots, AllNested, Returned, NoneSkipped, Active
<1> QED BY <1>2, <1>3, <1>4

\* The index of a run of the list is its place in the table.
LEMMA ListedPlace ==
    ASSUME CacheInv, NEW w \in Workers, call[w].pc = "persist",
           call[w].session \notin late, NEW e \in call[w].events
    PROVE  Position(RunsOf(call[w].events), e)
             = Position(RunsOf(table[call[w].session]), e)
<1>1. \A d : Before(d, e) =>
         (d \in call[w].events <=> d \in table[call[w].session])
  BY DEF CacheInv, Snapshots, Active
<1>2. {d \in RunsOf(call[w].events) : Before(d, e)}
        = {d \in RunsOf(table[call[w].session]) : Before(d, e)}
  BY <1>1 DEF RunsOf
<1> QED BY <1>2 DEF Position

\* Two runs of a table with one index are one run.
LEMMA OnePlace ==
    ASSUME CacheInv, NEW s \in Sessions,
           NEW d \in RunsOf(table[s]), NEW e \in RunsOf(table[s]),
           Position(RunsOf(table[s]), d) = Position(RunsOf(table[s]), e)
    PROVE  d = e
<1>1. /\ RunsOf(table[s]) \in SUBSET table[s]
      /\ IsTable(table[s])
  BY DEF RunsOf, CacheInv, TablesOK
<1>2. IsFiniteSet(RunsOf(table[s]))
  BY <1>1, FS_Subset DEF IsTable
<1> QED BY <1>1, <1>2, PositionInjective DEF IsTable

LEMMA PersistStep ==
    ASSUME CacheInv, NEW w \in Workers, NEW e \in Events, PersistFire(w, e)
    PROVE  CacheInv'
<1> USE DEF CacheInv
<1> DEFINE s == call[w].session
           i == Position(call[w].runs, e)
           c == [call[w] EXCEPT !.todo = @ \ {e}]
           row == [session |-> s, index |-> i, cause |-> e]
<1>1. /\ call[w].pc = "persist"
      /\ e \in call[w].todo
      /\ call' = [call EXCEPT ![w] = c]
      /\ rows' = IF Taken(s, i) THEN rows ELSE rows \cup {row}
      /\ UNCHANGED <<table, entry, age, late, faults>>
  BY DEF PersistFire, Become
<1>2. /\ call[w] \in Calls
      /\ s \in Sessions
      /\ e \in call[w].events /\ e.id \in NotableIds /\ e.id \in RunIds
      /\ call[w].runs = RunsOf(call[w].events)
      /\ e \in RunsOf(table[s])
  BY <1>1, CacheAssumption DEF TypeOK, Returned, Snapshots, Active, RunsOf
<1>3. /\ c \in Calls
      /\ c.pc = "persist" /\ c.session = s /\ c.events = call[w].events
      /\ c.runs = call[w].runs /\ (c.garbled <=> call[w].garbled)
      /\ c.todo = call[w].todo \ {e}
  BY <1>1, <1>2 DEF Calls
<1> HIDE DEF c
<1>4. /\ call'[w] = c
      /\ \A x \in Workers : x # w => call'[x] = call[x]
  BY <1>1 DEF TypeOK
<1>5. i \in Nat
  <2>1. IsFiniteSet(call[w].runs)
    BY <1>1, <1>2, FS_Subset DEF RunsOf, TablesOK, IsTable, Snapshots, Active
  <2> QED BY <2>1, PositionNat
<1>6. row.session = s /\ row.index = i /\ row.cause = e
  OBVIOUS
<1>7. row \in Rows
  BY <1>2, <1>5 DEF Rows
<1>8. s \notin late => i = Position(RunsOf(table[s]), e)
  BY <1>1, <1>2, ListedPlace
<1> HIDE DEF row, i
<1>9. TypeOK'
  BY <1>1, <1>2, <1>3, <1>4, <1>7 DEF TypeOK
<1>10. TablesOK' /\ EntriesOK'
  BY <1>1 DEF TablesOK, EntriesOK
<1>11. Snapshots' /\ AllNested'
  <2>1. \A x \in Workers : /\ Active(x)' <=> Active(x)
                          /\ call'[x].session = call[x].session
                          /\ call'[x].events = call[x].events
    BY <1>1, <1>3, <1>4 DEF Active
  <2> QED BY <1>1, <2>1 DEF Snapshots, AllNested
<1>12. Returned'
  BY <1>1, <1>3, <1>4 DEF Returned
<1>13. RowsPlaced'
  <2>1. row.cause \in table[row.session] /\ row.cause.id \in RunIds
    BY <1>2, <1>6 DEF RunsOf
  <2>2. \A r \in rows' : r \in rows \/ r = row
    BY <1>1
  <2> QED BY <1>1, <1>6, <1>8, <2>1, <2>2 DEF RowsPlaced
<1>14. NoneSkipped'
  <2>1. ASSUME s \notin late
        PROVE  \E r \in rows' : r.session = s /\ r.cause = e
    <3>1. CASE Taken(s, i)
      <4>1. PICK r \in rows : r.session = s /\ r.index = i
        BY <3>1 DEF Taken
      <4>2. /\ r.cause \in RunsOf(table[s])
            /\ Position(RunsOf(table[s]), r.cause) = Position(RunsOf(table[s]), e)
        BY <1>8, <2>1, <4>1 DEF RowsPlaced, RunsOf
      <4>3. r.cause = e
        BY <1>2, <4>2, OnePlace
      <4> QED BY <1>1, <3>1, <4>1, <4>3
    <3>2. CASE ~ Taken(s, i)
      BY <1>1, <1>6, <3>2
    <3> QED BY <3>1, <3>2
  <2>2. rows \subseteq rows'
    BY <1>1
  <2>3. ASSUME NEW x \in Workers, call'[x].pc = "persist", call'[x].session \notin late',
               NEW d \in call'[x].events, d.id \in NotableIds
        PROVE  \/ d \in call'[x].todo
               \/ \E r \in rows' : r.session = call'[x].session /\ r.cause = d
    <3>1. CASE x = w
      BY <1>1, <1>3, <1>4, <2>1, <2>2, <2>3, <3>1 DEF NoneSkipped
    <3>2. CASE x # w
      BY <1>1, <1>4, <2>2, <2>3, <3>2 DEF NoneSkipped
    <3> QED BY <3>1, <3>2
  <2> QED BY <2>3 DEF NoneSkipped
<1> QED BY <1>9, <1>10, <1>11, <1>12, <1>13, <1>14

LEMMA Inductive == CacheInv /\ [Next]_vars => CacheInv'
<1> SUFFICES ASSUME CacheInv, [Next]_vars PROVE CacheInv'
  OBVIOUS
<1>1. ASSUME NEW s \in Sessions, NEW e \in Events, StoreEvent(s, e)
      PROVE  CacheInv'
  BY <1>1, StoreStep
<1>2. ASSUME NEW w \in Workers, NEW s \in Sessions, Fetch(w, s)
      PROVE  CacheInv'
  BY <1>2, FetchStep
<1>3. ASSUME NEW w \in Workers, ComputeRuns(w)
      PROVE  CacheInv'
  BY <1>3, ComputeStep
<1>4. ASSUME NEW w \in Workers, NEW e \in Events, PersistFire(w, e)
      PROVE  CacheInv'
  BY <1>4, PersistStep
<1>5. ASSUME NEW w \in Workers, Finish(w) \/ CallFails(w)
      PROVE  CacheInv'
  <2>1. /\ Become(w, Idle)
        /\ UNCHANGED <<table, entry, age, rows, late>>
        /\ faults' \in Nat
    BY <1>5 DEF Finish, CallFails, CacheInv, TypeOK
  <2> QED BY <2>1, QuietStep
<1>6. CASE Restart
  BY <1>6, RestartStep
<1>7. CASE UNCHANGED vars
  BY <1>7 DEF vars, CacheInv, TypeOK, TablesOK, EntriesOK, Snapshots, AllNested,
              Active, Returned, RowsPlaced, NoneSkipped
<1> QED BY <1>1, <1>2, <1>3, <1>4, <1>5, <1>6, <1>7 DEF Next, Advance

LEMMA Invariance == Spec => []CacheInv
BY InitInv, Inductive, PTL DEF Spec

---------------------------------------------------------------------------
(* Theorems. *)

\* Every variable keeps its type.
THEOREM TypeCorrect == Spec => []TypeOK
<1>1. CacheInv => TypeOK
  BY DEF CacheInv
<1> QED BY <1>1, Invariance, PTL

\* Whoever fed a session's stream before, a caller gets the runs a fresh stream
\* would give for the list it fetched (proactive.py:143-145).
THEOREM CacheExact == Spec => []RunsExact
<1>1. CacheInv => RunsExact
  BY DEF CacheInv, Returned, RunsExact
<1> QED BY <1>1, Invariance, PTL

\* While a session's events come in order, a run_index is one run's and a run
\* has one run_index, so the unique key counts behaviours.
THEOREM IndexesStable == Spec => []IndexStable
<1>1. CacheInv => IndexStable
  <2> SUFFICES ASSUME CacheInv, NEW q \in rows, NEW r \in rows,
                      q.session = r.session, q.session \notin late
               PROVE  q.index = r.index <=> q.cause = r.cause
    BY DEF IndexStable
  <2> DEFINE s == q.session
  <2>1. /\ s \in Sessions
        /\ q.cause \in RunsOf(table[s]) /\ r.cause \in RunsOf(table[s])
        /\ q.index = Position(RunsOf(table[s]), q.cause)
        /\ r.index = Position(RunsOf(table[s]), r.cause)
    BY DEF CacheInv, TypeOK, Rows, RowsPlaced, RunsOf
  <2>2. q.index = r.index => q.cause = r.cause
    BY <2>1, OnePlace
  <2> QED BY <2>1, <2>2
<1> QED BY <1>1, Invariance, PTL

\* A detected run is still to be inserted or has its row, whatever calls failed
\* or raced before.
THEOREM NoRunSkipped == Spec => []NoneSkipped
<1>1. CacheInv => NoneSkipped
  BY DEF CacheInv
<1> QED BY <1>1, Invariance, PTL

=============================================================================

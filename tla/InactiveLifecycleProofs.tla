----------------------- MODULE InactiveLifecycleProofs -----------------------
(***************************************************************************)
(* The inactive fires of a session are numbered one by one and spaced by   *)
(* the re-alert time, for any number of concurrent passes and any          *)
(* thresholds.                                                             *)
(***************************************************************************)
EXTENDS InactiveLifecycle, TLAPS

\* Every number from -1 down to a row's own has a row.
NoGap ==
    \A r \in rows : \A i \in r.index .. INACTIVE_RUN_INDEX : \E q \in rows : q.index = i

OnePerIndex == \A q, r \in rows : q.index = r.index => q = r

\* No row and no pass is ahead of the clock.
InThePast ==
    /\ \A r \in rows : r.firedAt <= now
    /\ \A w \in Workers : pass[w].at <= now

\* A pass about to insert has its number from the row before, which was old
\* enough when the pass read the clock.
NextInLine ==
    \A w \in Workers : pass[w].pc = "insert" =>
        \/ pass[w].index = INACTIVE_RUN_INDEX
        \/ /\ pass[w].index < INACTIVE_RUN_INDEX
           /\ \E q \in rows : /\ q.index = pass[w].index + 1
                              /\ pass[w].at - q.firedAt >= ReAlertAfter

RowsInv ==
    /\ TypeOK
    /\ \A r \in rows : r.index <= INACTIVE_RUN_INDEX
    /\ NoGap
    /\ OnePerIndex
    /\ InThePast
    /\ NextInLine
    /\ Spaced

LEMMA InitInv == Init => RowsInv
<1> SUFFICES ASSUME Init PROVE RowsInv
  OBVIOUS
<1>1. TypeOK
  BY InactiveAssumption DEF Init, TypeOK, Resting, PassStates, Pcs
<1> QED
  BY <1>1 DEF Init, RowsInv, NoGap, OnePerIndex, InThePast, NextInLine, Spaced, Resting

\* The clock or the events move.
LEMMA OutsideStep ==
    ASSUME RowsInv, now' \in Nat, now <= now', lastEvent' \in Nat,
           UNCHANGED <<rows, pass, faults>>
    PROVE  RowsInv'
<1>1. TypeOK'
  BY DEF RowsInv, TypeOK
<1>2. InThePast'
  <2>1. \A r \in rows : r.firedAt \in Nat
    BY DEF RowsInv, TypeOK, Rows
  <2>2. \A w \in Workers : pass[w].at \in Nat
    BY DEF RowsInv, TypeOK, PassStates
  <2>3. now \in Nat
    BY DEF RowsInv, TypeOK
  <2> QED BY <2>1, <2>2, <2>3 DEF RowsInv, InThePast
<1>3. NoGap' /\ OnePerIndex' /\ NextInLine' /\ Spaced'
  BY DEF RowsInv, NoGap, OnePerIndex, NextInLine, Spaced
<1> QED BY <1>1, <1>2, <1>3 DEF RowsInv

\* A pass moves on without touching the rows.
LEMMA PassStep ==
    ASSUME RowsInv, NEW w \in Workers, NEW p \in PassStates, Become(w, p), faults' \in Nat,
           UNCHANGED <<now, lastEvent, rows>>,
           p.at <= now,
           p.pc = "insert" =>
               \/ p.index = INACTIVE_RUN_INDEX
               \/ /\ p.index < INACTIVE_RUN_INDEX
                  /\ \E q \in rows : /\ q.index = p.index + 1
                                     /\ p.at - q.firedAt >= ReAlertAfter
    PROVE  RowsInv'
<1>1. \A v \in Workers : pass'[v] = IF v = w THEN p ELSE pass[v]
  BY DEF Become, RowsInv, TypeOK
<1>2. TypeOK'
  BY DEF Become, RowsInv, TypeOK
<1>3. InThePast' /\ NextInLine'
  BY <1>1 DEF RowsInv, InThePast, NextInLine
<1>4. NoGap' /\ OnePerIndex' /\ Spaced'
  BY DEF RowsInv, NoGap, OnePerIndex, Spaced
<1> QED BY <1>2, <1>3, <1>4 DEF RowsInv

LEMMA RestingType ==
    Resting \in PassStates /\ Resting.pc = "idle" /\ Resting.at = 0
BY DEF Resting, PassStates, Pcs

LEMMA ResolveStep ==
    ASSUME RowsInv, NEW w \in Workers, Resolve(w)
    PROVE  RowsInv'
<1>1. /\ rows' = {[r EXCEPT !.state = "resolved"] : r \in rows}
      /\ Become(w, Resting) /\ UNCHANGED <<now, lastEvent, faults>>
  BY DEF Resolve
<1>2. /\ \A r \in rows : r \in Rows
      /\ now \in Nat
  BY DEF RowsInv, TypeOK
<1> DEFINE closed(q) == [q EXCEPT !.state = "resolved"]
<1>3. ASSUME NEW q \in rows
      PROVE  closed(q) \in Rows /\ closed(q).index = q.index /\ closed(q).firedAt = q.firedAt
  <2>1. q \in Rows
    BY <1>2
  <2> QED BY <2>1 DEF Rows
<1>4. rows' = {closed(q) : q \in rows}
  BY <1>1
<1> HIDE DEF closed
<1>5. \A r \in rows' : \E q \in rows : /\ r = closed(q)
                                       /\ r \in Rows
                                       /\ r.index = q.index /\ r.firedAt = q.firedAt
  BY <1>4, <1>3
<1>6. \A q \in rows : \E r \in rows' : r.index = q.index /\ r.firedAt = q.firedAt
  BY <1>4, <1>3
<1>7. \A v \in Workers : pass'[v] = IF v = w THEN Resting ELSE pass[v]
  BY <1>1 DEF Become, RowsInv, TypeOK
<1>8. TypeOK'
  BY <1>1, <1>5, RestingType DEF Become, RowsInv, TypeOK
<1>9. \A r \in rows' : r.index <= INACTIVE_RUN_INDEX
  BY <1>5 DEF RowsInv
<1>10. NoGap'
  BY <1>5, <1>6 DEF RowsInv, NoGap
<1>11. OnePerIndex'
  <2> SUFFICES ASSUME NEW r \in rows', NEW t \in rows', r.index = t.index PROVE r = t
    BY DEF OnePerIndex
  <2>1. PICK q \in rows : r = closed(q) /\ r.index = q.index
    BY <1>5
  <2>2. PICK u \in rows : t = closed(u) /\ t.index = u.index
    BY <1>5
  <2>3. q = u
    BY <2>1, <2>2 DEF RowsInv, OnePerIndex
  <2> QED BY <2>1, <2>2, <2>3
<1>12. InThePast'
  BY <1>1, <1>2, <1>5, <1>7, RestingType DEF RowsInv, InThePast
<1>13. NextInLine'
  <2> SUFFICES ASSUME NEW v \in Workers, pass'[v].pc = "insert",
                      pass'[v].index # INACTIVE_RUN_INDEX
               PROVE  /\ pass'[v].index < INACTIVE_RUN_INDEX
                      /\ \E q \in rows' : /\ q.index = pass'[v].index + 1
                                          /\ pass'[v].at - q.firedAt >= ReAlertAfter
    BY DEF NextInLine
  <2>1. v # w /\ pass'[v] = pass[v]
    BY <1>7, RestingType
  <2>2. pass[v].index < INACTIVE_RUN_INDEX
    BY <2>1 DEF RowsInv, NextInLine
  <2>3. PICK q \in rows : /\ q.index = pass[v].index + 1
                          /\ pass[v].at - q.firedAt >= ReAlertAfter
    BY <2>1 DEF RowsInv, NextInLine
  <2>4. PICK r \in rows' : r.index = q.index /\ r.firedAt = q.firedAt
    BY <1>6
  <2> QED BY <2>1, <2>2, <2>3, <2>4
<1>14. Spaced'
  BY <1>5 DEF RowsInv, Spaced
<1> QED BY <1>8, <1>9, <1>10, <1>11, <1>12, <1>13, <1>14 DEF RowsInv

LEMMA InsertStep ==
    ASSUME RowsInv, NEW w \in Workers, InsertRow(w)
    PROVE  RowsInv'
<1>1. Become(w, Resting) /\ UNCHANGED <<now, lastEvent, faults>> /\ faults \in Nat
  BY DEF InsertRow, RowsInv, TypeOK
<1>2. CASE rows' = rows
  BY <1>1, <1>2, PassStep, RestingType DEF RowsInv, TypeOK
<1>3. CASE rows' # rows
  <2> DEFINE k == pass[w].index
             new == [index |-> k, firedAt |-> now, state |-> "open"]
  <2>1. rows' = rows \cup {new} /\ \A r \in rows : r.index # k
    BY <1>3 DEF InsertRow
  <2>2. /\ k \in Int /\ now \in Nat /\ pass[w].at \in Nat /\ rows \subseteq Rows
        /\ ReAlertAfter \in Nat
    BY InactiveAssumption DEF RowsInv, TypeOK, PassStates
  <2>3. new \in Rows /\ new.index = k /\ new.firedAt = now
    BY <2>2 DEF Rows
  <2>4. pass[w].pc = "insert" /\ pass[w].at <= now
    BY DEF InsertRow, RowsInv, InThePast
  <2>5. k <= INACTIVE_RUN_INDEX
    BY <2>2, <2>4 DEF RowsInv, NextInLine, INACTIVE_RUN_INDEX
  <2>6. k # INACTIVE_RUN_INDEX =>
            \E q \in rows : q.index = k + 1 /\ pass[w].at - q.firedAt >= ReAlertAfter
    BY <2>4 DEF RowsInv, NextInLine
  <2> HIDE DEF new, k
  <2>7. \A v \in Workers : pass'[v] = IF v = w THEN Resting ELSE pass[v]
    BY <1>1 DEF Become, RowsInv, TypeOK
  <2>8. \A r \in rows : r \in Rows /\ r.index \in Int /\ r.firedAt \in Nat /\ r.firedAt <= now
    BY <2>2 DEF Rows, RowsInv, InThePast
  <2>9. TypeOK'
    BY <1>1, <2>1, <2>2, <2>3, RestingType DEF Become, RowsInv, TypeOK
  <2>10. \A r \in rows' : r.index <= INACTIVE_RUN_INDEX
    BY <2>1, <2>3, <2>5 DEF RowsInv
  <2>11. NoGap'
    <3> SUFFICES ASSUME NEW i \in k .. INACTIVE_RUN_INDEX
                 PROVE  \E q \in rows' : q.index = i
      BY <2>1, <2>3 DEF RowsInv, NoGap
    <3>1. CASE i = k
      BY <2>1, <2>3, <3>1
    <3>2. CASE i # k
      <4>1. k # INACTIVE_RUN_INDEX /\ i \in k + 1 .. INACTIVE_RUN_INDEX
        BY <2>2, <3>2 DEF INACTIVE_RUN_INDEX
      <4>2. PICK q \in rows : q.index = k + 1
        BY <2>6, <4>1
      <4> QED BY <2>1, <4>1, <4>2 DEF RowsInv, NoGap
    <3> QED BY <3>1, <3>2
  <2>12. OnePerIndex'
    BY <2>1, <2>3 DEF RowsInv, OnePerIndex
  <2>13. InThePast'
    BY <1>1, <2>1, <2>2, <2>3, <2>7, RestingType DEF RowsInv, InThePast
  <2>14. NextInLine'
    BY <2>1, <2>7, RestingType DEF RowsInv, NextInLine
  <2>15. \A r \in rows : k < r.index
    <3> SUFFICES ASSUME NEW r \in rows, r.index < k PROVE FALSE
      BY <2>1, <2>2, <2>8
    <3>1. k \in r.index .. INACTIVE_RUN_INDEX
      BY <2>2, <2>5, <2>8 DEF INACTIVE_RUN_INDEX
    <3> QED BY <2>1, <3>1 DEF RowsInv, NoGap
  <2>16. \A q \in rows : now >= q.firedAt + ReAlertAfter
    <3> SUFFICES ASSUME NEW q \in rows PROVE now >= q.firedAt + ReAlertAfter
      OBVIOUS
    <3>1. k # INACTIVE_RUN_INDEX
      BY <2>2, <2>8, <2>15 DEF RowsInv, INACTIVE_RUN_INDEX
    <3>2. PICK p \in rows : p.index = k + 1 /\ pass[w].at - p.firedAt >= ReAlertAfter
      BY <2>6, <3>1
    <3>3. now >= p.firedAt + ReAlertAfter
      BY <2>2, <2>4, <2>8, <3>2
    <3>4. CASE q = p
      BY <3>3, <3>4
    <3>5. CASE q # p
      <4>1. q.index # p.index
        BY <3>5 DEF RowsInv, OnePerIndex
      <4>2. p.index < q.index
        <5>1. q.index \in Int /\ p.index = k + 1 /\ k < q.index
          BY <2>8, <2>15, <3>2
        <5> QED BY <2>2, <4>1, <5>1
      <4>3. p.firedAt >= q.firedAt + ReAlertAfter
        BY <4>2 DEF RowsInv, Spaced
      <4> QED BY <2>2, <2>8, <3>3, <4>3
    <3> QED BY <3>4, <3>5
  <2>17. Spaced'
    <3> SUFFICES ASSUME NEW q \in rows', NEW r \in rows', r.index < q.index
                 PROVE  r.firedAt >= q.firedAt + ReAlertAfter
      BY DEF Spaced
    <3>1. q \in rows
      <4>1. q # new
        BY <2>1, <2>2, <2>3, <2>8, <2>15
      <4> QED BY <2>1, <4>1
    <3>2. CASE r = new
      BY <2>3, <2>16, <3>1, <3>2
    <3>3. CASE r \in rows
      BY <3>1, <3>3 DEF RowsInv, Spaced
    <3> QED BY <2>1, <3>2, <3>3
  <2> QED BY <2>9, <2>10, <2>11, <2>12, <2>13, <2>14, <2>17 DEF RowsInv
<1> QED BY <1>2, <1>3

LEMMA Inductive == RowsInv /\ [Next]_vars => RowsInv'
<1> SUFFICES ASSUME RowsInv, [Next]_vars PROVE RowsInv'
  OBVIOUS
<1>0. /\ now \in Nat /\ lastEvent \in Nat /\ faults \in Nat
      /\ \A w \in Workers : /\ pass[w] \in PassStates /\ pass[w].index \in Int
                            /\ pass[w].last \in Nat /\ pass[w].at \in Nat
                            /\ pass[w].at <= now
      /\ \A r \in rows : r.index \in Int /\ r.firedAt \in Nat
      /\ ReAlertAfter \in Nat
  BY InactiveAssumption DEF RowsInv, TypeOK, PassStates, InThePast, Rows
<1>1. CASE PassTime
  BY <1>0, <1>1, OutsideStep DEF PassTime
<1>2. ASSUME NEW t \in 1 .. MaxTime, StoreEvent(t) PROVE RowsInv'
  BY <1>0, <1>2, OutsideStep DEF StoreEvent
<1>3. ASSUME NEW w \in Workers, StartPass(w) PROVE RowsInv'
  <2> DEFINE p == [Resting EXCEPT !.pc = "clock", !.last = lastEvent]
  <2>1. p \in PassStates /\ p.pc = "clock" /\ p.at = 0
    BY <1>0, RestingType DEF PassStates, Pcs
  <2>2. Become(w, p) /\ UNCHANGED <<now, lastEvent, rows, faults>>
    BY <1>3 DEF StartPass
  <2> HIDE DEF p
  <2> QED BY <1>0, <2>1, <2>2, PassStep
<1>4. ASSUME NEW w \in Workers, ReadClock(w) PROVE RowsInv'
  <2> PICK s \in {"latest", "resolve"} :
         Become(w, [pass[w] EXCEPT !.at = now, !.pc = s])
    BY <1>4 DEF ReadClock
  <2> DEFINE p == [pass[w] EXCEPT !.at = now, !.pc = s]
  <2>1. p \in PassStates /\ p.pc = s /\ p.at = now
    BY <1>0 DEF PassStates, Pcs
  <2>2. Become(w, p) /\ UNCHANGED <<now, lastEvent, rows, faults>>
    BY <1>4 DEF ReadClock
  <2> HIDE DEF p
  <2> QED BY <1>0, <2>1, <2>2, PassStep
<1>5. ASSUME NEW w \in Workers, ReadLatest(w) PROVE RowsInv'
  <2>1. UNCHANGED <<now, lastEvent, rows, faults>>
    BY <1>5 DEF ReadLatest
  <2>2. CASE NotDue(w)
    <3> DEFINE p == [pass[w] EXCEPT !.pc = "resolve"]
    <3>1. p \in PassStates /\ p.pc = "resolve" /\ p.at = pass[w].at
      BY <1>0 DEF PassStates, Pcs
    <3>2. Become(w, p)
      BY <2>2 DEF NotDue
    <3> HIDE DEF p
    <3> QED BY <1>0, <2>1, <3>1, <3>2, PassStep
  <2>3. ASSUME NEW i \in Int, Due(w, i),
               \/ i = INACTIVE_RUN_INDEX
               \/ /\ i < INACTIVE_RUN_INDEX
                  /\ \E q \in rows : /\ q.index = i + 1
                                     /\ pass[w].at - q.firedAt >= ReAlertAfter
        PROVE  RowsInv'
    <3> DEFINE p == [pass[w] EXCEPT !.pc = "insert", !.index = i]
    <3>1. p \in PassStates /\ p.pc = "insert" /\ p.at = pass[w].at /\ p.index = i
      BY <1>0 DEF PassStates, Pcs
    <3>2. Become(w, p)
      BY <2>3 DEF Due
    <3> HIDE DEF p
    <3> QED BY <1>0, <2>1, <2>3, <3>1, <3>2, PassStep
  <2>4. CASE Due(w, INACTIVE_RUN_INDEX)
    BY <2>3, <2>4 DEF INACTIVE_RUN_INDEX
  <2>5. ASSUME NEW r \in rows, ~ pass[w].at - r.firedAt < ReAlertAfter, Due(w, r.index - 1)
        PROVE  RowsInv'
    <3>1. /\ r.index - 1 \in Int /\ r.index - 1 < INACTIVE_RUN_INDEX
          /\ r.index = (r.index - 1) + 1 /\ pass[w].at - r.firedAt >= ReAlertAfter
      BY <1>0, <2>5 DEF RowsInv, INACTIVE_RUN_INDEX
    <3> QED BY <2>3, <2>5, <3>1
  <2> QED BY <1>5, <2>2, <2>4, <2>5 DEF ReadLatest
<1>6. ASSUME NEW w \in Workers, Resolve(w) PROVE RowsInv'
  BY <1>6, ResolveStep
<1>7. ASSUME NEW w \in Workers, InsertRow(w) PROVE RowsInv'
  BY <1>7, InsertStep
<1>8. ASSUME NEW w \in Workers, PassFails(w) PROVE RowsInv'
  <2>1. Become(w, Resting) /\ UNCHANGED <<now, lastEvent, rows>> /\ faults' \in Nat
    BY <1>0, <1>8 DEF PassFails
  <2> QED BY <1>0, <2>1, PassStep, RestingType
<1>9. CASE UNCHANGED vars
  BY <1>0, <1>9, OutsideStep DEF vars
<1> QED
  BY <1>1, <1>2, <1>3, <1>4, <1>5, <1>6, <1>7, <1>8, <1>9 DEF Next, Advance

LEMMA Invariance == Spec => []RowsInv
BY InitInv, Inductive, PTL DEF Spec

\* The variables keep their types.
THEOREM TypeCorrect == Spec => []TypeOK
<1>1. RowsInv => TypeOK
  BY DEF RowsInv
<1> QED
  BY <1>1, Invariance, PTL

\* The fires of a session are numbered -1, -2, -3, ..., each number once.
THEOREM Numbered == Spec => []NumberedOneByOne
<1>1. RowsInv => NumberedOneByOne
  <2> SUFFICES ASSUME RowsInv, NEW r \in rows, r.index # INACTIVE_RUN_INDEX
               PROVE  \E q \in rows : q.index = r.index + 1
    BY DEF NumberedOneByOne, RowsInv, OnePerIndex
  <2>1. r.index \in Int /\ r.index <= INACTIVE_RUN_INDEX
    BY DEF RowsInv, TypeOK, Rows
  <2>2. r.index + 1 \in r.index .. INACTIVE_RUN_INDEX
    BY <2>1 DEF INACTIVE_RUN_INDEX
  <2> QED BY <2>2 DEF RowsInv, NoGap
<1> QED
  BY <1>1, Invariance, PTL

\* However many passes overlap, two fires are never closer than the re-alert
\* time.
THEOREM ReAlertSpacing == Spec => []Spaced
<1>1. RowsInv => Spaced
  BY DEF RowsInv
<1> QED
  BY <1>1, Invariance, PTL

=============================================================================

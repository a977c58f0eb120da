------------------------- MODULE ProactiveTickProofs -------------------------
(***************************************************************************)
(* The proactive tick messages a student at most once per fire, for any    *)
(* number of sessions, triggers and concurrent ticks, and implements the   *)
(* promise of CheckIns.                                                    *)
(***************************************************************************)
EXTENDS ProactiveTick, FiniteSetTheorems, SequenceTheorems, TLAPS

---------------------------------------------------------------------------
(* Type correctness. *)

LEMMA IdleType == NoFire \notin Fires /\ Idle \in TickStates
BY DEF Idle, TickStates, Pcs, NoFire, Fires

\* r is memory h with a new turn x: nothing else is new in it, and what h recalls
\* r recalls too.
Renewed(h, x, r) ==
    /\ r \in Seq(Nat) /\ Len(r) <= MaxTurns
    /\ \A i \in DOMAIN r : r[i] = x \/ \E j \in DOMAIN h : r[i] = h[j]
    /\ Recalled(x, r)
    /\ \A y : Recalled(y, h) => Recalled(y, r)

\* What Newest keeps of a memory that was short enough before a turn was added.
LEMMA NewestAppend ==
    ASSUME NEW h \in Seq(Nat), Len(h) <= MaxTurns, NEW x \in Nat,
           NEW r, r = Newest(Append(h, x))
    PROVE  Renewed(h, x, r)
<1> DEFINE a == Append(h, x)
<1>1. /\ a \in Seq(Nat) /\ Len(a) = Len(h) + 1 /\ Len(h) \in Nat
      /\ \A i \in 1..Len(h) : a[i] = h[i]
      /\ a[Len(h) + 1] = x
      /\ DOMAIN h = 1..Len(h) /\ DOMAIN a = 1..Len(a) /\ MaxTurns \in Nat \ {0}
  BY TickAssumption
<1>a. Len(a) = Len(h) + 1 /\ Len(h) \in Nat /\ MaxTurns \in Nat /\ Len(h) <= MaxTurns
  BY <1>1
<1>2. CASE Len(a) <= MaxTurns
  <2>1. r = a
    <3> HIDE DEF a
    <3>1. ~ (Len(a) > MaxTurns)
      BY <1>1, <1>2
    <3> QED BY <3>1 DEF a, Newest
  <2> HIDE DEF a
  <2>2. Len(h) # MaxTurns
    BY <1>a, <1>2
  <2>3. \A y : Recalled(y, h) => Recalled(y, a)
    <3> SUFFICES ASSUME NEW y, Recalled(y, h) PROVE \E i \in DOMAIN a : a[i] = y
      BY DEF Recalled
    <3>1. PICK i \in 1..Len(h) : h[i] = y
      BY <1>1, <2>2 DEF Recalled
    <3>2. i \in 1..Len(a)
      BY <1>1
    <3>3. i \in DOMAIN a /\ a[i] = y
      BY <1>1, <3>1, <3>2
    <3> QED BY <3>3
  <2>4. Recalled(x, a)
    <3>1. Len(h) + 1 \in 1..Len(a)
      BY <1>1
    <3> QED BY <1>1, <3>1 DEF Recalled
  <2>5. \A i \in DOMAIN a : a[i] = x \/ \E j \in DOMAIN h : a[i] = h[j]
    BY <1>1
  <2> QED BY <1>1, <1>2, <2>1, <2>3, <2>4, <2>5 DEF Renewed
<1>3. CASE Len(a) > MaxTurns
  <2>1. r = SubSeq(a, 2, Len(a)) /\ Len(h) = MaxTurns
    <3>1. r = SubSeq(a, Len(a) - MaxTurns + 1, Len(a))
      BY <1>3 DEF Newest
    <3> HIDE DEF a
    <3>2. Len(h) = MaxTurns /\ Len(a) - MaxTurns + 1 = 2
      BY <1>a, <1>3
    <3> QED BY <3>1, <3>2, Zenon
  <2> HIDE DEF a
  <2>2. /\ r \in Seq(Nat) /\ Len(r) = MaxTurns /\ DOMAIN r = 1..MaxTurns
        /\ \A i \in 1..MaxTurns : r[i] = a[i + 1]
    <3>1. \A i \in 2..Len(a) : a[i] \in Nat
      BY <1>1
    <3>2. 2 \in Int /\ Len(a) \in Int /\ 2 <= Len(a)
      BY <1>1, <2>1
    <3>3. /\ SubSeq(a, 2, Len(a)) \in Seq(Nat)
          /\ Len(SubSeq(a, 2, Len(a))) = Len(a) - 1
          /\ \A i \in 1..(Len(a) - 1) : SubSeq(a, 2, Len(a))[i] = a[i + 1]
      BY <3>1, <3>2, SubSeqProperties
    <3>4. Len(a) - 1 = MaxTurns
      BY <1>1, <2>1
    <3>5. r \in Seq(Nat) /\ Len(r) = MaxTurns /\ \A i \in 1..MaxTurns : r[i] = a[i + 1]
      BY <2>1, <3>3, <3>4
    <3> QED BY <3>5
  <2>3. \A y : Recalled(y, r)
    BY <2>2 DEF Recalled
  <2>4. ASSUME NEW i \in DOMAIN r PROVE r[i] = x \/ \E j \in DOMAIN h : r[i] = h[j]
    <3>1. i \in Nat /\ i <= Len(h) /\ r[i] = a[i + 1]
      BY <1>1, <2>1, <2>2
    <3>2. CASE i = Len(h)
      BY <1>1, <3>1, <3>2
    <3>3. CASE i # Len(h)
      <4>1. i + 1 \in 1..Len(h)
        BY <1>1, <3>1, <3>3
      <4> QED BY <1>1, <3>1, <4>1
    <3> QED BY <3>2, <3>3
  <2> QED BY <1>1, <2>2, <2>3, <2>4 DEF Renewed
<1> QED BY <1>1, <1>2, <1>3

\* A turn renews one memory and leaves the others alone.
LEMMA RememberRenews ==
    ASSUME TypeOK, NEW c \in Chats, NEW s \in Sessions, NEW x \in Nat, Remember(c, s, x)
    PROVE  /\ history' \in [Chats -> [Sessions -> Seq(Nat)]]
           /\ \A d \in Chats, z \in Sessions : Len(history'[d][z]) <= MaxTurns
           /\ Renewed(history[c][s], x, history'[c][s])
           /\ \A d \in Chats, z \in Sessions :
                 d # c \/ z # s => history'[d][z] = history[d][z]
<1>1. /\ history \in [Chats -> [Sessions -> Seq(Nat)]]
      /\ \A d \in Chats, z \in Sessions : Len(history[d][z]) <= MaxTurns
  BY DEF TypeOK
<1>2. PICK r : r = Newest(Append(history[c][s], x))
  OBVIOUS
<1>3. Renewed(history[c][s], x, r)
  BY <1>1, <1>2, NewestAppend
<1>4. r \in Seq(Nat) /\ Len(r) <= MaxTurns
  BY <1>3 DEF Renewed
<1>5. PICK h : h = [history[c] EXCEPT ![s] = r]
  OBVIOUS
<1>6. history' = [history EXCEPT ![c] = h]
  BY <1>2, <1>5 DEF Remember
<1>7. h \in [Sessions -> Seq(Nat)] /\ h[s] = r /\ \A z \in Sessions : z # s => h[z] = history[c][z]
  BY <1>1, <1>4, <1>5
<1>8. history' \in [Chats -> [Sessions -> Seq(Nat)]]
  BY <1>1, <1>6, <1>7
<1>9. \A d \in Chats : history'[d] = IF d = c THEN h ELSE history[d]
  BY <1>1, <1>6
<1>10. \A d \in Chats, z \in Sessions : d # c \/ z # s => history'[d][z] = history[d][z]
  BY <1>7, <1>9
<1>11. history'[c][s] = r
  BY <1>7, <1>9
<1>12. \A d \in Chats, z \in Sessions : Len(history'[d][z]) <= MaxTurns
  BY <1>1, <1>4, <1>10, <1>11
<1> QED BY <1>3, <1>8, <1>10, <1>11, <1>12

\* Outside Sessions there is nothing to remember.
LEMMA ForeignSession ==
    ASSUME TypeOK, NEW c \in Chats, NEW s, s \notin Sessions, NEW x, Remember(c, s, x)
    PROVE  /\ history' \in [Chats -> [Sessions -> Seq(Nat)]]
           /\ \A d \in Chats, z \in Sessions : Len(history'[d][z]) <= MaxTurns
<1>1. history \in [Chats -> [Sessions -> Seq(Nat)]]
  BY DEF TypeOK
<1>2. PICK r : r = Newest(Append(history[c][s], x))
  OBVIOUS
<1>3. [history[c] EXCEPT ![s] = r] = history[c]
  BY <1>1
<1>4. history' = [history EXCEPT ![c] = [history[c] EXCEPT ![s] = r]]
  BY <1>2 DEF Remember
<1>5. history' = history
  BY <1>1, <1>3, <1>4
<1> QED BY <1>5 DEF TypeOK

LEMMA TypeStep == TypeOK /\ [Next]_vars => TypeOK'
<1> SUFFICES ASSUME TypeOK, [Next]_vars PROVE TypeOK'
  OBVIOUS
<1> USE TickAssumption, IdleType
<1>1. ASSUME NEW s \in Sessions, NEW t \in Triggers, NewTelemetry(s, t) PROVE TypeOK'
  BY <1>1 DEF NewTelemetry, TypeOK
<1>2. ASSUME NEW w \in Workers, NEW t \in TickStates, Become(w, t),
             t.pc \in {"insert", "history", "mark"} => t.fire \in Fires
      PROVE  /\ tick' \in [Workers -> TickStates]
             /\ \A v \in Workers : tick'[v].pc \in {"insert", "history", "mark"}
                                   => tick'[v].fire \in Fires
  BY <1>2 DEF Become, TypeOK
<1>3. ASSUME NEW w \in Workers, NEW s \in Sessions, StartTick(w, s) PROVE TypeOK'
  <2> DEFINE t == [Idle EXCEPT !.pc = "persist", !.session = s,
                               !.detected = {s} \X telemetry[s]]
  <2>1. {s} \X telemetry[s] \subseteq Fires
    BY DEF Fires, TypeOK
  <2>2. t \in TickStates /\ t.pc = "persist"
    BY <2>1 DEF Idle, TickStates, Pcs
  <2> QED BY <1>2, <1>3, <2>2 DEF StartTick, TypeOK
<1>4. \A w \in Workers : tick[w] \in TickStates
  BY DEF TypeOK
<1>5. ASSUME NEW w \in Workers, NEW f \in Fires, PersistFire(w, f) PROVE TypeOK'
  <2> DEFINE t == [tick[w] EXCEPT !.detected = tick[w].detected \ {f}]
             u == [tick[w] EXCEPT !.detected = tick[w].detected \ {f},
                                  !.new = tick[w].new \cup {f}]
  <2>1. t \in TickStates /\ t.pc = "persist" /\ u \in TickStates /\ u.pc = "persist"
    BY <1>4, <1>5 DEF TickStates, PersistFire
  <2>2. CASE rows[f].present
    BY <1>2, <1>5, <2>1, <2>2 DEF PersistFire, TypeOK
  <2>3. CASE ~rows[f].present
    <3>1. Become(w, u) /\ rows' = [rows EXCEPT ![f] = [Absent EXCEPT !.present = TRUE]]
      BY <1>5, <2>3 DEF PersistFire
    <3>2. [Absent EXCEPT !.present = TRUE] \in RowStates
      BY DEF Absent, RowStates
    <3>3. rows' \in [Fires -> RowStates]
      BY <3>1, <3>2 DEF TypeOK
    <3> QED BY <1>2, <1>5, <2>1, <3>1, <3>3 DEF PersistFire, TypeOK
  <2> QED BY <2>2, <2>3
<1>6. ASSUME NEW w \in Workers, StartActing(w) PROVE TypeOK'
  <2> DEFINE t == [tick[w] EXCEPT !.pc = "act"]
  <2>1. t \in TickStates /\ t.pc = "act"
    BY <1>4 DEF TickStates, Pcs
  <2> QED BY <1>2, <1>6, <2>1 DEF StartActing, TypeOK
<1>7. ASSUME NEW w \in Workers, NEW f \in Fires, Generate(w, f) PROVE TypeOK'
  <2> DEFINE t == [tick[w] EXCEPT !.pc = "insert", !.fire = f,
                                  !.new = tick[w].new \ {f},
                                  !.response = responses + 1]
             u == [tick[w] EXCEPT !.new = tick[w].new \ {f}]
  <2>1. responses \in Nat /\ responses + 1 \in Nat
    BY DEF TypeOK
  <2>2. t \in TickStates /\ t.fire = f /\ u \in TickStates /\ u.pc = "act"
    BY <1>4, <1>7, <2>1 DEF TickStates, Pcs, Generate
  <2>3. CASE f[2] \in ActedOn
    BY <1>2, <1>7, <2>1, <2>2, <2>3 DEF Generate, TypeOK
  <2>4. CASE f[2] \notin ActedOn
    BY <1>2, <1>7, <2>1, <2>2, <2>4 DEF Generate, TypeOK
  <2> QED BY <2>3, <2>4
<1>8. ASSUME NEW w \in Workers, InsertMessage(w) PROVE TypeOK'
  <2> DEFINE t == [tick[w] EXCEPT !.pc = "history", !.chats = Chats]
  <2>1. tick[w].fire \in Fires /\ tick[w].response \in Nat
    BY <1>4, <1>8 DEF InsertMessage, TickStates, TypeOK
  <2>2. t \in TickStates /\ t.fire \in Fires
    BY <1>4, <2>1 DEF TickStates, Pcs
  <2>3. messages' \subseteq Messages
    BY <1>8, <2>1 DEF InsertMessage, Messages, TypeOK
  <2> QED BY <1>2, <1>8, <2>2, <2>3 DEF InsertMessage, TypeOK
<1>9. ASSUME NEW w \in Workers, NEW c \in Chats, AppendHistory(w, c) PROVE TypeOK'
  <2> DEFINE t == [tick[w] EXCEPT !.chats = tick[w].chats \ {c},
                     !.pc = IF tick[w].chats = {c} THEN "mark" ELSE "history"]
  <2>1. tick[w].fire \in Fires /\ tick[w].response \in Nat
    BY <1>4, <1>9 DEF AppendHistory, TickStates, TypeOK
  <2>2. t \in TickStates /\ t.fire \in Fires
    BY <1>4, <2>1 DEF TickStates, Pcs
  <2>3. Remember(c, tick[w].session, tick[w].response)
    BY <1>9 DEF AppendHistory
  <2>4. /\ history' \in [Chats -> [Sessions -> Seq(Nat)]]
        /\ \A d \in Chats, z \in Sessions : Len(history'[d][z]) <= MaxTurns
    <3>1. CASE tick[w].session \in Sessions
      BY <2>1, <2>3, <3>1, RememberRenews
    <3>2. CASE tick[w].session \notin Sessions
      BY <2>3, <3>2, ForeignSession
    <3> QED BY <3>1, <3>2
  <2> QED BY <1>2, <1>9, <2>2, <2>4 DEF AppendHistory, TypeOK
<1>10. ASSUME NEW w \in Workers, MarkActed(w) PROVE TypeOK'
  <2> DEFINE t == [tick[w] EXCEPT !.pc = "act", !.fire = NoFire, !.response = 0]
  <2>1. t \in TickStates /\ t.pc = "act" /\ tick[w].response \in Nat
    BY <1>4 DEF TickStates, Pcs
  <2>2. [present |-> TRUE, acted |-> TRUE, response |-> tick[w].response] \in RowStates
    BY <2>1 DEF RowStates
  <2>3. rows' \in [Fires -> RowStates]
    BY <1>10, <2>2 DEF MarkActed, TypeOK
  <2> QED BY <1>2, <1>10, <2>1, <2>3 DEF MarkActed, TypeOK
<1>11. Idle \in TickStates /\ Idle.pc = "idle"
  BY DEF Idle
<1>12. ASSUME NEW w \in Workers, FinishTick(w) PROVE TypeOK'
  BY <1>2, <1>11, <1>12 DEF FinishTick, TypeOK
<1>13. \A w \in Workers : Unsent(tick[w]) \subseteq Fires
  <2> SUFFICES ASSUME NEW w \in Workers PROVE Unsent(tick[w]) \subseteq Fires
    OBVIOUS
  <2>1. tick[w].new \subseteq Fires
    BY <1>4 DEF TickStates
  <2>2. tick[w].pc = "insert" => tick[w].fire \in Fires
    BY DEF TypeOK
  <2> QED BY <2>1, <2>2 DEF Unsent
<1>14. ASSUME NEW w \in Workers, TickFails(w) PROVE TypeOK'
  BY <1>2, <1>11, <1>13, <1>14 DEF TickFails, TypeOK
<1>15. ASSUME Restart PROVE TypeOK'
  <2>1. dropped' \subseteq Fires
    BY <1>13, <1>15 DEF Restart, TypeOK
  <2>2. tick' \in [Workers -> TickStates] /\ \A w \in Workers : tick'[w].pc = "idle"
    BY <1>11, <1>15 DEF Restart
  <2> QED BY <1>15, <2>1, <2>2 DEF Restart, TypeOK
<1>16. ASSUME UNCHANGED vars PROVE TypeOK'
  BY <1>16 DEF vars, TypeOK
<1>17. ASSUME Rescope PROVE TypeOK'
  BY <1>17 DEF Rescope, TypeOK
<1>18. ASSUME NEW c \in Chats, NEW s \in Sessions, ExchangeTurn(c, s) PROVE TypeOK'
  BY <1>18, RememberRenews DEF ExchangeTurn, Exchanged, TypeOK
<1> QED
  BY <1>1, <1>3, <1>5, <1>6, <1>7, <1>8, <1>9, <1>10, <1>12, <1>14, <1>15, <1>16, <1>17, <1>18
     DEF Next, Advance

\* The variables keep their types; in particular a tick is always in one of
\* the stages of run_proactive_tick's loop.
THEOREM TypeCorrect == Spec => []TypeOK
<1>1. Init => TypeOK
  BY IdleType, TickAssumption DEF Init, TypeOK, Idle, Absent, RowStates
<1>2. QED
  BY <1>1, TypeStep, PTL DEF Spec

---------------------------------------------------------------------------
(* The inductive invariant: who holds a fire between its row and its       *)
(* message.                                                                *)

Sent(f) == \E m \in messages : m.fire = f

\* The fires worker w has claimed and still owes a message.
Held(w) == Unsent(tick[w])

\* The loop's variables fit its stage, and the message of a tick that is past
\* the insert is there.
LoopOK ==
    \A w \in Workers :
        /\ tick[w].pc = "idle" => tick[w].new = {}
        /\ tick[w].pc = "insert" => tick[w].fire \notin tick[w].new
        /\ tick[w].pc \in {"history", "mark"} =>
              [response |-> tick[w].response, fire |-> tick[w].fire] \in messages

\* A held fire has its row and no message, and nobody dropped it.
HeldOK ==
    \A w \in Workers : \A f \in Held(w) :
        rows[f].present /\ ~ Sent(f) /\ f \notin dropped

\* Two ticks never hold the same fire.
Exclusive ==
    \A v, w \in Workers : v # w => Held(v) \cap Held(w) = {}

\* A message or a drop comes after the row, and never both for one fire.
RowFirst ==
    \A f \in Fires :
        /\ Sent(f) => rows[f].present
        /\ f \in dropped => rows[f].present /\ ~ Sent(f)

\* A claimed fire that owes a message is held by somebody.
NotForgotten ==
    \A f \in Fires :
        rows[f].present /\ f[2] \in ActedOn /\ f \notin dropped /\ ~ Sent(f)
            => \E w \in Workers : f \in Held(w)

TickInv ==
    /\ TypeOK
    /\ LoopOK
    /\ HeldOK
    /\ Exclusive
    /\ RowFirst
    /\ NotForgotten
    /\ OneMessagePerFire
    /\ ActedHasMessage

LEMMA InitInv == Init => TickInv
<1> SUFFICES ASSUME Init PROVE TickInv
  OBVIOUS
<1>1. TypeOK
  BY IdleType, TickAssumption DEF Init, TypeOK, Idle, Absent, RowStates
<1>2. \A w \in Workers : Held(w) = {} /\ tick[w].pc = "idle" /\ tick[w].new = {}
  BY DEF Init, Held, Unsent, Idle
<1>3. \A f \in Fires : ~ rows[f].present /\ ~ rows[f].acted /\ f \notin dropped
  BY DEF Init, Absent
<1>4. messages = {}
  BY DEF Init
<1> QED
  BY <1>1, <1>2, <1>3, <1>4
     DEF TickInv, LoopOK, HeldOK, Exclusive, RowFirst, NotForgotten, Sent,
         OneMessagePerFire, ActedHasMessage

\* Only the worker that steps changes what it holds.
LEMMA OthersHold ==
    ASSUME TypeOK, NEW w \in Workers, NEW t, Become(w, t)
    PROVE  \A v \in Workers : /\ tick'[v] = IF v = w THEN t ELSE tick[v]
                              /\ Held(v)' = IF v = w THEN Unsent(t) ELSE Held(v)
BY DEF Become, TypeOK, Held, Unsent

\* The local variables t fit the loop.
Fits(t) ==
    /\ t.pc = "idle" => t.new = {}
    /\ t.pc = "insert" => t.fire \notin t.new
    /\ t.pc \in {"history", "mark"} =>
          [response |-> t.response, fire |-> t.fire] \in messages

\* A step that touches neither rows, messages nor the dropped fires, and lets
\* go of no fire that owes a message, keeps the invariant.
LEMMA LocalStep ==
    ASSUME TickInv, TypeOK', NEW w \in Workers, NEW t, Become(w, t), Fits(t),
           UNCHANGED <<rows, messages, dropped>>,
           Unsent(t) \subseteq Held(w),
           \A f \in Held(w) \ Unsent(t) : f[2] \notin ActedOn
    PROVE  TickInv'
<1>1. \A v \in Workers : /\ tick'[v] = IF v = w THEN t ELSE tick[v]
                         /\ Held(v)' = IF v = w THEN Unsent(t) ELSE Held(v)
  BY OthersHold DEF TickInv
<1>2. \A v \in Workers : Held(v)' \subseteq Held(v)
  BY <1>1
<1>3. \A f \in Fires : Sent(f)' <=> Sent(f)
  BY DEF Sent
<1>4. LoopOK'
  BY <1>1 DEF TickInv, LoopOK, Fits
<1>5. HeldOK'
  BY <1>2 DEF TickInv, HeldOK, Sent
<1>6. Exclusive'
  BY <1>2 DEF TickInv, Exclusive
<1>7. RowFirst'
  BY <1>3 DEF TickInv, RowFirst
<1>8. NotForgotten'
  <2> SUFFICES ASSUME NEW f \in Fires, rows[f].present, f[2] \in ActedOn,
                      f \notin dropped, ~ Sent(f)
               PROVE  \E v \in Workers : f \in Held(v)'
    BY <1>3 DEF NotForgotten
  <2>1. PICK v \in Workers : f \in Held(v)
    BY DEF TickInv, NotForgotten
  <2>2. f \in Held(v)'
    BY <1>1, <2>1
  <2> QED BY <2>2
<1>9. OneMessagePerFire' /\ ActedHasMessage'
  BY DEF TickInv, OneMessagePerFire, ActedHasMessage
<1> QED
  BY <1>4, <1>5, <1>6, <1>7, <1>8, <1>9 DEF TickInv

\* The insert that finds no row gives the fire to its tick and to no other.
LEMMA ClaimStep ==
    ASSUME TickInv, TypeOK', NEW w \in Workers, NEW f \in Fires,
           PersistFire(w, f), ~ rows[f].present
    PROVE  TickInv'
<1> DEFINE t == [tick[w] EXCEPT !.detected = tick[w].detected \ {f},
                                !.new = tick[w].new \cup {f}]
<1>1. /\ Become(w, t)
      /\ rows' = [rows EXCEPT ![f] = [Absent EXCEPT !.present = TRUE]]
      /\ UNCHANGED <<messages, dropped>>
  BY DEF PersistFire
<1>2. t.pc = "persist" /\ Unsent(t) = Held(w) \cup {f}
  BY DEF PersistFire, TickInv, TypeOK, TickStates, Unsent, Held
<1> HIDE DEF t
<1>3. \A v \in Workers : /\ tick'[v] = IF v = w THEN t ELSE tick[v]
                         /\ Held(v)' = IF v = w THEN Unsent(t) ELSE Held(v)
  BY <1>1, OthersHold DEF TickInv
<1>4. \A g \in Fires : Sent(g)' <=> Sent(g)
  BY <1>1 DEF Sent
<1>5. \A g \in Fires : /\ g # f => rows'[g] = rows[g]
                       /\ rows'[f].present /\ ~ rows'[f].acted
  BY <1>1 DEF TickInv, TypeOK, Absent
<1>6. /\ ~ Sent(f) /\ f \notin dropped
      /\ \A v \in Workers : f \notin Held(v)
  BY DEF TickInv, RowFirst, HeldOK
<1>7. \A v \in Workers : Held(v) \subseteq Fires
  <2> SUFFICES ASSUME NEW v \in Workers PROVE Held(v) \subseteq Fires
    OBVIOUS
  <2>1. tick[v].new \subseteq Fires /\ (tick[v].pc = "insert" => tick[v].fire \in Fires)
    BY DEF TickInv, TypeOK, TickStates
  <2> QED BY <2>1 DEF Held, Unsent
<1>8. LoopOK'
  BY <1>1, <1>2, <1>3 DEF TickInv, LoopOK
<1>9. HeldOK'
  <2> SUFFICES ASSUME NEW v \in Workers, NEW g \in Held(v)'
               PROVE  rows'[g].present /\ ~ Sent(g)' /\ g \notin dropped'
    BY DEF HeldOK, Sent
  <2>1. CASE g = f
    BY <1>1, <1>4, <1>5, <1>6, <2>1
  <2>2. CASE g # f
    <3>1. g \in Held(v)
      BY <1>2, <1>3, <2>2
    <3> QED BY <1>1, <1>4, <1>5, <1>7, <2>2, <3>1 DEF TickInv, HeldOK
  <2> QED BY <2>1, <2>2
<1>10. Exclusive'
  BY <1>2, <1>3, <1>6 DEF TickInv, Exclusive
<1>11. RowFirst'
  BY <1>1, <1>4, <1>5, <1>6 DEF TickInv, RowFirst
<1>12. NotForgotten'
  <2> SUFFICES ASSUME NEW g \in Fires, rows'[g].present, g[2] \in ActedOn,
                      g \notin dropped, ~ Sent(g)
               PROVE  \E v \in Workers : g \in Held(v)'
    BY <1>1, <1>4 DEF NotForgotten
  <2>1. CASE g = f
    BY <1>2, <1>3, <2>1
  <2>2. CASE g # f
    <3>1. PICK v \in Workers : g \in Held(v)
      BY <1>5, <2>2 DEF TickInv, NotForgotten
    <3> QED BY <1>2, <1>3, <3>1
  <2> QED BY <2>1, <2>2
<1>13. OneMessagePerFire' /\ ActedHasMessage'
  BY <1>1, <1>5 DEF TickInv, OneMessagePerFire, ActedHasMessage
<1> QED
  BY <1>8, <1>9, <1>10, <1>11, <1>12, <1>13 DEF TickInv

\* The first and only message of a fire comes from the tick that holds it.
LEMMA SendStep ==
    ASSUME TickInv, TypeOK', NEW w \in Workers, InsertMessage(w)
    PROVE  TickInv' /\ Held(w)' = Held(w) \ {tick[w].fire}
<1> DEFINE f == tick[w].fire
           t == [tick[w] EXCEPT !.pc = "history", !.chats = Chats]
           m == [response |-> tick[w].response, fire |-> f]
<1>1. /\ Become(w, t) /\ messages' = messages \cup {m} /\ m.fire = f
      /\ UNCHANGED <<rows, dropped>>
  BY DEF InsertMessage
<1>2. /\ t.pc = "history" /\ t.response = tick[w].response /\ t.fire = f
      /\ Held(w) = tick[w].new \cup {f} /\ f \notin tick[w].new
      /\ Unsent(t) = tick[w].new /\ f \in Fires
  <2>1. tick[w] \in TickStates /\ tick[w].pc = "insert" /\ f \in Fires /\ LoopOK
    BY DEF InsertMessage, TickInv, TypeOK
  <2>2. t.pc = "history" /\ t.response = tick[w].response /\ t.fire = f /\ t.new = tick[w].new
    BY <2>1 DEF TickStates
  <2>3. f \in Fires /\ f \notin tick[w].new
    BY <2>1 DEF LoopOK
  <2>4. Held(w) = tick[w].new \cup {f}
    BY <2>1 DEF Held, Unsent
  <2>5. Unsent(t) = tick[w].new
    BY <2>2 DEF Unsent
  <2> QED
    BY <2>2, <2>3, <2>4, <2>5
<1>3. /\ m = [response |-> t.response, fire |-> t.fire]
      /\ Unsent(t) = Held(w) \ {f} /\ f \in Held(w)
  BY <1>2
<1>4. rows[f].present /\ ~ Sent(f) /\ f \notin dropped
  BY <1>3 DEF TickInv, HeldOK
<1> HIDE DEF t, m, f
<1>5. \A v \in Workers : /\ tick'[v] = IF v = w THEN t ELSE tick[v]
                         /\ Held(v)' = IF v = w THEN Unsent(t) ELSE Held(v)
  BY <1>1, OthersHold DEF TickInv
<1>6. \A g : Sent(g)' <=> Sent(g) \/ g = f
  BY <1>1 DEF Sent
<1>7. \A v \in Workers : f \notin Held(v)' /\ Held(v)' \subseteq Held(v)
  BY <1>3, <1>5 DEF TickInv, Exclusive
<1>8. LoopOK'
  BY <1>1, <1>2, <1>3, <1>5 DEF TickInv, LoopOK
<1>9. HeldOK'
  <2> SUFFICES ASSUME NEW v \in Workers, NEW g \in Held(v)'
               PROVE  rows[g].present /\ ~ Sent(g)' /\ g \notin dropped
    BY <1>1 DEF HeldOK, Sent
  <2> QED BY <1>6, <1>7 DEF TickInv, HeldOK
<1>10. Exclusive'
  BY <1>7 DEF TickInv, Exclusive
<1>11. RowFirst'
  BY <1>1, <1>4, <1>6 DEF TickInv, RowFirst
<1>12. NotForgotten'
  <2> SUFFICES ASSUME NEW g \in Fires, rows[g].present, g[2] \in ActedOn,
                      g \notin dropped, ~ Sent(g)'
               PROVE  \E v \in Workers : g \in Held(v)'
    BY <1>1 DEF NotForgotten, Sent
  <2>1. g # f /\ ~ Sent(g)
    BY <1>6
  <2>2. PICK v \in Workers : g \in Held(v)
    BY <2>1 DEF TickInv, NotForgotten
  <2> QED BY <1>3, <1>5, <2>1, <2>2
<1>13. OneMessagePerFire'
  BY <1>1, <1>4 DEF TickInv, OneMessagePerFire, Sent
<1>14. ActedHasMessage'
  BY <1>1 DEF TickInv, ActedHasMessage
<1> QED
  BY <1>3, <1>5, <1>8, <1>9, <1>10, <1>11, <1>12, <1>13, <1>14 DEF TickInv, f

\* Marking a row acted links it to the message its tick inserted.
LEMMA MarkStep ==
    ASSUME TickInv, TypeOK', NEW w \in Workers, MarkActed(w)
    PROVE  TickInv' /\ \A v \in Workers : Held(v)' = Held(v)
<1> DEFINE f == tick[w].fire
           t == [tick[w] EXCEPT !.pc = "act", !.fire = NoFire, !.response = 0]
<1>1. /\ Become(w, t) /\ UNCHANGED <<messages, dropped>>
      /\ rows' = [rows EXCEPT ![f] = [present |-> TRUE, acted |-> TRUE,
                                      response |-> tick[w].response]]
  BY DEF MarkActed
<1>2. t.pc = "act" /\ Unsent(t) = Held(w) /\ f \in Fires
  BY DEF MarkActed, TickInv, TypeOK, TickStates, Unsent, Held
<1>3. [response |-> tick[w].response, fire |-> f] \in messages
  BY DEF MarkActed, TickInv, LoopOK
<1>4. rows[f].present
  BY <1>2, <1>3 DEF TickInv, RowFirst, Sent
<1>5. \A g \in Fires : /\ g # f => rows'[g] = rows[g]
                       /\ rows'[f].response = tick[w].response
                       /\ rows'[g].present <=> rows[g].present
  BY <1>1, <1>2, <1>4 DEF TickInv, TypeOK
<1> HIDE DEF t, f
<1>6. \A v \in Workers : /\ tick'[v] = IF v = w THEN t ELSE tick[v]
                         /\ Held(v)' = Held(v)
  BY <1>1, <1>2, OthersHold DEF TickInv
<1>7. \A g : Sent(g)' <=> Sent(g)
  BY <1>1 DEF Sent
<1>8. \A v \in Workers : Held(v) \subseteq Fires
  <2> SUFFICES ASSUME NEW v \in Workers PROVE Held(v) \subseteq Fires
    OBVIOUS
  <2>1. tick[v].new \subseteq Fires /\ (tick[v].pc = "insert" => tick[v].fire \in Fires)
    BY DEF TickInv, TypeOK, TickStates
  <2> QED BY <2>1 DEF Held, Unsent
<1>9. LoopOK'
  BY <1>1, <1>2, <1>6 DEF TickInv, LoopOK
<1>10. HeldOK'
  <2> SUFFICES ASSUME NEW v \in Workers, NEW g \in Held(v)
               PROVE  rows'[g].present /\ ~ Sent(g) /\ g \notin dropped
    BY <1>1, <1>6, <1>7 DEF HeldOK
  <2> QED BY <1>5, <1>8 DEF TickInv, HeldOK
<1>11. Exclusive'
  BY <1>6 DEF TickInv, Exclusive
<1>12. RowFirst'
  BY <1>1, <1>5, <1>7 DEF TickInv, RowFirst
<1>13. NotForgotten'
  <2> SUFFICES ASSUME NEW g \in Fires, rows[g].present, g[2] \in ActedOn,
                      g \notin dropped, ~ Sent(g)
               PROVE  \E v \in Workers : g \in Held(v)'
    BY <1>1, <1>5, <1>7 DEF NotForgotten
  <2> QED BY <1>6 DEF TickInv, NotForgotten
<1>14. OneMessagePerFire'
  BY <1>1 DEF TickInv, OneMessagePerFire
<1>15. ActedHasMessage'
  BY <1>1, <1>3, <1>5 DEF TickInv, ActedHasMessage
<1> QED
  BY <1>6, <1>9, <1>10, <1>11, <1>12, <1>13, <1>14, <1>15 DEF TickInv

\* What a worker holds are fires.
LEMMA HeldFires ==
    ASSUME TypeOK, NEW w \in Workers
    PROVE  Held(w) \subseteq Fires
<1>1. tick[w].new \subseteq Fires /\ (tick[w].pc = "insert" => tick[w].fire \in Fires)
  BY DEF TypeOK, TickStates
<1> QED BY <1>1 DEF Held, Unsent

\* A failure drops exactly what the ticks that end with it held.
LEMMA DropStep ==
    ASSUME TickInv, TypeOK', NEW G \in SUBSET Workers,
           UNCHANGED <<rows, messages>>,
           dropped' = dropped \cup UNION {Held(w) : w \in G},
           tick' = [w \in Workers |-> IF w \in G THEN Idle ELSE tick[w]]
    PROVE  TickInv'
<1>1. \A v \in Workers : /\ v \in G => tick'[v] = Idle
                         /\ v \notin G => tick'[v] = tick[v]
  OBVIOUS
<1>2. Unsent(Idle) = {} /\ Idle.pc = "idle" /\ Idle.new = {}
  BY DEF Unsent, Idle
<1>3. \A v \in Workers : /\ v \in G => Held(v)' = {}
                         /\ v \notin G => Held(v)' = Held(v)
  BY <1>1, <1>2 DEF Held, Unsent
<1>4. \A g : Sent(g)' <=> Sent(g)
  BY DEF Sent
<1>5. LoopOK'
  BY <1>1, <1>2 DEF TickInv, LoopOK
<1>6. HeldOK'
  <2> SUFFICES ASSUME NEW v \in Workers, NEW f \in Held(v)'
               PROVE  rows[f].present /\ ~ Sent(f) /\ f \notin dropped'
    BY <1>4 DEF HeldOK
  <2>1. v \notin G /\ f \in Held(v)
    BY <1>3
  <2>2. rows[f].present /\ ~ Sent(f) /\ f \notin dropped
    BY <2>1 DEF TickInv, HeldOK
  <2>3. \A w \in G : f \notin Held(w)
    BY <2>1 DEF TickInv, Exclusive
  <2> QED BY <2>2, <2>3
<1>7. Exclusive'
  BY <1>3 DEF TickInv, Exclusive
<1>8. RowFirst'
  <2> SUFFICES ASSUME NEW f \in Fires, f \in dropped'
               PROVE  rows[f].present /\ ~ Sent(f)
    BY <1>4 DEF TickInv, RowFirst
  <2>1. CASE f \in dropped
    BY <2>1 DEF TickInv, RowFirst
  <2>2. CASE \E w \in G : f \in Held(w)
    BY <2>2 DEF TickInv, HeldOK
  <2> QED BY <2>1, <2>2
<1>9. NotForgotten'
  <2> SUFFICES ASSUME NEW f \in Fires, rows[f].present, f[2] \in ActedOn,
                      f \notin dropped', ~ Sent(f)
               PROVE  \E v \in Workers : f \in Held(v)'
    BY <1>4 DEF NotForgotten
  <2>1. PICK v \in Workers : f \in Held(v)
    BY DEF TickInv, NotForgotten
  <2>2. v \notin G
    BY <2>1
  <2> QED BY <1>3, <2>1, <2>2
<1>10. OneMessagePerFire' /\ ActedHasMessage'
  BY DEF TickInv, OneMessagePerFire, ActedHasMessage
<1> QED
  BY <1>5, <1>6, <1>7, <1>8, <1>9, <1>10 DEF TickInv

\* A failed call is a drop by its worker, a restart one by all of them.
LEMMA FailsAsDrop ==
    ASSUME TypeOK, NEW w \in Workers, TickFails(w)
    PROVE  /\ dropped' = dropped \cup UNION {Held(v) : v \in {w}}
           /\ tick' = [v \in Workers |-> IF v \in {w} THEN Idle ELSE tick[v]]
           /\ UNCHANGED <<rows, messages>>
<1>1. UNION {Held(v) : v \in {w}} = Held(w)
  OBVIOUS
<1> QED
  BY <1>1 DEF TickFails, Become, TypeOK, Held

LEMMA RestartAsDrop ==
    ASSUME Restart
    PROVE  /\ dropped' = dropped \cup UNION {Held(v) : v \in Workers}
           /\ tick' = [v \in Workers |-> IF v \in Workers THEN Idle ELSE tick[v]]
           /\ UNCHANGED <<rows, messages>>
BY DEF Restart, Held

\* The steps that only move a tick along its loop.
LocalNext ==
    \/ \E s \in Sessions, t \in Triggers : NewTelemetry(s, t)
    \/ Rescope
    \/ \E c \in Chats, s \in Sessions : ExchangeTurn(c, s)
    \/ \E w \in Workers :
          \/ \E s \in Sessions : StartTick(w, s)
          \/ \E f \in Fires : PersistFire(w, f) /\ rows[f].present
          \/ \E f \in Fires : Generate(w, f)
          \/ \E c \in Chats : AppendHistory(w, c)
          \/ StartActing(w) \/ FinishTick(w)

LEMMA LocalNextStep ==
    ASSUME TickInv, TypeOK', LocalNext
    PROVE  TickInv' /\ UNCHANGED <<rows, messages, dropped>>
<1> USE DEF TickInv
<1>0. \A w \in Workers : tick[w] \in TickStates
  BY DEF TypeOK
<1>1. ASSUME \/ Rescope
             \/ \E s \in Sessions, t \in Triggers : NewTelemetry(s, t)
             \/ \E c \in Chats, s \in Sessions : ExchangeTurn(c, s)
      PROVE  TickInv' /\ UNCHANGED <<rows, messages, dropped>>
  <2>1. UNCHANGED <<tick, rows, messages, dropped>>
    BY <1>1 DEF NewTelemetry, Rescope, ExchangeTurn
  <2>2. \A w \in Workers : Held(w)' = Held(w)
    BY <2>1 DEF Held, Unsent
  <2>3. \A g : Sent(g)' <=> Sent(g)
    BY <2>1 DEF Sent
  <2>4. LoopOK' /\ OneMessagePerFire' /\ ActedHasMessage'
    BY <2>1 DEF LoopOK, OneMessagePerFire, ActedHasMessage
  <2>5. HeldOK' /\ Exclusive'
    BY <2>1, <2>2, <2>3 DEF HeldOK, Exclusive
  <2>6. RowFirst' /\ NotForgotten'
    BY <2>1, <2>2, <2>3 DEF RowFirst, NotForgotten
  <2> QED BY <2>1, <2>4, <2>5, <2>6
<1>2. ASSUME NEW w \in Workers, NEW s \in Sessions, StartTick(w, s)
      PROVE  TickInv' /\ UNCHANGED <<rows, messages, dropped>>
  <2> DEFINE t == [Idle EXCEPT !.pc = "persist", !.session = s,
                               !.detected = {s} \X telemetry[s]]
  <2>1. t.pc = "persist" /\ Unsent(t) = {} /\ Fits(t)
    BY DEF Idle, Unsent, Fits
  <2>2. Held(w) = {}
    BY <1>2 DEF StartTick, LoopOK, Held, Unsent
  <2>3. Become(w, t) /\ UNCHANGED <<rows, messages, dropped>>
    BY <1>2 DEF StartTick
  <2> HIDE DEF t
  <2> QED BY <2>1, <2>2, <2>3, LocalStep
<1>3. ASSUME NEW w \in Workers, NEW f \in Fires, PersistFire(w, f), rows[f].present
      PROVE  TickInv' /\ UNCHANGED <<rows, messages, dropped>>
  <2> DEFINE t == [tick[w] EXCEPT !.detected = tick[w].detected \ {f}]
  <2>1. t.pc = "persist" /\ Unsent(t) = Held(w) /\ Fits(t)
    BY <1>0, <1>3 DEF PersistFire, TickStates, Unsent, Held, Fits
  <2>2. Become(w, t) /\ UNCHANGED <<rows, messages, dropped>>
    BY <1>3 DEF PersistFire
  <2> HIDE DEF t
  <2> QED BY <2>1, <2>2, LocalStep
<1>4. ASSUME NEW w \in Workers, StartActing(w)
      PROVE  TickInv' /\ UNCHANGED <<rows, messages, dropped>>
  <2> DEFINE t == [tick[w] EXCEPT !.pc = "act"]
  <2>1. t.pc = "act" /\ Unsent(t) = Held(w) /\ Fits(t)
    BY <1>0, <1>4 DEF StartActing, TickStates, Unsent, Held, Fits
  <2>2. Become(w, t) /\ UNCHANGED <<rows, messages, dropped>>
    BY <1>4 DEF StartActing
  <2> HIDE DEF t
  <2> QED BY <2>1, <2>2, LocalStep
<1>5. ASSUME NEW w \in Workers, NEW f \in Fires, Generate(w, f)
      PROVE  TickInv' /\ UNCHANGED <<rows, messages, dropped>>
  <2> DEFINE t == [tick[w] EXCEPT !.pc = "insert", !.fire = f,
                                  !.new = tick[w].new \ {f},
                                  !.response = responses + 1]
             u == [tick[w] EXCEPT !.new = tick[w].new \ {f}]
  <2>1. f \in tick[w].new /\ tick[w].pc = "act" /\ Held(w) = tick[w].new
    BY <1>5 DEF Generate, Held, Unsent
  <2>2. /\ t.pc = "insert" /\ t.fire = f /\ t.new = tick[w].new \ {f}
        /\ u.pc = "act" /\ u.new = tick[w].new \ {f}
    BY <1>0, <2>1 DEF TickStates
  <2>3. UNCHANGED <<rows, messages, dropped>>
    BY <1>5 DEF Generate
  <2>4. CASE f[2] \in ActedOn
    <3>1. Become(w, t)
      BY <1>5, <2>4 DEF Generate
    <3> HIDE DEF t
    <3>2. Fits(t) /\ Unsent(t) = Held(w)
      BY <2>1, <2>2 DEF Fits, Unsent
    <3> QED BY <2>3, <3>1, <3>2, LocalStep
  <2>5. CASE f[2] \notin ActedOn
    <3>1. Become(w, u)
      BY <1>5, <2>5 DEF Generate
    <3> HIDE DEF u
    <3>2. Fits(u) /\ Unsent(u) = Held(w) \ {f}
      BY <2>1, <2>2 DEF Fits, Unsent
    <3>3. \A g \in Held(w) \ Unsent(u) : g[2] \notin ActedOn
      BY <2>5, <3>2
    <3> QED BY <2>3, <3>1, <3>2, <3>3, LocalStep
  <2> QED BY <2>4, <2>5
<1>6. ASSUME NEW w \in Workers, NEW c \in Chats, AppendHistory(w, c)
      PROVE  TickInv' /\ UNCHANGED <<rows, messages, dropped>>
  <2> DEFINE t == [tick[w] EXCEPT !.chats = tick[w].chats \ {c},
                     !.pc = IF tick[w].chats = {c} THEN "mark" ELSE "history"]
  <2>1. tick[w].pc = "history" /\ Become(w, t) /\ UNCHANGED <<rows, messages, dropped>>
    BY <1>6 DEF AppendHistory
  <2>2. /\ t.pc \in {"mark", "history"} /\ t.new = tick[w].new
        /\ t.fire = tick[w].fire /\ t.response = tick[w].response
    BY <1>0 DEF TickStates
  <2> HIDE DEF t
  <2>3. Fits(t) /\ Unsent(t) = Held(w)
    BY <2>1, <2>2 DEF Fits, Unsent, Held, LoopOK
  <2> QED BY <2>1, <2>3, LocalStep
<1>7. ASSUME NEW w \in Workers, FinishTick(w)
      PROVE  TickInv' /\ UNCHANGED <<rows, messages, dropped>>
  <2>1. Fits(Idle) /\ Unsent(Idle) = {} /\ Held(w) = {}
    BY <1>7 DEF FinishTick, Fits, Idle, Unsent, Held
  <2>2. Become(w, Idle) /\ UNCHANGED <<rows, messages, dropped>>
    BY <1>7 DEF FinishTick
  <2> QED BY <2>1, <2>2, LocalStep
<1> QED
  BY <1>1, <1>2, <1>3, <1>4, <1>5, <1>6, <1>7 DEF LocalNext

\* Every step of the tick is one of these.
LEMMA StepKinds ==
    ASSUME [Next]_vars
    PROVE  \/ LocalNext
           \/ \E w \in Workers :
                 \/ \E f \in Fires : PersistFire(w, f) /\ ~ rows[f].present
                 \/ InsertMessage(w) \/ MarkActed(w) \/ TickFails(w)
           \/ Restart
           \/ UNCHANGED vars
BY DEF Next, Advance, LocalNext

LEMMA Inductive == TickInv /\ [Next]_vars => TickInv'
<1> SUFFICES ASSUME TickInv, [Next]_vars PROVE TickInv'
  OBVIOUS
<1>1. TypeOK /\ TypeOK'
  BY TypeStep DEF TickInv
<1>2. CASE LocalNext
  BY <1>1, <1>2, LocalNextStep
<1>3. ASSUME NEW w \in Workers, NEW f \in Fires, PersistFire(w, f), ~ rows[f].present
      PROVE  TickInv'
  BY <1>1, <1>3, ClaimStep
<1>4. ASSUME NEW w \in Workers, InsertMessage(w) PROVE TickInv'
  BY <1>1, <1>4, SendStep
<1>5. ASSUME NEW w \in Workers, MarkActed(w) PROVE TickInv'
  BY <1>1, <1>5, MarkStep
<1>6. ASSUME NEW w \in Workers, TickFails(w) PROVE TickInv'
  <2> DEFINE G == {w}
  <2>1. /\ dropped' = dropped \cup UNION {Held(v) : v \in G}
        /\ tick' = [v \in Workers |-> IF v \in G THEN Idle ELSE tick[v]]
        /\ UNCHANGED <<rows, messages>>
    BY <1>1, <1>6, FailsAsDrop
  <2>2. G \in SUBSET Workers
    OBVIOUS
  <2> HIDE DEF G
  <2> QED BY <1>1, <2>1, <2>2, DropStep
<1>7. CASE Restart
  BY <1>1, <1>7, RestartAsDrop, DropStep
<1>8. CASE UNCHANGED vars
  <2>1. UNCHANGED <<rows, messages, tick, dropped>>
    BY <1>8 DEF vars
  <2>2. \A w \in Workers : Held(w)' = Held(w)
    BY <2>1 DEF Held
  <2>3. \A f \in Fires : Sent(f)' = Sent(f)
    BY <2>1, Zenon DEF Sent
  <2>4. LoopOK' /\ RowFirst' /\ OneMessagePerFire' /\ ActedHasMessage'
    BY <2>1, Zenon DEF TickInv, LoopOK, RowFirst, Sent, OneMessagePerFire, ActedHasMessage
  <2>5. HeldOK' /\ Exclusive' /\ NotForgotten'
    BY <2>1, Zenon DEF TickInv, HeldOK, Exclusive, NotForgotten, Held, Unsent, Sent
  <2> QED
    BY <1>1, <2>4, <2>5 DEF TickInv
<1> QED
  BY <1>2, <1>3, <1>4, <1>5, <1>6, <1>7, <1>8, StepKinds

LEMMA Invariance == Spec => []TickInv
BY InitInv, Inductive, PTL DEF Spec

\* Two ticks never both message the student about one fire, whatever runs at
\* the same time and wherever a call fails: the database's unique row decides
\* who acts.
THEOREM AtMostOnce == Spec => []OneMessagePerFire
<1>1. TickInv => OneMessagePerFire
  BY DEF TickInv
<1> QED
  BY <1>1, Invariance, PTL

\* The response a row names is a stored message about that row.
THEOREM ActedLinked == Spec => []ActedHasMessage
<1>1. TickInv => ActedHasMessage
  BY DEF TickInv
<1> QED
  BY <1>1, Invariance, PTL

\* A claimed fire without a message is in the hands of exactly one tick unless
\* a failure or a restart dropped it.
THEOREM NothingForgotten == Spec => []OnlyFailuresDrop
<1>1. TickInv => OnlyFailuresDrop
  <2> SUFFICES ASSUME TickInv, NEW f \in Fires, rows[f].present, f[2] \in ActedOn,
                      f \notin dropped, ~ Sent(f)
               PROVE  Cardinality({w \in Workers : f \in Unsent(tick[w])}) = 1
    BY DEF OnlyFailuresDrop, Sent
  <2>1. PICK w \in Workers : f \in Held(w)
    BY DEF TickInv, NotForgotten
  <2>2. {v \in Workers : f \in Unsent(tick[v])} = {w}
    BY <2>1 DEF TickInv, Exclusive, Held
  <2> QED BY <2>2, FS_Singleton
<1> QED
  BY <1>1, Invariance, PTL

---------------------------------------------------------------------------
(* Refinement. *)

LEMMA StatusCases ==
    ASSUME NEW f \in Fires
    PROVE  /\ Sent(f) => Status[f] = "sent"
           /\ ~ Sent(f) /\ f \in dropped => Status[f] = "dropped"
           /\ ~ Sent(f) /\ f \notin dropped /\ rows[f].present => Status[f] = "claimed"
           /\ ~ Sent(f) /\ f \notin dropped /\ ~ rows[f].present => Status[f] = "unseen"
BY DEF Status, Sent

\* With the same rows, messages and drops every fire has the same status.
LEMMA StatusKept ==
    ASSUME \A f \in Fires : rows'[f].present <=> rows[f].present,
           UNCHANGED <<messages, dropped>>
    PROVE  UNCHANGED Status
BY DEF Status

\* A failure's drop is one of the promise's drops.
LEMMA DropIsDrop ==
    ASSUME TickInv, NEW G \in SUBSET Workers,
           UNCHANGED <<rows, messages>>,
           dropped' = dropped \cup UNION {Held(w) : w \in G}
    PROVE  Promise!Next
<1> DEFINE F == UNION {Held(w) : w \in G}
<1>1. F \in SUBSET Fires
  BY HeldFires DEF TickInv
<1>2. \A f \in F : rows[f].present /\ ~ Sent(f) /\ f \notin dropped
  BY DEF TickInv, HeldOK
<1>3. \A f \in F : Status[f] = "claimed"
  BY <1>1, <1>2, StatusCases
<1>4. Status' = [f \in Fires |-> IF f \in F THEN "dropped" ELSE Status[f]]
  <2>1. Status' = [f \in Fires |-> Status'[f]]
    BY DEF Status
  <2>2. ASSUME NEW f \in Fires, f \in F PROVE Status'[f] = "dropped"
    BY <1>2, <2>2 DEF Status, Sent
  <2>3. ASSUME NEW f \in Fires, f \notin F PROVE Status'[f] = Status[f]
    BY <2>3 DEF Status
  <2> QED BY <2>1, <2>2, <2>3
<1>5. Promise!Drop(F)
  BY <1>3, <1>4 DEF Promise!Drop
<1> QED BY <1>1, <1>5 DEF Promise!Next

\* The tick implements the promise of CheckIns about every fire: claimed once,
\* then at most one message, and a drop is final.
THEOREM Implements == Spec => ImplementsCheckIns
<1>1. Init => Promise!Init
  <2> SUFFICES ASSUME Init PROVE Status = [f \in Fires |-> "unseen"]
    BY DEF Promise!Init
  <2>1. \A f \in Fires : ~ rows[f].present /\ ~ Sent(f) /\ f \notin dropped
    BY DEF Init, Absent, Sent
  <2>2. \A f \in Fires : Status[f] = "unseen"
    BY <2>1, StatusCases
  <2> QED BY <2>2 DEF Status
<1>2. TickInv /\ [Next]_vars => [Promise!Next]_Status
  <2> SUFFICES ASSUME TickInv, [Next]_vars PROVE Promise!Next \/ UNCHANGED Status
    OBVIOUS
  <2>1. TypeOK /\ TypeOK'
    BY TypeStep DEF TickInv
  <2>2. CASE LocalNext
    BY <2>1, <2>2, LocalNextStep, StatusKept
  <2>3. ASSUME NEW w \in Workers, NEW f \in Fires, PersistFire(w, f), ~ rows[f].present
        PROVE  Promise!Next
    <3>1. Status[f] = "unseen" /\ ~ Sent(f) /\ f \notin dropped
      BY <2>3, StatusCases DEF TickInv, RowFirst
    <3>2. /\ rows' = [rows EXCEPT ![f] = [Absent EXCEPT !.present = TRUE]]
          /\ UNCHANGED <<messages, dropped>>
      BY <2>3 DEF PersistFire
    <3>3. \A g \in Fires : /\ g # f => rows'[g] = rows[g]
                           /\ rows'[f].present
      BY <2>1, <3>2 DEF TypeOK, Absent
    <3>4. Status' = [Status EXCEPT ![f] = "claimed"]
      <4>1. Status' = [g \in Fires |-> Status'[g]] /\ Status = [g \in Fires |-> Status[g]]
        BY DEF Status
      <4>2. Status'[f] = "claimed"
        BY <3>1, <3>2, <3>3 DEF Status, Sent
      <4>3. ASSUME NEW g \in Fires, g # f PROVE Status'[g] = Status[g]
        BY <3>2, <3>3, <4>3 DEF Status
      <4> QED BY <4>1, <4>2, <4>3
    <3> QED BY <3>1, <3>4 DEF Promise!Next, Promise!Claim
  <2>4. ASSUME NEW w \in Workers, InsertMessage(w) PROVE Promise!Next
    <3> DEFINE f == tick[w].fire
               m == [response |-> tick[w].response, fire |-> f]
    <3>1. f \in Fires /\ f \in Held(w)
      BY <2>1, <2>4 DEF InsertMessage, TypeOK, Held, Unsent
    <3>2. rows[f].present /\ ~ Sent(f) /\ f \notin dropped
      BY <3>1 DEF TickInv, HeldOK
    <3>3. Status[f] = "claimed"
      BY <3>1, <3>2, StatusCases
    <3>4. messages' = messages \cup {m} /\ m.fire = f /\ UNCHANGED <<rows, dropped>>
      BY <2>4 DEF InsertMessage
    <3> HIDE DEF m
    <3>5. Status' = [Status EXCEPT ![f] = "sent"]
      <4>1. Status' = [g \in Fires |-> Status'[g]] /\ Status = [g \in Fires |-> Status[g]]
        BY DEF Status
      <4>2. Status'[f] = "sent"
        BY <3>1, <3>4 DEF Status
      <4>3. ASSUME NEW g \in Fires, g # f PROVE Status'[g] = Status[g]
        BY <3>4, <4>3 DEF Status
      <4> QED BY <4>1, <4>2, <4>3
    <3> QED BY <3>1, <3>3, <3>5 DEF Promise!Next, Promise!Send
  <2>5. ASSUME NEW w \in Workers, MarkActed(w) PROVE UNCHANGED Status
    <3>1. [response |-> tick[w].response, fire |-> tick[w].fire] \in messages
      BY <2>5 DEF MarkActed, TickInv, LoopOK
    <3>2. tick[w].fire \in Fires
      BY <2>1, <2>5 DEF MarkActed, TypeOK
    <3>3. rows[tick[w].fire].present
      BY <3>1, <3>2 DEF TickInv, RowFirst, Sent
    <3>4. UNCHANGED <<messages, dropped>>
      BY <2>5 DEF MarkActed
    <3>5. \A f \in Fires : rows'[f].present <=> rows[f].present
      BY <2>1, <2>5, <3>2, <3>3 DEF MarkActed, TypeOK
    <3> QED BY <3>4, <3>5, StatusKept
  <2>6. ASSUME NEW w \in Workers, TickFails(w) PROVE Promise!Next
    <3>1. /\ dropped' = dropped \cup UNION {Held(v) : v \in {w}}
          /\ UNCHANGED <<rows, messages>>
      BY <2>1, <2>6, FailsAsDrop
    <3>2. {w} \in SUBSET Workers
      OBVIOUS
    <3> QED BY <3>1, <3>2, DropIsDrop
  <2>7. CASE Restart
    <3>1. /\ dropped' = dropped \cup UNION {Held(v) : v \in Workers}
          /\ UNCHANGED <<rows, messages>>
      BY <2>7, RestartAsDrop
    <3>2. Workers \in SUBSET Workers
      OBVIOUS
    <3> QED BY <3>1, <3>2, DropIsDrop
  <2>8. CASE UNCHANGED vars
    BY <2>8 DEF vars, Status
  <2> QED
    BY <2>2, <2>3, <2>4, <2>5, <2>6, <2>7, <2>8, StepKinds
<1>3. Spec => Promise!Init /\ [][Promise!Next]_Status
  BY <1>1, <1>2, Invariance, PTL DEF Spec
<1> QED
  BY <1>3 DEF ImplementsCheckIns, Promise!Spec

---------------------------------------------------------------------------
(* The memory of the chats.  A tick carries fires of its own session only, *)
(* and what it has sent and is about to remember or to mark is a message.  *)

OwnSession(t) ==
    t.pc # "idle" =>
        /\ t.session \in Sessions
        /\ t.detected \subseteq {t.session} \X Triggers
        /\ t.new \subseteq {t.session} \X Triggers
        /\ t.pc \in {"insert", "history", "mark"} => t.fire \in {t.session} \X Triggers

Delivered(t, sent) ==
    t.pc \in {"history", "mark"} => [response |-> t.response, fire |-> t.fire] \in sent

Remembered(t, h) ==
    \A c \in Chats : \/ t.pc = "history" /\ c \notin t.chats
                     \/ t.pc = "mark"
                     => Recalled(t.response, h[c][t.session])

\* The remembered check-ins are among the messages sent.
Stored(h, sent) ==
    \A c \in Chats, s \in Sessions : \A i \in DOMAIN h[c][s] :
        h[c][s][i] # Exchanged => \E m \in sent : m.response = h[c][s][i] /\ m.fire[1] = s

\* The chats recall the check-ins of the rows rs that are acted.
ActedRecalled(h, rs) ==
    \A f \in Fires : rs[f].acted => \A c \in Chats : Recalled(rs[f].response, h[c][f[1]])

MemoryGood(ticks, h, sent, rs, failed) ==
    /\ \A w \in Workers : OwnSession(ticks[w]) /\ Delivered(ticks[w], sent)
    /\ Stored(h, sent)
    /\ failed = 0 => ActedRecalled(h, rs) /\ \A w \in Workers : Remembered(ticks[w], h)

MemoryInv == MemoryGood(tick, history, messages, rows, faults)

LEMMA MemoryInit == Init => MemoryInv
<1> SUFFICES ASSUME Init PROVE MemoryInv
  OBVIOUS
<1>1. \A w \in Workers : tick[w].pc = "idle"
  BY DEF Init, Idle
<1>2. \A w \in Workers : /\ OwnSession(tick[w])
                         /\ Delivered(tick[w], messages)
                         /\ Remembered(tick[w], history)
  BY <1>1 DEF OwnSession, Delivered, Remembered
<1>3. \A f \in Fires : rows[f].acted = FALSE
  BY DEF Init, Absent
<1>4. ActedRecalled(history, rows)
  BY <1>3, Zenon DEF ActedRecalled
<1>5. \A c \in Chats, s \in Sessions : history[c][s] = <<>>
  BY DEF Init
<1>6. Stored(history, messages)
  BY <1>5 DEF Stored
<1> QED
  BY <1>2, <1>4, <1>6 DEF MemoryInv, MemoryGood

\* A memory never recalls less than before, and what is new in it is stored.
MemoryGrows ==
    /\ \A c \in Chats, s \in Sessions : \A y :
          Recalled(y, history[c][s]) => Recalled(y, history'[c][s])
    /\ Stored(history', messages')

\* Turn x is an exchange's, or the response of a stored message of the session.
LEMMA MemoryGrowth ==
    ASSUME TypeOK, MemoryInv, NEW c \in Chats, NEW s \in Sessions, NEW x \in Nat,
           Remember(c, s, x), messages' = messages,
           x # Exchanged => \E m \in messages : m.response = x /\ m.fire[1] = s
    PROVE  MemoryGrows /\ Recalled(x, history'[c][s])
<1>1. /\ Renewed(history[c][s], x, history'[c][s])
      /\ \A d \in Chats, z \in Sessions : d # c \/ z # s => history'[d][z] = history[d][z]
  BY RememberRenews
<1>2. Stored(history, messages)
  BY DEF MemoryInv, MemoryGood
<1>3. ASSUME NEW d \in Chats, NEW z \in Sessions, NEW i \in DOMAIN history'[d][z],
             history'[d][z][i] # Exchanged
      PROVE  \E m \in messages : m.response = history'[d][z][i] /\ m.fire[1] = z
  <2>1. CASE d = c /\ z = s
    <3>1. \/ history'[d][z][i] = x
          \/ \E j \in DOMAIN history[d][z] : history'[d][z][i] = history[d][z][j]
      BY <1>1, <1>3, <2>1 DEF Renewed
    <3>2. CASE history'[d][z][i] = x
      BY <1>3, <2>1, <3>2
    <3>3. CASE \E j \in DOMAIN history[d][z] : history'[d][z][i] = history[d][z][j]
      BY <1>2, <1>3, <3>3 DEF Stored
    <3> QED BY <3>1, <3>2, <3>3
  <2>2. CASE d # c \/ z # s
    <3>1. history'[d][z] = history[d][z]
      BY <1>1, <2>2
    <3> QED BY <1>2, <1>3, <3>1 DEF Stored
  <2> QED BY <2>1, <2>2
<1>4. Stored(history', messages')
  BY <1>3 DEF Stored
<1>5. ASSUME NEW d \in Chats, NEW z \in Sessions, NEW y, Recalled(y, history[d][z])
      PROVE  Recalled(y, history'[d][z])
  <2>1. CASE d = c /\ z = s
    BY <1>1, <1>5, <2>1 DEF Renewed
  <2>2. CASE d # c \/ z # s
    BY <1>1, <1>5, <2>2
  <2> QED BY <2>1, <2>2
<1> QED
  BY <1>1, <1>4, <1>5 DEF MemoryGrows, Renewed

\* Every step but a failure moves one tick at most.
LEMMA MemoryMoves ==
    ASSUME TypeOK, MemoryInv, NEW w \in Workers, NEW t \in TickStates, Become(w, t),
           OwnSession(t), Delivered(t, messages'), messages \subseteq messages',
           MemoryGrows,
           faults' = 0 => /\ faults = 0
                          /\ Remembered(t, history')
                          /\ ActedRecalled(history', rows')
    PROVE  MemoryInv'
<1> USE DEF MemoryInv, MemoryGood
<1>1. \A v \in Workers : tick'[v] = IF v = w THEN t ELSE tick[v]
  BY DEF TypeOK, Become
<1>2. \A v \in Workers : OwnSession(tick'[v])
  BY <1>1
<1>3. \A v \in Workers : Delivered(tick'[v], messages')
  BY <1>1 DEF Delivered
<1>4. ASSUME faults' = 0, NEW v \in Workers PROVE Remembered(tick'[v], history')
  <2>1. CASE v = w
    BY <1>1, <1>4, <2>1
  <2>2. CASE v # w
    <3>1. Remembered(tick[v], history) /\ OwnSession(tick[v]) /\ tick'[v] = tick[v]
      BY <1>1, <1>4, <2>2
    <3> QED
      BY <3>1 DEF Remembered, OwnSession, MemoryGrows
  <2> QED
    BY <2>1, <2>2
<1>5. MemoryGood(tick', history', messages', rows', faults')
  BY <1>2, <1>3, <1>4 DEF MemoryGrows
<1> QED
  BY <1>5

\* What the chats recalled of the rows they recall still.
LEMMA ActedKept ==
    ASSUME MemoryInv, MemoryGrows, faults = 0,
           \A f \in Fires : rows'[f].acted => rows[f].acted /\ rows'[f] = rows[f]
    PROVE  ActedRecalled(history', rows')
<1> SUFFICES ASSUME NEW f \in Fires, rows'[f].acted, NEW c \in Chats
             PROVE  Recalled(rows'[f].response, history'[c][f[1]])
  BY DEF ActedRecalled
<1>1. ActedRecalled(history, rows)
  BY DEF MemoryInv, MemoryGood
<1>2. rows[f].acted /\ rows'[f] = rows[f] /\ f[1] \in Sessions
  BY DEF Fires
<1>3. Recalled(rows[f].response, history[c][f[1]])
  BY <1>1, <1>2, Zenon DEF ActedRecalled
<1> QED
  BY <1>2, <1>3 DEF MemoryGrows

LEMMA StillGrows ==
    ASSUME MemoryInv, messages \subseteq messages', history' = history
    PROVE  MemoryGrows
BY DEF MemoryInv, MemoryGood, MemoryGrows, Stored

\* A step of one tick that touches neither messages nor memory, marks no row and
\* does not end in a stage that owes one of these.
LEMMA MemoryKept ==
    ASSUME TypeOK, MemoryInv, NEW w \in Workers, NEW t \in TickStates, Become(w, t),
           OwnSession(t), t.pc \notin {"history", "mark"},
           messages' = messages, history' = history, faults' = 0 => faults = 0,
           \A f \in Fires : rows'[f].acted => rows[f].acted /\ rows'[f] = rows[f]
    PROVE  MemoryInv'
<1>1. MemoryGrows
  BY StillGrows
<1>2. Delivered(t, messages') /\ Remembered(t, history')
  BY DEF Delivered, Remembered
<1>3. faults' = 0 => ActedRecalled(history', rows')
  BY <1>1, ActedKept
<1> QED
  BY <1>1, <1>2, <1>3, MemoryMoves

LEMMA InsertMemory ==
    ASSUME TypeOK, MemoryInv, NEW w \in Workers, InsertMessage(w)
    PROVE  MemoryInv'
<1> DEFINE t == [tick[w] EXCEPT !.pc = "history", !.chats = Chats]
<1>1. tick[w] \in TickStates /\ tick[w].pc = "insert" /\ OwnSession(tick[w])
  BY DEF TypeOK, InsertMessage, MemoryInv, MemoryGood
<1>2. /\ t \in TickStates /\ t.pc = "history" /\ t.chats = Chats
      /\ t.session = tick[w].session /\ t.fire = tick[w].fire
      /\ t.response = tick[w].response /\ t.detected = tick[w].detected
      /\ t.new = tick[w].new
  BY <1>1 DEF TickStates, Pcs
<1>3. /\ Become(w, t) /\ faults' = faults /\ history' = history /\ rows' = rows
      /\ messages' = messages \cup {[response |-> tick[w].response, fire |-> tick[w].fire]}
  BY DEF InsertMessage
<1> HIDE DEF t
<1>4. MemoryGrows
  BY <1>3, StillGrows
<1>5. OwnSession(t) /\ Delivered(t, messages') /\ Remembered(t, history')
  BY <1>1, <1>2, <1>3 DEF OwnSession, Delivered, Remembered
<1>6. faults' = 0 => ActedRecalled(history', rows')
  BY <1>3 DEF MemoryInv, MemoryGood
<1> QED
  BY <1>2, <1>3, <1>4, <1>5, <1>6, MemoryMoves

LEMMA AppendMemory ==
    ASSUME TypeOK, MemoryInv, NEW w \in Workers, NEW c \in Chats, AppendHistory(w, c)
    PROVE  MemoryInv'
<1> DEFINE t == [tick[w] EXCEPT !.chats = tick[w].chats \ {c},
                   !.pc = IF tick[w].chats = {c} THEN "mark" ELSE "history"]
<1>1. /\ tick[w] \in TickStates /\ tick[w].pc = "history" /\ OwnSession(tick[w])
      /\ Delivered(tick[w], messages)
      /\ faults = 0 => Remembered(tick[w], history)
  BY DEF TypeOK, AppendHistory, MemoryInv, MemoryGood
<1>2. /\ t \in TickStates /\ t.chats = tick[w].chats \ {c}
      /\ t.pc = IF tick[w].chats = {c} THEN "mark" ELSE "history"
      /\ t.session = tick[w].session /\ t.fire = tick[w].fire
      /\ t.response = tick[w].response /\ t.detected = tick[w].detected
      /\ t.new = tick[w].new
  BY <1>1 DEF TickStates, Pcs
<1>3. /\ Become(w, t) /\ faults' = faults /\ messages' = messages /\ rows' = rows
      /\ Remember(c, tick[w].session, tick[w].response)
  BY DEF AppendHistory
<1> HIDE DEF t
<1>4. tick[w].session \in Sessions /\ tick[w].response \in Nat
  BY <1>1 DEF OwnSession, TickStates
<1>5. \E m \in messages : m.response = tick[w].response /\ m.fire[1] = tick[w].session
  <2>1. [response |-> tick[w].response, fire |-> tick[w].fire] \in messages
    BY <1>1 DEF Delivered
  <2>2. tick[w].fire[1] = tick[w].session
    BY <1>1 DEF OwnSession
  <2> QED BY <2>1, <2>2
<1>6. MemoryGrows /\ Recalled(tick[w].response, history'[c][tick[w].session])
  BY <1>3, <1>4, <1>5, MemoryGrowth
<1>7. OwnSession(t) /\ Delivered(t, messages')
  BY <1>1, <1>2, <1>3 DEF OwnSession, Delivered
<1>8. ASSUME faults = 0 PROVE Remembered(t, history')
  <2> SUFFICES ASSUME NEW d \in Chats,
                      \/ t.pc = "history" /\ d \notin t.chats
                      \/ t.pc = "mark"
               PROVE  Recalled(t.response, history'[d][t.session])
    BY DEF Remembered
  <2>1. CASE d = c
    BY <1>2, <1>6, <2>1
  <2>2. CASE d # c
    <3>1. d \notin tick[w].chats
      BY <1>2, <2>2
    <3>2. Recalled(tick[w].response, history[d][tick[w].session])
      BY <1>1, <1>8, <3>1 DEF Remembered
    <3> QED
      BY <1>2, <1>4, <1>6, <3>2 DEF MemoryGrows
  <2> QED
    BY <2>1, <2>2
<1>9. faults = 0 => ActedRecalled(history', rows')
  BY <1>3, <1>6, ActedKept
<1> QED
  BY <1>2, <1>3, <1>6, <1>7, <1>8, <1>9, MemoryMoves

\* A chat request's turn.
LEMMA ExchangeMemory ==
    ASSUME TypeOK, MemoryInv, NEW c \in Chats, NEW s \in Sessions, ExchangeTurn(c, s)
    PROVE  MemoryInv'
<1>1. /\ Remember(c, s, Exchanged) /\ Exchanged \in Nat /\ messages' = messages
      /\ tick' = tick /\ rows' = rows /\ faults' = faults
  BY DEF ExchangeTurn, Exchanged
<1>2. MemoryGrows
  BY <1>1, MemoryGrowth
<1>3. PICK t : t = tick[Daemon]
  OBVIOUS
<1>4. Daemon \in Workers /\ t \in TickStates /\ Become(Daemon, t)
  BY <1>1, <1>3 DEF Workers, TypeOK, Become
<1>5. OwnSession(t) /\ Delivered(t, messages') /\ (faults = 0 => Remembered(t, history))
  BY <1>1, <1>3, <1>4 DEF MemoryInv, MemoryGood
<1>6. faults = 0 => Remembered(t, history')
  BY <1>2, <1>5 DEF Remembered, OwnSession, MemoryGrows
<1>7. faults = 0 => ActedRecalled(history', rows')
  BY <1>1, <1>2, ActedKept
<1> QED
  BY <1>1, <1>2, <1>4, <1>5, <1>6, <1>7, MemoryMoves

LEMMA MarkMemory ==
    ASSUME TypeOK, MemoryInv, NEW w \in Workers, MarkActed(w)
    PROVE  MemoryInv'
<1> DEFINE t == [tick[w] EXCEPT !.pc = "act", !.fire = NoFire, !.response = 0]
<1>1. /\ tick[w] \in TickStates /\ tick[w].pc = "mark" /\ OwnSession(tick[w])
      /\ faults = 0 => Remembered(tick[w], history)
  BY DEF TypeOK, MarkActed, MemoryInv, MemoryGood
<1>2. tick[w].fire \in Fires
  BY <1>1 DEF OwnSession, Fires
<1>3. /\ t \in TickStates /\ t.pc = "act" /\ t.session = tick[w].session
      /\ t.detected = tick[w].detected /\ t.new = tick[w].new
  BY <1>1, IdleType DEF TickStates, Pcs
<1>4. /\ Become(w, t) /\ faults' = faults /\ messages' = messages /\ history' = history
      /\ rows' = [rows EXCEPT ![tick[w].fire] =
                     [present |-> TRUE, acted |-> TRUE, response |-> tick[w].response]]
  BY DEF MarkActed
<1> HIDE DEF t
<1>5. OwnSession(t) /\ Delivered(t, messages') /\ Remembered(t, history')
  BY <1>1, <1>3 DEF OwnSession, Delivered, Remembered
<1>6. ASSUME faults = 0 PROVE ActedRecalled(history', rows')
  <2> SUFFICES ASSUME NEW f \in Fires, rows'[f].acted, NEW c \in Chats
               PROVE  Recalled(rows'[f].response, history[c][f[1]])
    BY <1>4 DEF ActedRecalled
  <2>1. rows \in [Fires -> RowStates] /\ ActedRecalled(history, rows)
    BY <1>6 DEF TypeOK, MemoryInv, MemoryGood
  <2>2. CASE f = tick[w].fire
    <3>1. rows'[f].response = tick[w].response
      BY <1>4, <2>1, <2>2
    <3>2. f[1] = tick[w].session
      BY <1>1, <2>2 DEF OwnSession
    <3>3. Recalled(tick[w].response, history[c][tick[w].session])
      BY <1>1, <1>6 DEF Remembered
    <3> QED
      BY <3>1, <3>2, <3>3
  <2>3. CASE f # tick[w].fire
    <3>1. rows'[f] = rows[f]
      BY <1>4, <2>1, <2>3
    <3> QED
      BY <2>1, <3>1, Zenon DEF ActedRecalled
  <2> QED
    BY <2>2, <2>3
<1>7. MemoryGrows
  BY <1>4, StillGrows
<1> QED
  BY <1>3, <1>4, <1>5, <1>6, <1>7, MemoryMoves

LEMMA PersistMemory ==
    ASSUME TypeOK, MemoryInv, NEW w \in Workers, NEW f \in Fires, PersistFire(w, f)
    PROVE  MemoryInv'
<1>1. /\ tick[w] \in TickStates /\ tick[w].pc = "persist" /\ OwnSession(tick[w])
      /\ f \in tick[w].detected
  BY DEF TypeOK, PersistFire, MemoryInv, MemoryGood
<1>2. PICK new \in SUBSET Fires :
        /\ new \subseteq tick[w].new \cup {f}
        /\ Become(w, [tick[w] EXCEPT !.detected = tick[w].detected \ {f}, !.new = new])
  <2>1. CASE rows[f].present
    <3>1. [tick[w] EXCEPT !.detected = tick[w].detected \ {f}] =
            [tick[w] EXCEPT !.detected = tick[w].detected \ {f}, !.new = tick[w].new]
      BY <1>1 DEF TickStates
    <3>2. Become(w, [tick[w] EXCEPT !.detected = tick[w].detected \ {f}])
      BY <2>1 DEF PersistFire
    <3> QED
      BY <1>1, <3>1, <3>2 DEF TickStates
  <2>2. CASE ~ rows[f].present
    <3>1. tick[w].new \cup {f} \in SUBSET Fires
      BY <1>1 DEF TickStates
    <3> QED
      BY <2>2, <3>1 DEF PersistFire
  <2> QED
    BY <2>1, <2>2
<1> DEFINE t == [tick[w] EXCEPT !.detected = tick[w].detected \ {f}, !.new = new]
<1>3. /\ t \in TickStates /\ t.pc = "persist" /\ t.session = tick[w].session
      /\ t.detected \subseteq tick[w].detected /\ t.new \subseteq tick[w].new \cup {f}
  BY <1>1, <1>2 DEF TickStates
<1>4. Become(w, t)
  BY <1>2
<1> HIDE DEF t
<1>5. OwnSession(t)
  BY <1>1, <1>3 DEF OwnSession
<1>6. messages' = messages /\ history' = history /\ faults' = faults
  BY DEF PersistFire
<1>7. ASSUME NEW g \in Fires, rows'[g].acted PROVE rows[g].acted /\ rows'[g] = rows[g]
  <2>1. CASE rows[f].present
    <3>1. rows' = rows
      BY <2>1 DEF PersistFire
    <3> QED
      BY <1>7, <3>1
  <2>2. CASE ~ rows[f].present
    <3>1. rows' = [rows EXCEPT ![f] = [Absent EXCEPT !.present = TRUE]]
          /\ rows \in [Fires -> RowStates]
      BY <2>2 DEF PersistFire, TypeOK
    <3>2. g = f => rows'[g].acted = FALSE
      BY <3>1 DEF Absent
    <3>3. g # f
      BY <1>7, <3>2, Zenon
    <3>4. rows'[g] = rows[g]
      BY <3>1, <3>3
    <3> QED
      BY <1>7, <3>4
  <2> QED
    BY <2>1, <2>2
<1> QED
  BY <1>3, <1>4, <1>5, <1>6, <1>7, MemoryKept

LEMMA GenerateMemory ==
    ASSUME TypeOK, MemoryInv, NEW w \in Workers, NEW f \in Fires, Generate(w, f)
    PROVE  MemoryInv'
<1>1. /\ tick[w] \in TickStates /\ tick[w].pc = "act" /\ OwnSession(tick[w])
      /\ f \in tick[w].new /\ responses + 1 \in Nat
  BY DEF TypeOK, Generate, MemoryInv, MemoryGood
<1>2. messages' = messages /\ history' = history /\ faults' = faults /\ rows' = rows
  BY DEF Generate
<1>3. CASE f[2] \in ActedOn
  <2> DEFINE t == [tick[w] EXCEPT !.pc = "insert", !.fire = f, !.new = tick[w].new \ {f},
                                  !.response = responses + 1]
  <2>1. Become(w, t)
    BY <1>3 DEF Generate
  <2>2. /\ t \in TickStates /\ t.pc = "insert" /\ t.session = tick[w].session
        /\ t.fire = f /\ t.detected = tick[w].detected /\ t.new \subseteq tick[w].new
    BY <1>1 DEF TickStates, Pcs
  <2> HIDE DEF t
  <2>3. OwnSession(t)
    BY <1>1, <2>2 DEF OwnSession
  <2> QED
    BY <1>2, <2>1, <2>2, <2>3, MemoryKept
<1>4. CASE f[2] \notin ActedOn
  <2> DEFINE t == [tick[w] EXCEPT !.new = tick[w].new \ {f}]
  <2>1. Become(w, t)
    BY <1>4 DEF Generate
  <2>2. /\ t \in TickStates /\ t.pc = "act" /\ t.session = tick[w].session
        /\ t.detected = tick[w].detected /\ t.new \subseteq tick[w].new
    BY <1>1 DEF TickStates
  <2> HIDE DEF t
  <2>3. OwnSession(t)
    BY <1>1, <2>2 DEF OwnSession
  <2> QED
    BY <1>2, <2>1, <2>2, <2>3, MemoryKept
<1> QED
  BY <1>3, <1>4

LEMMA MemoryStep == TypeOK /\ MemoryInv /\ [Next]_vars => MemoryInv'
<1> SUFFICES ASSUME TypeOK, MemoryInv, [Next]_vars PROVE MemoryInv'
  OBVIOUS
<1>1. Idle \in TickStates /\ Idle.pc = "idle" /\ OwnSession(Idle)
  BY IdleType DEF Idle, OwnSession
<1>2. ASSUME NEW w \in Workers, NEW s \in Sessions, StartTick(w, s) PROVE MemoryInv'
  <2> DEFINE t == [Idle EXCEPT !.pc = "persist", !.session = s,
                               !.detected = {s} \X telemetry[s]]
  <2>1. {s} \X telemetry[s] \subseteq Fires /\ telemetry[s] \subseteq Triggers
    BY DEF Fires, TypeOK
  <2>2. /\ t \in TickStates /\ t.pc = "persist" /\ t.session = s
        /\ t.detected = {s} \X telemetry[s] /\ t.new = {}
    BY <2>1, IdleType DEF Idle, TickStates, Pcs
  <2>3. Become(w, t) /\ messages' = messages /\ history' = history /\ faults' = faults
        /\ rows' = rows
    BY <1>2 DEF StartTick
  <2> HIDE DEF t
  <2>4. OwnSession(t)
    BY <2>1, <2>2 DEF OwnSession
  <2> QED
    BY <2>2, <2>3, <2>4, MemoryKept
<1>3. ASSUME NEW w \in Workers, StartActing(w) PROVE MemoryInv'
  <2> DEFINE t == [tick[w] EXCEPT !.pc = "act"]
  <2>1. tick[w] \in TickStates /\ tick[w].pc = "persist" /\ OwnSession(tick[w])
    BY <1>3 DEF TypeOK, StartActing, MemoryInv, MemoryGood
  <2>2. /\ t \in TickStates /\ t.pc = "act" /\ t.session = tick[w].session
        /\ t.detected = tick[w].detected /\ t.new = tick[w].new
    BY <2>1 DEF TickStates, Pcs
  <2>3. Become(w, t) /\ messages' = messages /\ history' = history /\ faults' = faults
        /\ rows' = rows
    BY <1>3 DEF StartActing
  <2> HIDE DEF t
  <2>4. OwnSession(t)
    BY <2>1, <2>2 DEF OwnSession
  <2> QED
    BY <2>2, <2>3, <2>4, MemoryKept
<1>4. ASSUME NEW w \in Workers, FinishTick(w) PROVE MemoryInv'
  <2>1. Become(w, Idle) /\ messages' = messages /\ history' = history /\ faults' = faults
        /\ rows' = rows
    BY <1>4 DEF FinishTick
  <2> QED
    BY <1>1, <2>1, MemoryKept
<1>5. ASSUME NEW w \in Workers, TickFails(w) PROVE MemoryInv'
  <2>1. Become(w, Idle) /\ messages' = messages /\ history' = history /\ rows' = rows
        /\ faults' = faults + 1 /\ faults \in Nat
    BY <1>5 DEF TickFails, TypeOK
  <2>2. faults' # 0
    BY <2>1
  <2> QED
    BY <1>1, <2>1, <2>2, MemoryKept
<1>6. ASSUME Restart PROVE MemoryInv'
  <2>1. /\ \A w \in Workers : tick'[w] = Idle
        /\ \A c \in Chats, s \in Sessions : history'[c][s] = <<>>
        /\ faults' = faults + 1 /\ faults \in Nat
    BY <1>6 DEF Restart, TypeOK
  <2>2. faults' # 0
    BY <2>1
  <2>3. \A w \in Workers : OwnSession(tick'[w]) /\ Delivered(tick'[w], messages')
    BY <1>1, <2>1 DEF OwnSession, Delivered
  <2>4. Stored(history', messages')
    BY <2>1 DEF Stored
  <2>5. MemoryGood(tick', history', messages', rows', faults')
    BY <2>2, <2>3, <2>4 DEF MemoryGood
  <2> QED
    BY <2>5 DEF MemoryInv, MemoryGood
<1>7. ASSUME tick' = tick, messages' = messages, history' = history, faults' = faults,
             rows' = rows
      PROVE  MemoryInv'
  <2>1. MemoryGood(tick', history', messages', rows', faults')
    BY <1>7 DEF MemoryInv
  <2> QED
    BY <2>1 DEF MemoryInv, MemoryGood
<1>8. ASSUME NEW s \in Sessions, NEW t \in Triggers, NewTelemetry(s, t) PROVE MemoryInv'
  BY <1>7, <1>8 DEF NewTelemetry
<1>9. ASSUME Rescope PROVE MemoryInv'
  BY <1>7, <1>9 DEF Rescope
<1>10. ASSUME UNCHANGED vars PROVE MemoryInv'
  BY <1>7, <1>10 DEF vars
<1> QED
  BY <1>2, <1>3, <1>4, <1>5, <1>6, <1>8, <1>9, <1>10, InsertMemory, AppendMemory, MarkMemory,
     PersistMemory, GenerateMemory, ExchangeMemory DEF Next, Advance

\* The check-ins the chats remember are stored messages of that session, and
\* until something fails or restarts every chat remembers an acted row's
\* check-in, unless its memory is full: MaxTurns turns may have pushed it out.
THEOREM MemorySound == Spec => []MemoryFollowsMessages
<1>1. MemoryInv => MemoryFollowsMessages
  <2> SUFFICES ASSUME MemoryInv PROVE MemoryFollowsMessages
    OBVIOUS
  <2>1. Stored(history, messages) /\ (faults = 0 => ActedRecalled(history, rows))
    BY DEF MemoryInv, MemoryGood
  <2> QED
    BY <2>1, Zenon DEF MemoryFollowsMessages, Stored, ActedRecalled
<1>2. TypeOK /\ MemoryInv /\ [Next]_vars => MemoryInv'
  BY MemoryStep
<1> QED
  BY <1>1, <1>2, MemoryInit, TypeCorrect, PTL DEF Spec

=============================================================================

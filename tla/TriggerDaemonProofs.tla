------------------------- MODULE TriggerDaemonProofs -------------------------
(***************************************************************************)
(* For any number of admins, spellings, class codes, starts and faults:    *)
(* one loop, that of the handle, a last-seen identity that only moves      *)
(* forward, and a log of switches that were made.                          *)
(***************************************************************************)
EXTENDS TriggerDaemon, TLAPS

\* What a tick has read it has read from events, the switches it is about to
\* record were made, and those it is done with are in the log.
GoodWork(x) ==
    /\ x.curr # None => x.curr \in events
    /\ x.prev # None => x.prev \in events
    /\ \A s \in x.found : Made(s)
    /\ x.pc \in {"state", "record", "upsert"} => x.curr # None
    /\ x.pc \in {"record", "upsert"} /\ x.prev # None /\ x.curr.ts > x.prev.ts =>
          DetectSwitches(x.prev, x.curr) \subseteq switches \cup x.found
    /\ x.pc = "upsert" => x.found = {}

DaemonInv ==
    /\ TypeOK
    /\ OneLoop
    /\ pointer # None => pointer \in events
    /\ SwitchesReal
    /\ \A w \in Workers : GoodWork(work[w])

LEMMA IdleGood ==
    ASSUME NEW x \in Works, x.curr = None, x.prev = None, x.found = {},
           x.pc \in {"idle", "begin", "visit", "latest", "rest", "asleep"}
    PROVE  GoodWork(x)
BY DEF GoodWork

LEMMA InitInv == Init => DaemonInv
<1> SUFFICES ASSUME Init PROVE DaemonInv
  OBVIOUS
<1>0. thread \in Loops /\ work = Started(thread) /\ stopping = FALSE
  BY DEF Init
<1>1. Idle \in Works /\ [Idle EXCEPT !.pc = "begin"] \in Works
  BY DEF Idle, Works, Pcs
<1>2. TypeOK
  <2>1. work \in [Workers -> Works]
    BY <1>0, <1>1 DEF Started
  <2>2. /\ events = {} /\ window = 0 /\ pointer = None /\ switches = {}
        /\ starts = 1 /\ faults = 0
    BY DEF Init
  <2>3. thread \in Loops /\ stopping \in BOOLEAN
    BY <1>0
  <2> QED BY <2>1, <2>2, <2>3 DEF TypeOK
<1>3. OneLoop
  BY <1>0 DEF OneLoop, Alive, Idle, Workers, Started
<1>4. \A w \in Workers : GoodWork(work[w])
  BY <1>0, <1>1, IdleGood DEF Idle, Started
<1> QED
  BY <1>2, <1>3, <1>4 DEF Init, DaemonInv, SwitchesReal

\* Only the local state of one worker changes, and stays good; a loop starts
\* with start_daemon only, and ends only when it is told to.
LEMMA LocalStep ==
    ASSUME DaemonInv, NEW w \in Workers, NEW x \in Works, Become(w, x), GoodWork(x),
           w \in Loops => Alive(w) /\ (x.pc # "idle" \/ stopping),
           UNCHANGED IdentityVars, UNCHANGED <<stopping, thread>>,
           starts' \in Nat, faults' \in Nat
    PROVE  DaemonInv'
<1>1. TypeOK'
  BY DEF DaemonInv, TypeOK, Become, IdentityVars
<1>2. \A v \in Workers : work'[v] = IF v = w THEN x ELSE work[v]
  BY DEF DaemonInv, TypeOK, Become
<1>3. OneLoop'
  BY <1>2 DEF DaemonInv, TypeOK, OneLoop, Alive, Workers
<1>4. \A v \in Workers : GoodWork(work[v])'
  BY <1>2 DEF DaemonInv, GoodWork, Made, IdentityVars
<1> QED
  BY <1>1, <1>3, <1>4 DEF DaemonInv, SwitchesReal, Made, IdentityVars

\* The worker goes on with what it has read, or starts again without.
LEMMA WorkTypes ==
    ASSUME DaemonInv, NEW w \in Workers
    PROVE  /\ work[w] \in Works
           /\ GoodWork(work[w])
           /\ Rest(w) \in Works
           /\ GoodWork(Rest(w))
           /\ Rest(w).pc = "rest"
           /\ Idle \in Works
           /\ GoodWork(Idle)
<1>1. work[w] \in Works /\ GoodWork(work[w])
  BY DEF DaemonInv, TypeOK
<1>2. Rest(w) \in Works /\ Idle \in Works
  BY <1>1 DEF Rest, Idle, Works, Pcs
<1> QED
  BY <1>1, <1>2, IdleGood DEF Rest, Idle

LEMMA Made_Grows ==
    ASSUME NEW s, Made(s), events \subseteq events'
    PROVE  Made(s)'
BY DEF Made

\* What detect_switches finds between an event and a later one was made.
LEMMA SwitchesMade ==
    ASSUME NEW p \in events, NEW c \in events, c.ts > p.ts, events \subseteq Identities
    PROVE  /\ \A s \in DetectSwitches(p, c) : Made(s)
           /\ DetectSwitches(p, c) \subseteq Switches
<1>1. p.ts < c.ts
  BY DaemonAssumption DEF Identities
<1>2. p.id \in Spellings /\ c.id \in Spellings /\ p.class \in Classes /\ c.class \in Classes
  BY DEF Identities
<1> QED
  BY <1>1, <1>2 DEF DetectSwitches, Made, Switches

LEMMA StartKeeps ==
    ASSUME DaemonInv, NEW l \in Loops, StartDaemon(l)
    PROVE  DaemonInv'
<1>1. starts' \in Nat /\ faults' \in Nat /\ UNCHANGED IdentityVars
  BY DEF DaemonInv, TypeOK, StartDaemon
<1>2. CASE UNCHANGED <<stopping, thread, work>>
  BY <1>1, <1>2 DEF DaemonInv, TypeOK, OneLoop, Alive, SwitchesReal, Made, GoodWork,
                    IdentityVars
<1>3. CASE /\ ~ Alive(thread)
           /\ stopping' = FALSE
           /\ thread' = l
           /\ Become(l, [Idle EXCEPT !.pc = "begin"])
  <2>1. PICK x \in Works : x = [Idle EXCEPT !.pc = "begin"]
    BY DEF Idle, Works, Pcs
  <2>2. GoodWork(x) /\ x.pc = "begin"
    BY <2>1, IdleGood DEF Idle
  <2>3. l \in Workers /\ thread \in Loops /\ Become(l, x)
    BY <1>3, <2>1 DEF Workers, DaemonInv, TypeOK
  <2>4. \A v \in Workers : work'[v] = IF v = l THEN x ELSE work[v]
    BY <2>3 DEF DaemonInv, TypeOK, Become
  <2>5. TypeOK'
    BY <1>1, <1>3, <2>3 DEF DaemonInv, TypeOK, Become, IdentityVars
  <2>6. \A m \in Loops : ~ Alive(m)
    BY <1>3 DEF DaemonInv, OneLoop
  <2>7. OneLoop'
    BY <1>3, <2>2, <2>4, <2>6 DEF OneLoop, Alive, Workers
  <2>8. \A v \in Workers : GoodWork(work[v])'
    BY <1>1, <2>2, <2>4 DEF DaemonInv, GoodWork, Made, IdentityVars
  <2> QED
    BY <1>1, <2>5, <2>7, <2>8 DEF DaemonInv, SwitchesReal, Made, IdentityVars
<1> QED
  BY <1>2, <1>3 DEF StartDaemon

LEMMA TickKeeps ==
    ASSUME DaemonInv, NEW l \in Loops, BeginTick(l) \/ Visit(l) \/ Wake(l) \/ TickFails(l)
    PROVE  DaemonInv'
<1>1. l \in Workers
  BY DEF Workers
<1>2. /\ UNCHANGED IdentityVars
      /\ UNCHANGED <<stopping, thread>> /\ starts' \in Nat /\ faults' \in Nat
  <2>1. stopping \in BOOLEAN /\ starts \in Nat /\ faults \in Nat
    BY DEF DaemonInv, TypeOK
  <2>2. CASE TickFails(l)
    BY <2>1, <2>2 DEF TickFails, LifecycleVars
  <2>3. CASE BeginTick(l) \/ Visit(l) \/ Wake(l)
    BY <2>1, <2>3 DEF BeginTick, Visit, Wake, LifecycleVars
  <2> QED BY <2>2, <2>3
<1>3. work[l].pc # "idle"
  BY DEF BeginTick, Visit, Wake, TickFails
<1>4. \E x \in Works : Become(l, x) /\ GoodWork(x) /\ (x.pc # "idle" \/ stopping)
  <2>1. {e.id : e \in {f \in events : f.ts >= window}} \subseteq Spellings
    BY DEF DaemonInv, TypeOK, Identities
  <2>2. work[l] \in Works
    BY <1>1, WorkTypes
  <2>3. CASE BeginTick(l)
    <3> DEFINE S == {e.id : e \in {f \in events : f.ts >= window}}
    <3>1. /\ Idle \in Works
          /\ [Idle EXCEPT !.pc = "asleep"] \in Works
          /\ [Idle EXCEPT !.pc = "visit", !.todo = S] \in Works
      BY <2>1 DEF Idle, Works, Pcs
    <3>2. /\ GoodWork(Idle)
          /\ GoodWork([Idle EXCEPT !.pc = "asleep"])
          /\ GoodWork([Idle EXCEPT !.pc = "visit", !.todo = S])
      BY <3>1, IdleGood DEF Idle
    <3>3. CASE stopping /\ Become(l, Idle)
      BY <3>1, <3>2, <3>3
    <3>4. CASE Become(l, [Idle EXCEPT !.pc = "asleep"])
      BY <3>1, <3>2, <3>4 DEF Idle
    <3>5. CASE Become(l, [Idle EXCEPT !.pc = "visit", !.todo = S])
      BY <3>1, <3>2, <3>5 DEF Idle
    <3> QED BY <2>3, <3>3, <3>4, <3>5 DEF BeginTick
  <2>4. CASE Visit(l)
    <3>1. CASE Become(l, [Idle EXCEPT !.pc = "asleep"])
      <4>1. [Idle EXCEPT !.pc = "asleep"] \in Works
        BY DEF Idle, Works, Pcs
      <4> QED BY <3>1, <4>1, IdleGood DEF Idle
    <3>2. ASSUME NEW s \in work[l].todo,
                 Become(l, [work[l] EXCEPT !.pc = "latest", !.id = s, !.todo = @ \ {s}])
          PROVE  \E x \in Works : Become(l, x) /\ GoodWork(x) /\ x.pc # "idle"
      <4> DEFINE x == [work[l] EXCEPT !.pc = "latest", !.id = s, !.todo = @ \ {s}]
      <4>1. x \in Works /\ x.pc = "latest"
        BY <2>2 DEF Works, Pcs
      <4>2. GoodWork(x)
        BY <1>1, <2>2, WorkTypes DEF GoodWork, Works
      <4> QED BY <3>2, <4>1, <4>2
    <3> QED BY <2>4, <3>1, <3>2 DEF Visit
  <2>5. CASE Wake(l)
    <3>1. [Idle EXCEPT !.pc = "begin"] \in Works
      BY DEF Idle, Works, Pcs
    <3> QED BY <2>5, <3>1, IdleGood DEF Wake, Idle
  <2>6. CASE TickFails(l)
    <3>1. [Idle EXCEPT !.pc = "asleep"] \in Works
      BY DEF Idle, Works, Pcs
    <3> QED BY <2>6, <3>1, IdleGood DEF TickFails, Idle
  <2> QED BY <2>3, <2>4, <2>5, <2>6
<1> QED
  BY <1>1, <1>2, <1>3, <1>4, LocalStep DEF Alive

LEMMA AdminKeeps ==
    ASSUME DaemonInv, NEW a \in Admins, AdminTick(a)
    PROVE  DaemonInv'
<1>1. a \in Workers /\ a \notin Loops
  BY DaemonAssumption DEF Workers
<1>2. /\ UNCHANGED IdentityVars
      /\ UNCHANGED <<stopping, thread>> /\ starts' \in Nat /\ faults' \in Nat
  BY DEF DaemonInv, TypeOK, AdminTick, LifecycleVars
<1>3. PICK s \in Spellings : Become(a, [Idle EXCEPT !.pc = "latest", !.id = s])
  BY DEF AdminTick
<1> DEFINE x == [Idle EXCEPT !.pc = "latest", !.id = s]
<1>4. x \in Works
  BY DEF Idle, Works, Pcs
<1>5. GoodWork(x)
  BY <1>4, IdleGood DEF Idle
<1>6. Become(a, x)
  BY <1>3
<1> HIDE DEF x
<1> QED
  BY <1>1, <1>2, <1>4, <1>5, <1>6, LocalStep

LEMMA ReadLatestKeeps ==
    ASSUME DaemonInv, NEW w \in Workers, ReadLatest(w)
    PROVE  DaemonInv'
<1>1. /\ UNCHANGED IdentityVars
      /\ UNCHANGED <<stopping, thread>> /\ starts' \in Nat /\ faults' \in Nat
      /\ work[w].pc = "latest"
  BY DEF DaemonInv, TypeOK, ReadLatest, LifecycleVars
<1>2. CASE Become(w, Rest(w))
  BY <1>1, <1>2, WorkTypes, LocalStep DEF Alive
<1>3. ASSUME NEW e \in events, Become(w, [work[w] EXCEPT !.pc = "state", !.curr = e])
      PROVE  DaemonInv'
  <2> DEFINE x == [work[w] EXCEPT !.pc = "state", !.curr = e]
  <2>1. e \in Identities /\ e # None
    BY DaemonAssumption DEF DaemonInv, TypeOK, Identities
  <2>2. x \in Works /\ x.pc = "state"
    BY <2>1, WorkTypes DEF Works, Pcs
  <2>3. GoodWork(x)
    BY <2>1, WorkTypes DEF GoodWork, Works
  <2>4. Become(w, x)
    BY <1>3
  <2> HIDE DEF x
  <2> QED BY <1>1, <2>2, <2>3, <2>4, LocalStep DEF Alive
<1> QED
  BY <1>2, <1>3 DEF ReadLatest

LEMMA ReadStateKeeps ==
    ASSUME DaemonInv, NEW w \in Workers, ReadState(w)
    PROVE  DaemonInv'
<1>1. /\ UNCHANGED IdentityVars
      /\ UNCHANGED <<stopping, thread>> /\ starts' \in Nat /\ faults' \in Nat
      /\ work[w].pc = "state"
  BY DEF DaemonInv, TypeOK, ReadState, LifecycleVars
<1> DEFINE F == IF pointer # None /\ work[w].curr.ts > pointer.ts
                THEN DetectSwitches(pointer, work[w].curr) ELSE {}
           x == [work[w] EXCEPT !.pc = "record", !.prev = pointer, !.found = F]
<1>2. work[w].curr \in events /\ work[w].curr # None
  BY <1>1, WorkTypes DEF GoodWork
<1>3. pointer # None => pointer \in events
  BY DEF DaemonInv
<1>4. events \subseteq Identities /\ pointer \in Identities \cup {None}
  BY DEF DaemonInv, TypeOK
<1>5. F \subseteq Switches /\ \A s \in F : Made(s)
  BY <1>2, <1>3, <1>4, SwitchesMade
<1>6. x \in Works /\ x.pc = "record"
  <2> HIDE DEF F
  <2> QED BY <1>4, <1>5, WorkTypes DEF Works, Pcs
<1>7. GoodWork(x)
  <2>1. /\ x.curr = work[w].curr /\ x.prev = pointer /\ x.found = F /\ x.pc = "record"
    BY WorkTypes DEF Works
  <2>2. x.prev # None /\ x.curr.ts > x.prev.ts => DetectSwitches(x.prev, x.curr) \subseteq x.found
    BY <2>1
  <2> HIDE DEF x, F
  <2> QED BY <1>2, <1>3, <1>5, <2>1, <2>2 DEF GoodWork
<1>8. Become(w, x)
  BY DEF ReadState
<1> HIDE DEF x, F
<1> QED
  BY <1>1, <1>6, <1>7, <1>8, LocalStep DEF Alive

LEMMA RecordKeeps ==
    ASSUME DaemonInv, NEW w \in Workers, Record(w)
    PROVE  DaemonInv'
<1>1. /\ UNCHANGED <<events, window, pointer, stopping, thread, starts, faults>>
      /\ work[w].pc = "record"
  BY DEF Record, LifecycleVars
<1>2. CASE work[w].found = {} /\ Become(w, [work[w] EXCEPT !.pc = "upsert"])
           /\ UNCHANGED switches
  <2> DEFINE x == [work[w] EXCEPT !.pc = "upsert"]
  <2>1. x \in Works /\ x.pc = "upsert"
    BY WorkTypes DEF Works, Pcs
  <2>2. GoodWork(x)
    BY <1>1, <1>2, WorkTypes DEF GoodWork, Works
  <2>3. Become(w, x)
    BY <1>2
  <2>4. /\ UNCHANGED IdentityVars
        /\ UNCHANGED <<stopping, thread>> /\ starts' \in Nat /\ faults' \in Nat
    BY <1>1, <1>2 DEF IdentityVars, DaemonInv, TypeOK
  <2> HIDE DEF x
  <2> QED BY <1>1, <2>1, <2>2, <2>3, <2>4, LocalStep DEF Alive
<1>3. ASSUME NEW s \in work[w].found, switches' = switches \cup {s},
             Become(w, [work[w] EXCEPT !.found = @ \ {s}])
      PROVE  DaemonInv'
  <2> DEFINE x == [work[w] EXCEPT !.found = @ \ {s}]
  <2>1. work[w] \in Works /\ GoodWork(work[w])
    BY WorkTypes
  <2>2. x \in Works /\ s \in Switches
    BY <2>1 DEF Works
  <2>3. /\ x.pc = work[w].pc /\ x.curr = work[w].curr /\ x.prev = work[w].prev
        /\ x.found = work[w].found \ {s}
    BY <2>1 DEF Works
  <2>4. \A v \in Workers : work'[v] = IF v = w THEN x ELSE work[v]
    BY <1>3 DEF DaemonInv, TypeOK, Become
  <2>5. TypeOK'
    BY <1>1, <1>3, <2>2 DEF DaemonInv, TypeOK, Become
  <2>6. OneLoop'
    <3>1. \A l \in Loops : Alive(l)' <=> Alive(l)
      BY <2>3, <2>4 DEF Alive, Workers
    <3> QED BY <1>1, <3>1 DEF DaemonInv, TypeOK, OneLoop
  <2> HIDE DEF x
  <2>7. Made(s)' /\ \A r : Made(r) => Made(r)'
    BY <1>1, <2>1 DEF GoodWork, Made
  <2>8. SwitchesReal'
    BY <1>3, <2>7 DEF DaemonInv, SwitchesReal
  <2>9. ASSUME NEW v \in Workers PROVE GoodWork(work[v])'
    <3>1. GoodWork(work[v])
      BY DEF DaemonInv
    <3>2. CASE v # w
      <4>1. work'[v] = work[v]
        BY <2>4, <3>2
      <4> QED BY <1>1, <1>3, <2>7, <3>1, <4>1 DEF GoodWork
    <3>3. CASE v = w
      <4>1. work'[v] = x
        BY <2>4, <3>3
      <4>2. switches' \cup x.found = switches \cup work[w].found
        BY <1>3, <2>3
      <4> QED BY <1>1, <2>1, <2>3, <2>7, <4>1, <4>2 DEF GoodWork
    <3> QED BY <3>2, <3>3
  <2> QED BY <1>1, <2>5, <2>6, <2>8, <2>9 DEF DaemonInv
<1> QED
  BY <1>2, <1>3 DEF Record

LEMMA UpsertKeeps ==
    ASSUME DaemonInv, NEW w \in Workers, Upsert(w)
    PROVE  DaemonInv'
<1>1. /\ UNCHANGED <<events, window, switches, stopping, thread, starts, faults>>
      /\ work[w].pc = "upsert"
      /\ Become(w, Rest(w))
  BY DEF Upsert, LifecycleVars
<1>2. /\ Rest(w) \in Works /\ GoodWork(Rest(w)) /\ Rest(w).pc # "idle"
      /\ work[w].curr \in events
  BY <1>1, WorkTypes DEF GoodWork, Rest, Idle
<1>3. pointer' \in {pointer, work[w].curr}
  BY DEF Upsert
<1>4. \A v \in Workers : work'[v] = IF v = w THEN Rest(w) ELSE work[v]
  BY <1>1 DEF DaemonInv, TypeOK, Become
<1>5. TypeOK'
  BY <1>1, <1>2, <1>3 DEF DaemonInv, TypeOK, Become
<1>6. OneLoop'
  BY <1>1, <1>2, <1>4 DEF DaemonInv, TypeOK, OneLoop, Alive, Workers
<1>7. \A v \in Workers : GoodWork(work[v])'
  BY <1>1, <1>2, <1>4 DEF DaemonInv, GoodWork, Made
<1> QED
  BY <1>1, <1>2, <1>3, <1>5, <1>6, <1>7 DEF DaemonInv, SwitchesReal, Made

LEMMA FinishKeeps ==
    ASSUME DaemonInv, NEW w \in Workers, FinishTick(w) \/ TrackingFails(w)
    PROVE  DaemonInv'
<1>1. /\ UNCHANGED IdentityVars
      /\ UNCHANGED <<stopping, thread>> /\ starts' \in Nat /\ faults' \in Nat
      /\ work[w].pc # "idle"
  BY DEF DaemonInv, TypeOK, FinishTick, TrackingFails, LifecycleVars
<1> DEFINE x == [Idle EXCEPT !.pc = "visit", !.todo = work[w].todo]
<1>2. x \in Works /\ x.pc = "visit"
  BY WorkTypes DEF Idle, Works, Pcs
<1>3. GoodWork(x)
  BY <1>2, IdleGood DEF Idle
<1>4. (w \notin Loops /\ Become(w, Idle)) \/ Become(w, x) \/ Become(w, Rest(w))
  BY DaemonAssumption DEF FinishTick, TrackingFails
<1> HIDE DEF x
<1> QED
  BY <1>1, <1>2, <1>3, <1>4, WorkTypes, LocalStep DEF Alive

LEMMA ArriveKeeps ==
    ASSUME DaemonInv, NEW e \in Identities, Arrive(e)
    PROVE  DaemonInv'
<1>1. /\ UNCHANGED <<window, pointer, switches, stopping, thread, starts, work, faults>>
      /\ events' = events \cup {e}
  BY DEF Arrive, LifecycleVars
<1>2. TypeOK'
  BY <1>1 DEF DaemonInv, TypeOK
<1>3. \A s : Made(s) => Made(s)'
  BY <1>1, Made_Grows
<1>4. \A w \in Workers : GoodWork(work[w])'
  BY <1>1, <1>3 DEF DaemonInv, GoodWork
<1> QED
  BY <1>1, <1>2, <1>3, <1>4 DEF DaemonInv, OneLoop, Alive, SwitchesReal

LEMMA OutsideKeeps ==
    ASSUME DaemonInv, StopDaemon \/ WindowMoves
    PROVE  DaemonInv'
<1>1. /\ UNCHANGED <<events, pointer, switches, thread, starts, work, faults>>
      /\ window' \in Nat /\ stopping' \in BOOLEAN /\ (~ stopping' => ~ stopping)
  <2>1. window \in Nat /\ stopping \in BOOLEAN
    BY DEF DaemonInv, TypeOK
  <2>2. CASE StopDaemon
    BY <2>1, <2>2 DEF StopDaemon, IdentityVars
  <2>3. CASE WindowMoves
    BY <2>1, <2>3 DEF WindowMoves, LifecycleVars
  <2> QED BY <2>2, <2>3
<1> QED
  BY <1>1 DEF DaemonInv, TypeOK, OneLoop, Alive, SwitchesReal, Made, GoodWork

LEMMA RestartKeeps ==
    ASSUME DaemonInv, Restart
    PROVE  DaemonInv'
<1>1. thread' \in Loops /\ work' = Started(thread')
  BY DEF Restart
<1>2. Idle \in Works /\ [Idle EXCEPT !.pc = "begin"] \in Works
  BY DEF Idle, Works, Pcs
<1>3. /\ UNCHANGED <<events, window, pointer, switches, starts>>
      /\ stopping' = FALSE /\ faults' \in Nat
  BY DEF DaemonInv, TypeOK, Restart, IdentityVars
<1>4. TypeOK'
  BY <1>1, <1>2, <1>3 DEF DaemonInv, TypeOK, Started
<1>5. OneLoop'
  BY <1>1 DEF OneLoop, Alive, Idle, Workers, Started
<1>6. GoodWork(Idle) /\ GoodWork([Idle EXCEPT !.pc = "begin"])
  BY <1>2, IdleGood DEF Idle
<1>7. \A w \in Workers : GoodWork(work[w])'
  BY <1>1, <1>3, <1>6 DEF GoodWork, Made, Started
<1> QED
  BY <1>3, <1>4, <1>5, <1>7 DEF DaemonInv, SwitchesReal, Made

LEMMA Inductive == DaemonInv /\ [Next]_vars => DaemonInv'
<1> SUFFICES ASSUME DaemonInv, [Next]_vars PROVE DaemonInv'
  OBVIOUS
<1>1. ASSUME NEW w \in Workers, Track(w) PROVE DaemonInv'
  BY <1>1, ReadLatestKeeps, ReadStateKeeps, RecordKeeps, UpsertKeeps, FinishKeeps DEF Track
<1>2. ASSUME NEW l \in Loops, StartDaemon(l) \/ Loop(l) \/ TickFails(l) PROVE DaemonInv'
  BY <1>1, <1>2, StartKeeps, TickKeeps DEF Loop, Workers
<1>3. ASSUME NEW a \in Admins, AdminTick(a) \/ Track(a) PROVE DaemonInv'
  BY <1>1, <1>3, AdminKeeps DEF Workers
<1>4. CASE UNCHANGED vars
  BY <1>4 DEF vars, DaemonInv, TypeOK, OneLoop, Alive, SwitchesReal, Made, GoodWork
<1> QED
  BY <1>2, <1>3, <1>4, FinishKeeps, ArriveKeeps, OutsideKeeps, RestartKeeps DEF Next

LEMMA Invariance == Spec => []DaemonInv
BY InitInv, Inductive, PTL DEF Spec

\* The variables keep their types.
THEOREM TypeCorrect == Spec => []TypeOK
<1>1. DaemonInv => TypeOK
  BY DEF DaemonInv
<1> QED
  BY <1>1, Invariance, PTL

\* However starts and stops follow each other and whatever fails, one thread at
\* most runs the loop, that of the handle, and it runs unless it is told to stop.
THEOREM AtMostOneLoop == Spec => []OneLoop
<1>1. DaemonInv => OneLoop
  BY DEF DaemonInv
<1> QED
  BY <1>1, Invariance, PTL

\* Every switch in the log is one the student made.
THEOREM OnlyRealSwitches == Spec => []SwitchesReal
<1>1. DaemonInv => SwitchesReal
  BY DEF DaemonInv
<1> QED
  BY <1>1, Invariance, PTL

\* The last-seen identity moves forward, with its switches in the log.
THEOREM IdentityForward == Spec => PointerForward
<1> DEFINE Forward ==
        /\ pointer # None /\ pointer' # pointer => pointer' # None /\ pointer'.ts > pointer.ts
        /\ (/\ pointer # None
            /\ pointer' # pointer
            /\ \A w \in Workers : work[w].pc = "upsert" => work[w].prev = pointer)
           => DetectSwitches(pointer, pointer') \subseteq switches
<1>1. ASSUME DaemonInv, [Next]_vars, pointer # None, pointer' # pointer PROVE Forward
  <2>1. PICK w \in Workers : Upsert(w)
    BY <1>1 DEF Next, vars, StartDaemon, Loop, Track, BeginTick, Visit, Wake, TickFails,
                AdminTick, ReadLatest, ReadState, Record, FinishTick, TrackingFails, Arrive,
                StopDaemon, WindowMoves, Restart, IdentityVars, Workers
  <2>2. work[w].pc = "upsert" /\ pointer' = work[w].curr /\ pointer.ts < work[w].curr.ts
    BY <1>1, <2>1 DEF Upsert
  <2>3. GoodWork(work[w])
    BY <1>1 DEF DaemonInv
  <2>4. work[w].curr \in Identities /\ pointer \in Identities /\ work[w].curr # None
    BY <1>1, <2>2, <2>3 DEF DaemonInv, TypeOK, GoodWork
  <2>5. pointer'.ts > pointer.ts
    BY <2>2, <2>4, DaemonAssumption DEF Identities
  <2> QED BY <1>1, <2>2, <2>3, <2>4, <2>5 DEF GoodWork
<1>2. DaemonInv /\ [Next]_vars => [Forward]_vars
  BY <1>1
<1>3. PointerForward <=> [][Forward]_vars
  BY DEF PointerForward
<1> QED
  BY <1>2, <1>3, Invariance, PTL DEF Spec

=============================================================================

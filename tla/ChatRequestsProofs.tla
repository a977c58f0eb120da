------------------------- MODULE ChatRequestsProofs -------------------------
(***************************************************************************)
(* For any number of threads, keys, models and exchanges, any limits and   *)
(* any cost of a completion: how far the token budget can be overrun, and  *)
(* what a prompt is made of.                                               *)
(***************************************************************************)
EXTENDS ChatRequests, FiniteSetTheorems, SequenceTheorems, WellFoundedInduction, TLAPS

(* The types. *)

LEMMA IdleType == Idle \in Exchanges
BY ChatAssumption DEF Idle, Exchanges, Pcs, Chats

\* One exchange goes on as x; it keeps its browser's key.
LEMMA BecomeType ==
    ASSUME TypeOK, NEW t \in Threads, NEW x \in Exchanges, x.pc # "idle" => x.key \in Keys,
           Become(t, x)
    PROVE  /\ exchange' \in [Threads -> Exchanges]
           /\ \A u \in Threads : exchange'[u].pc # "idle" => exchange'[u].key \in Keys
           /\ \A u \in Threads : exchange'[u] = IF u = t THEN x ELSE exchange[u]
BY DEF TypeOK, Become

\* r is s with a new turn: all of it, or all but the oldest turn.
Renewed(s, e, r) ==
    /\ r \in Seq(Turns)
    /\ \/ Len(r) = Len(s) + 1 /\ Len(r) <= MaxTurns /\ r = Append(s, e)
       \/ /\ Len(r) = Len(s) /\ Len(r) = MaxTurns
          /\ \A i \in 1..Len(r) : r[i] = Append(s, e)[i + 1]

\* What Newest keeps of a memory that was short enough before a turn was added.
LEMMA NewestAppend ==
    ASSUME NEW s \in Seq(Turns), Len(s) <= MaxTurns, NEW e \in Turns,
           NEW r, r = Newest(Append(s, e))
    PROVE  Renewed(s, e, r)
<1> DEFINE a == Append(s, e)
<1>1. /\ a \in Seq(Turns) /\ Len(a) = Len(s) + 1 /\ Len(s) \in Nat
      /\ MaxTurns \in Nat \ {0}
  BY ChatAssumption
<1>2. CASE Len(a) <= MaxTurns
  BY <1>1, <1>2 DEF Newest, Renewed
<1>3. CASE Len(a) > MaxTurns
  <2>1. Len(s) = MaxTurns /\ r = SubSeq(a, 2, Len(s) + 1)
    <3>1. Len(s) = MaxTurns /\ Len(a) - MaxTurns + 1 = 2 /\ Len(a) = Len(s) + 1
      <4> HIDE DEF a
      <4> QED BY <1>1, <1>3
    <3>2. r = SubSeq(a, Len(a) - MaxTurns + 1, Len(a))
      BY <1>3 DEF Newest
    <3> HIDE DEF a
    <3> QED BY <3>1, <3>2
  <2> HIDE DEF a
  <2>2. /\ r \in Seq(Turns) /\ Len(r) = Len(s)
        /\ \A i \in 1..Len(r) : r[i] = a[i + 1]
    <3>1. /\ SubSeq(a, 2, Len(a)) \in Seq(Turns)
          /\ Len(SubSeq(a, 2, Len(a))) = Len(a) - 1
          /\ \A i \in 1..(Len(a) - 1) : SubSeq(a, 2, Len(a))[i] = a[i + 1]
      <4>1. \A i \in 2..Len(a) : a[i] \in Turns
        BY <1>1
      <4>2. 2 \in Int /\ Len(a) \in Int /\ 2 <= Len(a)
        BY <1>1, <2>1
      <4> QED BY <4>1, <4>2, SubSeqProperties
    <3> QED BY <1>1, <2>1, <3>1
  <2> QED BY <2>1, <2>2 DEF a, Renewed
<1> QED BY <1>1, <1>2, <1>3

LEMMA NameTypes ==
    ASSUME NEW x \in Exchanges
    PROVE  QuestionOf(x) \in TurnNames /\ ReplyOf(x) \in TurnNames
BY DEF Exchanges, TurnNames, QuestionOf, ReplyOf, Chats

LEMMA AppendType ==
    ASSUME TypeOK, NEW c \in Chats, NEW name \in TurnNames, AppendSessionMessage(c, name)
    PROVE  /\ memory' \in [Chats -> Seq(Turns)]
           /\ appended' \in [Chats -> Nat]
           /\ \A d \in Chats : Len(memory'[d]) <= MaxTurns
<1> DEFINE e == [n |-> appended[c] + 1, name |-> name]
           r == Newest(Append(memory[c], e))
<1>1. memory[c] \in Seq(Turns) /\ Len(memory[c]) <= MaxTurns /\ e \in Turns
  <2>1. memory[c] \in Seq(Turns) /\ Len(memory[c]) <= MaxTurns
    BY DEF TypeOK
  <2>2. appended[c] \in Nat
    BY DEF TypeOK
  <2> QED BY <2>1, <2>2 DEF Turns
<1>2. memory' = [memory EXCEPT ![c] = r] /\ appended' = [appended EXCEPT ![c] = appended[c] + 1]
  BY Zenon DEF AppendSessionMessage
<1> HIDE DEF e
<1>3. r \in Seq(Turns) /\ Len(r) <= MaxTurns
  <2> HIDE DEF r
  <2>1. r = Newest(Append(memory[c], e))
    BY DEF r
  <2>2. Renewed(memory[c], e, r)
    BY <1>1, <2>1, NewestAppend
  <2>3. MaxTurns \in Nat
    BY ChatAssumption
  <2> QED BY <1>1, <2>2, <2>3 DEF Renewed
<1> HIDE DEF r
<1>4. memory \in [Chats -> Seq(Turns)] /\ \A d \in Chats : Len(memory[d]) <= MaxTurns
  BY DEF TypeOK
<1>5. appended \in [Chats -> Nat]
  BY DEF TypeOK
<1>6. memory' \in [Chats -> Seq(Turns)] /\ \A d \in Chats : Len(memory'[d]) <= MaxTurns
  BY <1>2, <1>3, <1>4
<1> QED
  BY <1>2, <1>5, <1>6

LEMMA InitType == Init => TypeOK
<1> SUFFICES ASSUME Init PROVE TypeOK
  OBVIOUS
<1>1. memory \in [Chats -> Seq(Turns)] /\ \A c \in Chats : Len(memory[c]) <= MaxTurns
  BY ChatAssumption DEF Init
<1>2. /\ exchange \in [Threads -> Exchanges]
      /\ \A t \in Threads : exchange[t].pc # "idle" => exchange[t].key \in Keys
  BY IdleType DEF Init, Idle
<1> QED
  BY <1>1, <1>2 DEF Init, TypeOK

LEMMA AdvanceType ==
    ASSUME TypeOK, NEW t \in Threads,
           StoreQuestion(t) \/ CheckSession(t) \/ CheckDaily(t) \/ Analyze(t)
    PROVE  TypeOK'
<1> DEFINE x == exchange[t]
<1>1. x \in Exchanges /\ (x.pc # "idle" => x.key \in Keys) /\ x.pc # "idle"
  BY DEF TypeOK, StoreQuestion, CheckSession, CheckDaily, Analyze
<1>2. \A p \in Pcs : [x EXCEPT !.pc = p] \in Exchanges /\ [x EXCEPT !.pc = p].key = x.key
  BY <1>1 DEF Exchanges
<1>3. \E y \in Exchanges : Become(t, y) /\ (y.pc # "idle" => y.key \in Keys)
  <2>1. Idle \in Exchanges /\ Idle.pc = "idle"
    BY IdleType DEF Idle
  <2> QED
    BY <1>1, <1>2, <2>1 DEF StoreQuestion, CheckSession, CheckDaily, Analyze, Pcs
<1>4. rows' \subseteq TurnNames
  BY <1>1, NameTypes DEF TypeOK, StoreQuestion, CheckSession, CheckDaily, Analyze, RowVars
<1>5. UNCHANGED <<MemoryVars, reasoning, unsaved, UsageVars, begun, checkins, forgotten, faults>>
  BY DEF StoreQuestion, CheckSession, CheckDaily, Analyze, RowVars
<1> QED
  BY <1>3, <1>4, <1>5, BecomeType DEF TypeOK, MemoryVars, UsageVars

LEMMA CallType ==
    ASSUME TypeOK, NEW t \in Threads, NEW cost \in 1..MaxCost,
           Answer(t, cost) \/ Retry(t, cost) \/ EmptyAnswer(t, cost)
    PROVE  TypeOK'
<1> DEFINE x == exchange[t]
<1>1. x \in Exchanges /\ x.pc # "idle" /\ x.key \in Keys
  BY DEF TypeOK, Answer, Retry, EmptyAnswer
<1>2. cost \in Nat /\ x.first \in Nat /\ x.first + cost \in Nat /\ x.model \in Models
  <2> HIDE DEF x
  <2>1. MaxCost \in Nat
    BY ChatAssumption
  <2>2. cost \in Nat
    BY <2>1
  <2>3. x.first \in Nat /\ x.model \in Models
    BY <1>1 DEF Exchanges
  <2> QED BY <2>2, <2>3
<1>3. \E y \in Exchanges : Become(t, y) /\ y.key \in Keys
  <2>1. /\ \A p \in Pcs : [x EXCEPT !.pc = p, !.tokens = x.first + cost] \in Exchanges
        /\ \A p \in Pcs : [x EXCEPT !.pc = p, !.tokens = x.first + cost].key = x.key
        /\ [x EXCEPT !.room = TRUE, !.first = cost] \in Exchanges
        /\ [x EXCEPT !.room = TRUE, !.first = cost].key = x.key
    BY <1>1, <1>2 DEF Exchanges
  <2> QED BY <1>1, <2>1 DEF Answer, Retry, EmptyAnswer, Pcs
<1>4. spent' \in [Keys -> Nat]
  <2>1. spent' = [spent EXCEPT ![x.key] = spent[x.key] + cost]
    BY DEF Answer, Retry, EmptyAnswer, Spend
  <2>2. spent \in [Keys -> Nat]
    BY DEF TypeOK
  <2> QED BY <1>1, <1>2, <2>1, <2>2
<1>5. reasoning' \subseteq Models
  BY <1>2 DEF TypeOK, Answer, Retry, EmptyAnswer
<1>6. UNCHANGED <<MemoryVars, RowVars, recorded, daily, blame, begun, checkins, forgotten, faults>>
  BY DEF Answer, Retry, EmptyAnswer, Spend
<1> QED
  BY <1>3, <1>4, <1>5, <1>6, BecomeType DEF TypeOK, MemoryVars, RowVars

LEMMA AskType ==
    ASSUME TypeOK, NEW t \in Threads, Ask(t)
    PROVE  TypeOK'
<1> DEFINE x == exchange[t]
           room == x.model \in reasoning
           y == [x EXCEPT !.pc = "call", !.prompt = memory[x.chat], !.room = room]
<1>1. x \in Exchanges /\ x.key \in Keys
  BY DEF TypeOK, Ask
<1>2. memory[x.chat] \in Seq(Turns)
  BY <1>1 DEF TypeOK, Exchanges
<1>3. room \in BOOLEAN
  OBVIOUS
<1>4. Become(t, y)
  BY DEF Ask
<1>5. y \in Exchanges /\ y.key = x.key
  <2> HIDE DEF room
  <2> QED BY <1>1, <1>2, <1>3 DEF Exchanges, Pcs
<1>6. UNCHANGED <<memory, appended, reasoning, rows, unsaved, recorded, daily, spent, blame,
                  begun, checkins, forgotten, faults>>
  BY DEF Ask, MemoryVars, RowVars, UsageVars
<1> HIDE DEF y
<1> QED
  BY <1>1, <1>4, <1>5, <1>6, BecomeType DEF TypeOK

LEMMA CreateType ==
    ASSUME TypeOK, NEW t \in Threads, NEW k \in Keys, NEW c \in Chats, NEW m \in Models,
           CreateMessage(t, k, c, m)
    PROVE  TypeOK'
<1> DEFINE x == [Idle EXCEPT !.pc = "store_question", !.id = begun + 1, !.key = k, !.chat = c,
                             !.model = m, !.question = appended[c] + 1]
<1>1. begun \in Nat /\ appended[c] \in Nat
  BY DEF TypeOK
<1>2. x \in Exchanges /\ x.key \in Keys
  <2>1. "store_question" \in Pcs /\ begun + 1 \in Nat /\ appended[c] + 1 \in Nat
    BY <1>1 DEF Pcs
  <2>2. /\ x.pc = "store_question" /\ x.id = begun + 1 /\ x.key = k /\ x.chat = c /\ x.model = m
        /\ x.question = appended[c] + 1
    BY IdleType DEF Exchanges
  <2>3. x \in Exchanges
    BY <2>1, IdleType DEF Exchanges
  <2> QED BY <2>2, <2>3
<1>3. Become(t, x) /\ AppendSessionMessage(c, QuestionOf(x)) /\ begun' = begun + 1
  BY DEF CreateMessage
<1>4. UNCHANGED <<reasoning, rows, unsaved, recorded, daily, spent, blame, checkins, forgotten,
                  faults>>
  BY DEF CreateMessage, RowVars, UsageVars
<1> HIDE DEF x
<1>5. QuestionOf(x) \in TurnNames
  BY <1>2, NameTypes
<1>6. /\ memory' \in [Chats -> Seq(Turns)] /\ appended' \in [Chats -> Nat]
      /\ \A d \in Chats : Len(memory'[d]) <= MaxTurns
  BY <1>3, <1>5, AppendType
<1>7. /\ exchange' \in [Threads -> Exchanges]
      /\ \A u \in Threads : exchange'[u].pc # "idle" => exchange'[u].key \in Keys
  BY <1>2, <1>3, BecomeType
<1> QED
  BY <1>1, <1>3, <1>4, <1>6, <1>7 DEF TypeOK

LEMMA RecordType ==
    ASSUME TypeOK, NEW t \in Threads, RecordUsage(t)
    PROVE  TypeOK'
<1> DEFINE x == exchange[t]
           y == IF x.pc = "record_failed" THEN Idle
                ELSE [x EXCEPT !.pc = "remember_reply", !.tokens = 0, !.first = 0]
<1>1. x \in Exchanges /\ x.key \in Keys /\ x.tokens \in Nat
  BY DEF TypeOK, RecordUsage, Exchanges
<1>2. y \in Exchanges /\ (y.pc # "idle" => y.key \in Keys)
  <2>1. [x EXCEPT !.pc = "remember_reply", !.tokens = 0, !.first = 0] \in Exchanges
    BY <1>1 DEF Exchanges, Pcs
  <2>2. [x EXCEPT !.pc = "remember_reply", !.tokens = 0, !.first = 0].key = x.key
    BY <1>1 DEF Exchanges
  <2>3. Idle \in Exchanges /\ Idle.pc = "idle"
    BY IdleType DEF Idle
  <2> QED BY <1>1, <2>1, <2>2, <2>3
<1>3. Become(t, y)
  BY DEF RecordUsage
<1> HIDE DEF y
<1>4. recorded' \in [Keys -> Nat] /\ daily' \in Nat
  <2>1. recorded' = [recorded EXCEPT ![x.key] = recorded[x.key] + x.tokens]
        /\ daily' = daily + x.tokens
    BY DEF RecordUsage
  <2>2. recorded \in [Keys -> Nat] /\ daily \in Nat
    BY DEF TypeOK
  <2> QED BY <1>1, <2>1, <2>2
<1>5. UNCHANGED <<memory, appended, reasoning, rows, unsaved, spent, blame, begun, checkins,
                  forgotten, faults>>
  BY DEF RecordUsage, MemoryVars, RowVars
<1> QED
  BY <1>2, <1>3, <1>4, <1>5, BecomeType DEF TypeOK

LEMMA ReplyType ==
    ASSUME TypeOK, NEW t \in Threads, RememberReply(t) \/ StoreReply(t)
    PROVE  TypeOK'
<1> DEFINE x == exchange[t]
<1>1. x \in Exchanges /\ x.key \in Keys /\ x.chat \in Chats
  BY DEF TypeOK, RememberReply, StoreReply, Exchanges
<1>2. ReplyOf(x) \in TurnNames
  BY <1>1, NameTypes
<1>3. CASE RememberReply(t)
  <2>1. [x EXCEPT !.pc = "store_reply"] \in Exchanges /\ [x EXCEPT !.pc = "store_reply"].key = x.key
    BY <1>1 DEF Exchanges, Pcs
  <2>2. Become(t, [x EXCEPT !.pc = "store_reply"]) /\ AppendSessionMessage(x.chat, ReplyOf(x))
    BY <1>3 DEF RememberReply
  <2>3. UNCHANGED <<reasoning, rows, unsaved, recorded, daily, spent, blame, begun, checkins,
                    forgotten, faults>>
    BY <1>3 DEF RememberReply, RowVars, UsageVars
  <2>4. /\ memory' \in [Chats -> Seq(Turns)] /\ appended' \in [Chats -> Nat]
        /\ \A d \in Chats : Len(memory'[d]) <= MaxTurns
    BY <1>1, <1>2, <2>2, AppendType
  <2>5. /\ exchange' \in [Threads -> Exchanges]
        /\ \A u \in Threads : exchange'[u].pc # "idle" => exchange'[u].key \in Keys
    BY <1>1, <2>1, <2>2, BecomeType
  <2> QED BY <2>3, <2>4, <2>5 DEF TypeOK
<1>4. CASE StoreReply(t)
  BY <1>2, <1>4, IdleType, BecomeType DEF StoreReply, TypeOK, Idle, MemoryVars, UsageVars
<1> QED BY <1>3, <1>4

LEMMA FailType ==
    ASSUME TypeOK, NEW t \in Threads, CallRaises(t) \/ DatabaseFails(t)
    PROVE  TypeOK'
<1> DEFINE x == exchange[t]
<1>1. x \in Exchanges /\ x.key \in Keys
  BY DEF TypeOK, CallRaises, DatabaseFails
<1>2. Become(t, Idle) /\ Idle \in Exchanges /\ Idle.pc = "idle"
  BY IdleType DEF CallRaises, DatabaseFails, Idle
<1>3. /\ exchange' \in [Threads -> Exchanges]
      /\ \A u \in Threads : exchange'[u].pc # "idle" => exchange'[u].key \in Keys
  BY <1>2, BecomeType
<1>4. faults' \in Nat
  BY DEF TypeOK, CallRaises, DatabaseFails
<1>5. blame' \in [Keys -> SUBSET Causes]
  <2>1. \/ blame' = blame
        \/ \E a \in {"retry", "usage"} : blame' = [blame EXCEPT ![x.key] = blame[x.key] \cup {a}]
    BY DEF CallRaises, DatabaseFails
  <2>2. blame \in [Keys -> SUBSET Causes]
    BY DEF TypeOK
  <2> QED BY <1>1, <2>1, <2>2 DEF Causes
<1>6. unsaved' \subseteq TurnNames
  <2>1. unsaved \subseteq TurnNames /\ QuestionOf(x) \in TurnNames /\ ReplyOf(x) \in TurnNames
    BY <1>1, NameTypes DEF TypeOK
  <2>2. CASE CallRaises(t)
    BY <2>1, <2>2 DEF CallRaises, RowVars
  <2>3. CASE DatabaseFails(t)
    BY <2>1, <2>3 DEF DatabaseFails
  <2> QED BY <2>2, <2>3
<1>7. UNCHANGED <<memory, appended, reasoning, rows, recorded, daily, spent, begun, checkins,
                  forgotten>>
  BY DEF CallRaises, DatabaseFails, MemoryVars, RowVars
<1> QED
  BY <1>3, <1>4, <1>5, <1>6, <1>7 DEF TypeOK

LEMMA NoChoiceType ==
    ASSUME TypeOK, NEW t \in Threads, NEW cost \in 1..MaxCost, NoChoice(t, cost)
    PROVE  TypeOK'
<1> DEFINE x == exchange[t]
<1>1. x.key \in Keys /\ cost \in Nat
  BY ChatAssumption DEF TypeOK, NoChoice
<1>2. Become(t, Idle) /\ Idle \in Exchanges /\ Idle.pc = "idle"
  BY IdleType DEF NoChoice, Idle
<1>3. /\ exchange' \in [Threads -> Exchanges]
      /\ \A u \in Threads : exchange'[u].pc # "idle" => exchange'[u].key \in Keys
  BY <1>2, BecomeType
<1>4. faults' \in Nat
  BY DEF TypeOK, NoChoice
<1>5. blame' \in [Keys -> SUBSET Causes]
  BY DEF TypeOK, NoChoice, Causes
<1>6. spent' \in [Keys -> Nat]
  <2>1. spent[x.key] + cost \in Nat
    BY <1>1 DEF TypeOK
  <2> QED BY <2>1 DEF TypeOK, NoChoice
<1>7. UNCHANGED <<memory, appended, reasoning, rows, unsaved, recorded, daily, begun, checkins,
                  forgotten>>
  BY DEF NoChoice, MemoryVars, RowVars
<1> QED
  BY <1>3, <1>4, <1>5, <1>6, <1>7 DEF TypeOK

LEMMA OutsideType ==
    ASSUME TypeOK, (\E c \in Chats : CheckIn(c)) \/ UsageLapses
    PROVE  TypeOK'
<1>1. ASSUME NEW c \in Chats, CheckIn(c) PROVE TypeOK'
  <2> DEFINE name == [exchange |-> 0, role |-> "assistant", origin |-> "student"]
  <2>1. name \in TurnNames
    BY DEF TurnNames, Chats
  <2>2. AppendSessionMessage(c, name) /\ checkins' = checkins + 1
    BY <1>1 DEF CheckIn
  <2> HIDE DEF name
  <2>3. /\ memory' \in [Chats -> Seq(Turns)] /\ appended' \in [Chats -> Nat]
        /\ \A d \in Chats : Len(memory'[d]) <= MaxTurns
    BY <2>1, <2>2, AppendType
  <2>4. UNCHANGED <<reasoning, rows, unsaved, recorded, daily, spent, blame, exchange, begun,
                    forgotten, faults>>
    BY <1>1 DEF CheckIn, RowVars, UsageVars
  <2> QED BY <2>2, <2>3, <2>4, SMTT(30) DEF TypeOK
<1>2. CASE UsageLapses
  <2>1. daily' \in Nat /\ faults' \in Nat
    BY <1>2 DEF UsageLapses, TypeOK
  <2> QED BY <1>2, <2>1 DEF UsageLapses, TypeOK, MemoryVars, RowVars
<1> QED BY <1>1, <1>2

LEMMA RestartType ==
    ASSUME TypeOK, Restart
    PROVE  TypeOK'
<1>1. exchange \in [Threads -> Exchanges] /\ Idle \in Exchanges /\ Idle.pc = "idle"
  BY IdleType DEF TypeOK, Idle
<1>2. exchange' = [t \in Threads |-> IF exchange[t].pc = "check_session" THEN exchange[t] ELSE Idle]
  BY DEF Restart
<1>3. /\ exchange' \in [Threads -> Exchanges]
      /\ \A u \in Threads : exchange'[u].pc # "idle" => exchange'[u].key \in Keys
  BY <1>1, <1>2 DEF TypeOK
<1>4. memory' \in [Chats -> Seq(Turns)] /\ \A d \in Chats : Len(memory'[d]) <= MaxTurns
  BY ChatAssumption DEF Restart
<1>5. blame' \in [Keys -> SUBSET Causes]
  <2>1. \A k \in Keys : blame[k] \subseteq Causes
    BY DEF TypeOK
  <2> QED BY <2>1 DEF Restart, Causes
<1>6. unsaved' \subseteq TurnNames
  <2>1. \A t \in Threads : QuestionOf(exchange[t]) \in TurnNames /\ ReplyOf(exchange[t]) \in TurnNames
    BY <1>1, NameTypes
  <2> QED BY <2>1 DEF Restart, TypeOK
<1>7. /\ UNCHANGED <<rows, recorded, daily, begun, checkins, appended, spent>>
      /\ faults' = faults + 1 /\ forgotten' = appended /\ reasoning' = {}
  BY DEF Restart
<1> QED
  BY <1>3, <1>4, <1>5, <1>6, <1>7 DEF TypeOK

LEMMA NextType ==
    ASSUME TypeOK, [Next]_vars
    PROVE  TypeOK'
<1>1. CASE UNCHANGED vars
  BY <1>1 DEF vars, TypeOK
<1> QED
  BY <1>1, AdvanceType, CallType, AskType, CreateType, RecordType, ReplyType, FailType,
     NoChoiceType,
     OutsideType, RestartType DEF Next, Advance

---------------------------------------------------------------------------
(* The budget. *)

\* One attempt, and then two at most, cost what a completion can cost.
Paid ==
    \A t \in Threads :
        /\ exchange[t].first <= MaxCost
        /\ exchange[t].pc \in {"record", "record_failed"} => exchange[t].tokens <= 2 * MaxCost

\* What is recorded and what the exchanges under way can still add to it.
SessionMargin ==
    \A k \in Keys :
        recorded[k] + 2 * MaxCost * Cardinality(PassedOf(k)) < SessionLimit + Overrun

DailyMargin == daily + 2 * MaxCost * Cardinality(AdmittedNow) < DailyLimit + Overrun

BudgetInv == Paid /\ SessionMargin /\ DailyMargin

LEMMA Products ==
    ASSUME NEW c \in Nat, NEW m \in Nat, NEW n \in Nat
    PROVE  /\ 2 * c * n \in Nat
           /\ m <= n => 2 * c * m <= 2 * c * n
           /\ 2 * c * (n + 1) = 2 * c * n + 2 * c
OBVIOUS

\* What some of the threads can still spend is less than what more of them can.
LEMMA FewerSpendLess ==
    ASSUME NEW B \in SUBSET Threads, NEW A \in SUBSET B
    PROVE  /\ IsFiniteSet(A) /\ Cardinality(A) \in Nat /\ Cardinality(B) \in Nat
           /\ 2 * MaxCost * Cardinality(A) \in Nat
           /\ 2 * MaxCost * Cardinality(B) \in Nat
           /\ 2 * MaxCost * Cardinality(A) <= 2 * MaxCost * Cardinality(B)
           /\ 2 * MaxCost * Cardinality(B) <= Overrun
           /\ Overrun \in Nat
<1>1. MaxCost \in Nat /\ IsFiniteSet(Threads)
  BY ChatAssumption
<1>2. IsFiniteSet(B) /\ Cardinality(B) <= Cardinality(Threads)
  BY <1>1, FS_Subset
<1>3. IsFiniteSet(A) /\ Cardinality(A) <= Cardinality(B)
  BY <1>2, FS_Subset
<1>4. /\ Cardinality(Threads) \in Nat /\ Cardinality(B) \in Nat /\ Cardinality(A) \in Nat
  BY <1>1, <1>2, <1>3, FS_CardinalityType
<1> QED
  BY <1>1, <1>2, <1>3, <1>4, Products DEF Overrun

\* A thread that is done with its call has nothing more to spend.
LEMMA OneSpendsLess ==
    ASSUME NEW B \in SUBSET Threads, NEW t \in B
    PROVE  2 * MaxCost * Cardinality(B) = 2 * MaxCost * Cardinality(B \ {t}) + 2 * MaxCost
<1>1. MaxCost \in Nat /\ IsFiniteSet(B)
  BY ChatAssumption, FS_Subset
<1>2. IsFiniteSet(B \ {t}) /\ Cardinality(B \ {t}) = Cardinality(B) - 1
  BY <1>1, FS_RemoveElement
<1>3. Cardinality(B) \in Nat /\ Cardinality(B \ {t}) \in Nat
  BY <1>1, <1>2, FS_CardinalityType
<1>4. Cardinality(B) = Cardinality(B \ {t}) + 1
  BY <1>2, <1>3
<1> QED
  BY <1>1, <1>3, <1>4, Products

LEMMA InitBudget == Init => BudgetInv
<1> SUFFICES ASSUME Init PROVE BudgetInv
  OBVIOUS
<1>1. /\ exchange = [t \in Threads |-> Idle] /\ recorded = [k \in Keys |-> 0] /\ daily = 0
  BY DEF Init
<1>2. Paid
  BY <1>1, ChatAssumption DEF Paid, Idle
<1>3. (\A k \in Keys : PassedOf(k) = {}) /\ AdmittedNow = {}
  BY <1>1 DEF PassedOf, AdmittedNow, Passed, Admitted, Idle
<1>4. Cardinality({}) = 0
  BY FS_EmptySet
<1>5. {} \in SUBSET Threads /\ 2 * MaxCost * 0 = 0
  BY ChatAssumption
<1>6. Overrun \in Nat /\ SessionLimit \in Nat \ {0} /\ DailyLimit \in Nat \ {0}
  BY <1>5, FewerSpendLess, ChatAssumption
<1> QED
  BY <1>1, <1>2, <1>3, <1>4, <1>5, <1>6 DEF BudgetInv, SessionMargin, DailyMargin

\* Nothing is recorded, and no exchange passes a check.
LEMMA MarginsStay ==
    ASSUME BudgetInv, TypeOK, recorded' = recorded, daily' \in Nat, daily' <= daily, Paid',
           \A k \in Keys : PassedOf(k)' \subseteq PassedOf(k), AdmittedNow' \subseteq AdmittedNow
    PROVE  BudgetInv'
<1>0. (\A k \in Keys : recorded[k] \in Nat) /\ daily \in Nat
  BY DEF TypeOK
<1>1. SessionLimit \in Nat /\ DailyLimit \in Nat
  BY ChatAssumption
<1>2. ASSUME NEW k \in Keys
      PROVE  recorded'[k] + 2 * MaxCost * Cardinality(PassedOf(k)') < SessionLimit + Overrun
  <2> DEFINE A == PassedOf(k)'
             B == PassedOf(k)
  <2>1. B \in SUBSET Threads /\ A \in SUBSET B
    BY DEF PassedOf
  <2>2. recorded[k] + 2 * MaxCost * Cardinality(B) < SessionLimit + Overrun
    BY DEF BudgetInv, SessionMargin
  <2> HIDE DEF A, B
  <2>3. recorded[k] + 2 * MaxCost * Cardinality(A) < SessionLimit + Overrun
    BY <1>0, <1>1, <2>1, <2>2, FewerSpendLess
  <2> QED BY <2>3 DEF A
<1>3. daily' + 2 * MaxCost * Cardinality(AdmittedNow') < DailyLimit + Overrun
  <2> DEFINE A == AdmittedNow'
             B == AdmittedNow
  <2>1. B \in SUBSET Threads /\ A \in SUBSET B
    BY DEF AdmittedNow
  <2>2. daily + 2 * MaxCost * Cardinality(B) < DailyLimit + Overrun
    BY DEF BudgetInv, DailyMargin
  <2> HIDE DEF A, B
  <2>3. daily' + 2 * MaxCost * Cardinality(A) < DailyLimit + Overrun
    BY <1>0, <1>1, <2>1, <2>2, FewerSpendLess
  <2> QED BY <2>3 DEF A
<1> QED
  BY <1>2, <1>3 DEF BudgetInv, SessionMargin, DailyMargin, Overrun

\* One exchange goes on without passing a check, and nothing is recorded.
LEMMA OneGoesOn ==
    ASSUME BudgetInv, TypeOK, NEW t \in Threads, NEW x \in Exchanges, Become(t, x),
           x.pc # "idle" => x.key \in Keys,
           x.pc \in Passed => exchange[t].pc \in Passed /\ exchange[t].key = x.key,
           x.pc \in Admitted => exchange[t].pc \in Admitted,
           x.first <= MaxCost,
           x.pc \in {"record", "record_failed"} => x.tokens <= 2 * MaxCost,
           UNCHANGED <<recorded, daily>>
    PROVE  BudgetInv'
<1>1. \A u \in Threads : exchange'[u] = IF u = t THEN x ELSE exchange[u]
  BY BecomeType
<1>2. Paid'
  BY <1>1 DEF BudgetInv, Paid
<1>3. \A k \in Keys : PassedOf(k)' \subseteq PassedOf(k)
  BY <1>1 DEF PassedOf
<1>4. AdmittedNow' \subseteq AdmittedNow
  BY <1>1 DEF AdmittedNow
<1>5. daily' \in Nat /\ daily' <= daily
  BY DEF TypeOK
<1> QED
  BY <1>2, <1>3, <1>4, <1>5, MarginsStay

LEMMA SimpleBudget ==
    ASSUME BudgetInv, TypeOK, NEW t \in Threads,
           StoreQuestion(t) \/ Analyze(t) \/ RememberReply(t) \/ StoreReply(t)
           \/ CallRaises(t) \/ DatabaseFails(t)
           \/ \E cost \in 1..MaxCost : NoChoice(t, cost)
    PROVE  BudgetInv'
<1> DEFINE x == exchange[t]
<1>1. /\ x \in Exchanges /\ x.pc # "idle" /\ x.key \in Keys /\ x.first <= MaxCost
      /\ Idle \in Exchanges /\ Idle.pc = "idle" /\ Idle.first = 0 /\ 0 <= MaxCost
  BY IdleType, ChatAssumption DEF BudgetInv, Paid, TypeOK, Idle, StoreQuestion, Analyze,
     RememberReply, StoreReply, CallRaises, DatabaseFails, NoChoice
<1>2. \A p \in Pcs : LET y == [x EXCEPT !.pc = p]
                    IN y \in Exchanges /\ y.pc = p /\ y.key = x.key /\ y.first = x.first
  BY <1>1 DEF Exchanges
<1>3. UNCHANGED <<recorded, daily>>
  BY DEF StoreQuestion, Analyze, RememberReply, StoreReply, CallRaises, DatabaseFails, NoChoice,
         UsageVars
<1>4. CASE Become(t, Idle)
  BY <1>1, <1>3, <1>4, OneGoesOn DEF Passed, Admitted
<1>5. ASSUME NEW p \in {"check_session", "ask", "remember_reply", "store_reply"},
             Become(t, [x EXCEPT !.pc = p]), p = "ask" => x.pc = "analyze"
      PROVE  BudgetInv'
  <2> DEFINE y == [x EXCEPT !.pc = p]
  <2>1. y \in Exchanges /\ y.pc = p /\ y.key = x.key /\ y.first = x.first
    BY <1>2 DEF Pcs
  <2>2. Become(t, y)
    BY <1>5
  <2> HIDE DEF y
  <2> QED BY <1>1, <1>3, <1>5, <2>1, <2>2, OneGoesOn DEF Passed, Admitted
<1>6. \/ Become(t, Idle)
      \/ \E p \in {"check_session", "ask", "remember_reply", "store_reply"} :
            Become(t, [x EXCEPT !.pc = p]) /\ (p = "ask" => x.pc = "analyze")
  BY DEF StoreQuestion, Analyze, RememberReply, StoreReply, CallRaises, DatabaseFails, NoChoice
<1> QED
  BY <1>4, <1>5, <1>6

LEMMA CallBudget ==
    ASSUME BudgetInv, TypeOK, NEW t \in Threads, NEW cost \in 1..MaxCost,
           Answer(t, cost) \/ Retry(t, cost) \/ EmptyAnswer(t, cost)
    PROVE  BudgetInv'
<1> DEFINE x == exchange[t]
<1>1. x \in Exchanges /\ x.pc = "call" /\ x.key \in Keys /\ x.first <= MaxCost
  BY DEF BudgetInv, Paid, TypeOK, Answer, Retry, EmptyAnswer
<1>2. x.first \in Nat /\ cost \in Nat /\ MaxCost \in Nat /\ x.first + cost <= 2 * MaxCost
      /\ cost <= MaxCost
  <2>1. x.first \in Nat /\ cost \in Nat /\ MaxCost \in Nat /\ cost <= MaxCost
    BY <1>1, ChatAssumption DEF Exchanges
  <2> HIDE DEF x
  <2> QED BY <1>1, <2>1
<1>3. UNCHANGED <<recorded, daily>>
  BY DEF Answer, Retry, EmptyAnswer, Spend
<1>4. ASSUME NEW p \in {"record", "record_failed"},
             Become(t, [x EXCEPT !.pc = p, !.tokens = x.first + cost])
      PROVE  BudgetInv'
  <2> DEFINE y == [x EXCEPT !.pc = p, !.tokens = x.first + cost]
  <2>1. /\ y \in Exchanges /\ y.pc = p /\ y.key = x.key /\ y.first = x.first
        /\ y.tokens = x.first + cost
    <3>1. p \in Pcs /\ x.first + cost \in Nat /\ x \in Exchanges
      BY <1>1, <1>2 DEF Pcs
    <3> HIDE DEF x
    <3> QED BY <3>1 DEF Exchanges
  <2>2. Become(t, y)
    BY <1>4
  <2> HIDE DEF y
  <2> QED BY <1>1, <1>2, <1>3, <2>1, <2>2, OneGoesOn DEF Passed, Admitted
<1>5. CASE Become(t, [x EXCEPT !.room = TRUE, !.first = cost])
  <2> DEFINE y == [x EXCEPT !.room = TRUE, !.first = cost]
  <2>1. y \in Exchanges /\ y.pc = "call" /\ y.key = x.key /\ y.first = cost
    BY <1>1, <1>2 DEF Exchanges
  <2>2. Become(t, y)
    BY <1>5
  <2> HIDE DEF y
  <2> QED BY <1>1, <1>2, <1>3, <2>1, <2>2, OneGoesOn DEF Passed, Admitted
<1> QED
  BY <1>4, <1>5 DEF Answer, Retry, EmptyAnswer

LEMMA AskBudget ==
    ASSUME BudgetInv, TypeOK, NEW t \in Threads, Ask(t)
    PROVE  BudgetInv'
<1> DEFINE x == exchange[t]
           room == x.model \in reasoning
           y == [x EXCEPT !.pc = "call", !.prompt = memory[x.chat], !.room = room]
<1>1. x \in Exchanges /\ x.pc = "ask" /\ x.key \in Keys /\ x.first <= MaxCost
  BY DEF BudgetInv, Paid, TypeOK, Ask
<1>2. memory[x.chat] \in Seq(Turns)
  BY <1>1 DEF TypeOK, Exchanges
<1>3. room \in BOOLEAN
  OBVIOUS
<1>4. Become(t, y)
  BY DEF Ask
<1>5. y \in Exchanges /\ y.pc = "call" /\ y.key = x.key /\ y.first = x.first
  <2> HIDE DEF room
  <2> QED BY <1>1, <1>2, <1>3 DEF Exchanges, Pcs
<1>6. UNCHANGED <<recorded, daily>>
  BY DEF Ask, UsageVars
<1> HIDE DEF y
<1> QED
  BY <1>1, <1>4, <1>5, <1>6, OneGoesOn DEF Passed, Admitted

LEMMA CreateBudget ==
    ASSUME BudgetInv, TypeOK, NEW t \in Threads, NEW k \in Keys, NEW c \in Chats,
           NEW m \in Models, CreateMessage(t, k, c, m)
    PROVE  BudgetInv'
<1> DEFINE x == [Idle EXCEPT !.pc = "store_question", !.id = begun + 1, !.key = k, !.chat = c,
                             !.model = m, !.question = appended[c] + 1]
<1>1. x \in Exchanges
  <2>1. "store_question" \in Pcs /\ begun + 1 \in Nat /\ appended[c] + 1 \in Nat
    BY DEF Pcs, TypeOK
  <2> QED BY <2>1, IdleType DEF Exchanges
<1>2. x.pc = "store_question" /\ x.key = k /\ x.first = 0 /\ 0 <= MaxCost
  BY ChatAssumption DEF Idle
<1>3. Become(t, x) /\ UNCHANGED <<recorded, daily>>
  BY DEF CreateMessage, UsageVars
<1> HIDE DEF x
<1> QED
  BY <1>1, <1>2, <1>3, OneGoesOn DEF Passed, Admitted

\* A session below its limit may have every thread at work for it.
LEMMA CheckSessionBudget ==
    ASSUME BudgetInv, TypeOK, NEW t \in Threads, CheckSession(t)
    PROVE  BudgetInv'
<1> DEFINE x == exchange[t]
<1>1. x \in Exchanges /\ x.pc = "check_session" /\ x.key \in Keys /\ x.first <= MaxCost
  BY DEF BudgetInv, Paid, TypeOK, CheckSession
<1>2. UNCHANGED <<recorded, daily>>
  BY DEF CheckSession, UsageVars
<1>3. CASE recorded[x.key] >= SessionLimit
  <2>1. /\ Become(t, Idle) /\ Idle \in Exchanges /\ Idle.pc = "idle" /\ Idle.first <= MaxCost
    BY <1>3, IdleType, ChatAssumption DEF CheckSession, Idle
  <2> QED BY <1>2, <2>1, OneGoesOn DEF Passed, Admitted
<1>4. CASE ~ (recorded[x.key] >= SessionLimit)
  <2> DEFINE y == [x EXCEPT !.pc = "check_daily"]
  <2>1. y \in Exchanges /\ y.pc = "check_daily" /\ y.key = x.key /\ y.first = x.first
    BY <1>1 DEF Exchanges, Pcs
  <2>2. Become(t, y)
    BY <1>4 DEF CheckSession
  <2> HIDE DEF y
  <2>3. \A u \in Threads : exchange'[u] = IF u = t THEN y ELSE exchange[u]
    BY <1>1, <2>1, <2>2, BecomeType
  <2>4. Paid'
    BY <1>1, <2>1, <2>3 DEF BudgetInv, Paid
  <2>5. AdmittedNow' = AdmittedNow
    BY <1>1, <2>1, <2>3 DEF AdmittedNow, Admitted, Passed
  <2>6. DailyMargin'
    BY <1>2, <2>5 DEF BudgetInv, DailyMargin, Overrun
  <2>7. ASSUME NEW k \in Keys
        PROVE  recorded'[k] + 2 * MaxCost * Cardinality(PassedOf(k)') < SessionLimit + Overrun
    <3>1. CASE k # x.key
      <4>1. PassedOf(k)' = PassedOf(k)
        BY <1>1, <2>1, <2>3, <3>1 DEF PassedOf, Passed
      <4> QED BY <1>2, <4>1 DEF BudgetInv, SessionMargin
    <3>2. CASE k = x.key
      <4>1. recorded[k] \in Nat /\ SessionLimit \in Nat /\ recorded[k] < SessionLimit
        BY <1>4, <3>2, ChatAssumption DEF TypeOK
      <4> DEFINE A == PassedOf(k)'
      <4>2. A \in SUBSET Threads
        BY DEF PassedOf
      <4> HIDE DEF A
      <4>3. recorded[k] + 2 * MaxCost * Cardinality(A) < SessionLimit + Overrun
        BY <4>1, <4>2, FewerSpendLess
      <4> QED BY <1>2, <4>3 DEF A
    <3> QED BY <3>1, <3>2
  <2> QED BY <2>4, <2>6, <2>7 DEF BudgetInv, SessionMargin, Overrun
<1> QED BY <1>3, <1>4

\* The same for the site.
LEMMA CheckDailyBudget ==
    ASSUME BudgetInv, TypeOK, NEW t \in Threads, CheckDaily(t)
    PROVE  BudgetInv'
<1> DEFINE x == exchange[t]
<1>1. x \in Exchanges /\ x.pc = "check_daily" /\ x.key \in Keys /\ x.first <= MaxCost
  BY DEF BudgetInv, Paid, TypeOK, CheckDaily
<1>2. UNCHANGED <<recorded, daily>>
  BY DEF CheckDaily, UsageVars
<1>3. CASE daily >= DailyLimit
  <2>1. /\ Become(t, Idle) /\ Idle \in Exchanges /\ Idle.pc = "idle" /\ Idle.first <= MaxCost
    BY <1>3, IdleType, ChatAssumption DEF CheckDaily, Idle
  <2> QED BY <1>2, <2>1, OneGoesOn DEF Passed, Admitted
<1>4. CASE ~ (daily >= DailyLimit)
  <2> DEFINE y == [x EXCEPT !.pc = "analyze"]
  <2>1. y \in Exchanges /\ y.pc = "analyze" /\ y.key = x.key /\ y.first = x.first
    BY <1>1 DEF Exchanges, Pcs
  <2>2. Become(t, y)
    BY <1>4 DEF CheckDaily
  <2> HIDE DEF y
  <2>3. \A u \in Threads : exchange'[u] = IF u = t THEN y ELSE exchange[u]
    BY <1>1, <2>1, <2>2, BecomeType
  <2>4. Paid'
    BY <1>1, <2>1, <2>3 DEF BudgetInv, Paid
  <2>5. \A k \in Keys : PassedOf(k)' = PassedOf(k)
    BY <1>1, <2>1, <2>3 DEF PassedOf, Passed
  <2>6. SessionMargin'
    BY <1>2, <2>5 DEF BudgetInv, SessionMargin, Overrun
  <2> DEFINE A == AdmittedNow'
  <2>7. A \in SUBSET Threads
    BY DEF AdmittedNow
  <2>8. daily \in Nat /\ DailyLimit \in Nat /\ daily < DailyLimit
    BY <1>4, ChatAssumption DEF TypeOK
  <2> HIDE DEF A
  <2>9. daily + 2 * MaxCost * Cardinality(A) < DailyLimit + Overrun
    BY <2>7, <2>8, FewerSpendLess
  <2>10. DailyMargin'
    BY <1>2, <2>9 DEF A, DailyMargin, Overrun
  <2> QED BY <2>4, <2>6, <2>10 DEF BudgetInv
<1> QED BY <1>3, <1>4

\* What is recorded is no longer to come.
LEMMA RecordBudget ==
    ASSUME BudgetInv, TypeOK, NEW t \in Threads, RecordUsage(t)
    PROVE  BudgetInv'
<1> DEFINE x == exchange[t]
           y == IF x.pc = "record_failed" THEN Idle
                ELSE [x EXCEPT !.pc = "remember_reply", !.tokens = 0, !.first = 0]
<1>1. /\ x \in Exchanges /\ x.pc \in {"record", "record_failed"} /\ x.key \in Keys
      /\ x.tokens <= 2 * MaxCost /\ MaxCost \in Nat
  BY ChatAssumption DEF BudgetInv, Paid, TypeOK, RecordUsage
<1>2. x.tokens \in Nat
  BY <1>1 DEF Exchanges
<1>3. /\ y \in Exchanges /\ (y.pc # "idle" => y.key \in Keys) /\ y.first = 0
      /\ y.pc \in {"idle", "remember_reply"}
  <2>1. LET z == [x EXCEPT !.pc = "remember_reply", !.tokens = 0, !.first = 0]
        IN z \in Exchanges /\ z.pc = "remember_reply" /\ z.first = 0 /\ z.key = x.key
    BY <1>1 DEF Exchanges, Pcs
  <2>2. Idle \in Exchanges /\ Idle.pc = "idle" /\ Idle.first = 0
    BY IdleType DEF Idle
  <2> QED BY <1>1, <2>1, <2>2
<1>4. Become(t, y)
  BY DEF RecordUsage
<1> HIDE DEF y
<1>5. \A u \in Threads : exchange'[u] = IF u = t THEN y ELSE exchange[u]
  BY <1>3, <1>4, BecomeType
<1>6. /\ recorded' = [recorded EXCEPT ![x.key] = recorded[x.key] + x.tokens]
      /\ daily' = daily + x.tokens
  BY DEF RecordUsage
<1>7. recorded \in [Keys -> Nat] /\ daily \in Nat
  BY DEF TypeOK
<1>8. Paid'
  BY <1>1, <1>3, <1>5 DEF BudgetInv, Paid
<1>9. SessionLimit \in Nat /\ DailyLimit \in Nat
  BY ChatAssumption
<1>10. ASSUME NEW k \in Keys
       PROVE  recorded'[k] + 2 * MaxCost * Cardinality(PassedOf(k)') < SessionLimit + Overrun
  <2>1. CASE k # x.key
    <3>1. PassedOf(k)' = PassedOf(k)
      BY <1>3, <1>5, <2>1 DEF PassedOf, Passed
    <3>2. recorded'[k] = recorded[k]
      BY <1>6, <1>7, <2>1
    <3> QED BY <3>1, <3>2 DEF BudgetInv, SessionMargin
  <2>2. CASE k = x.key
    <3> DEFINE B == PassedOf(k)
    <3>1. t \in B /\ B \in SUBSET Threads
      BY <1>1, <2>2 DEF PassedOf, Passed
    <3>2. PassedOf(k)' = B \ {t}
      BY <1>3, <1>5 DEF PassedOf, Passed
    <3>3. recorded'[k] = recorded[k] + x.tokens
      BY <1>6, <1>7, <2>2
    <3>4. recorded[k] + 2 * MaxCost * Cardinality(B) < SessionLimit + Overrun
      BY DEF BudgetInv, SessionMargin
    <3> HIDE DEF B, x
    <3>5. /\ 2 * MaxCost * Cardinality(B) = 2 * MaxCost * Cardinality(B \ {t}) + 2 * MaxCost
          /\ 2 * MaxCost * Cardinality(B \ {t}) \in Nat
          /\ Overrun \in Nat
      BY <3>1, OneSpendsLess, FewerSpendLess
    <3>6. recorded[k] \in Nat
      BY <1>7
    <3> QED BY <1>1, <1>2, <1>9, <3>2, <3>3, <3>4, <3>5, <3>6
  <2> QED BY <2>1, <2>2
<1>11. daily' + 2 * MaxCost * Cardinality(AdmittedNow') < DailyLimit + Overrun
  <2> DEFINE B == AdmittedNow
  <2>1. t \in B /\ B \in SUBSET Threads
    BY <1>1 DEF AdmittedNow, Admitted, Passed
  <2>2. AdmittedNow' = B \ {t}
    BY <1>3, <1>5 DEF AdmittedNow, Admitted, Passed
  <2>3. daily + 2 * MaxCost * Cardinality(B) < DailyLimit + Overrun
    BY DEF BudgetInv, DailyMargin
  <2> HIDE DEF B, x
  <2>4. /\ 2 * MaxCost * Cardinality(B) = 2 * MaxCost * Cardinality(B \ {t}) + 2 * MaxCost
        /\ 2 * MaxCost * Cardinality(B \ {t}) \in Nat
        /\ Overrun \in Nat
    BY <2>1, OneSpendsLess, FewerSpendLess
  <2> QED BY <1>1, <1>2, <1>6, <1>7, <1>9, <2>2, <2>3, <2>4
<1> QED
  BY <1>8, <1>10, <1>11 DEF BudgetInv, SessionMargin, DailyMargin, Overrun

LEMMA OutsideBudget ==
    ASSUME BudgetInv, TypeOK, (\E c \in Chats : CheckIn(c)) \/ UsageLapses \/ Restart
    PROVE  BudgetInv'
<1>1. daily \in Nat /\ exchange \in [Threads -> Exchanges]
  BY DEF TypeOK
<1>2. recorded' = recorded /\ daily' \in Nat /\ daily' <= daily
  BY <1>1 DEF CheckIn, UsageLapses, Restart, UsageVars
<1>3. \A t \in Threads : exchange'[t] = exchange[t] \/ exchange'[t] = Idle
  BY <1>1 DEF CheckIn, UsageLapses, Restart
<1>4. Idle.pc = "idle" /\ Idle.first <= MaxCost
  BY ChatAssumption DEF Idle
<1>5. Paid'
  BY <1>3, <1>4 DEF BudgetInv, Paid
<1>6. \A k \in Keys : PassedOf(k)' \subseteq PassedOf(k)
  BY <1>3, <1>4 DEF PassedOf, Passed
<1>7. AdmittedNow' \subseteq AdmittedNow
  BY <1>3, <1>4 DEF AdmittedNow, Admitted, Passed
<1> QED
  BY <1>2, <1>5, <1>6, <1>7, MarginsStay

LEMMA NextBudget ==
    ASSUME BudgetInv, TypeOK, [Next]_vars
    PROVE  BudgetInv'
<1>1. CASE UNCHANGED vars
  <2>1. daily' \in Nat /\ daily' <= daily /\ UNCHANGED <<recorded, exchange>>
    BY <1>1 DEF vars, TypeOK
  <2>2. Paid' /\ AdmittedNow' = AdmittedNow /\ \A k \in Keys : PassedOf(k)' = PassedOf(k)
    BY <2>1 DEF BudgetInv, Paid, AdmittedNow, PassedOf
  <2> QED BY <2>1, <2>2, MarginsStay
<1> QED
  BY <1>1, SimpleBudget, CallBudget, AskBudget, CreateBudget, CheckSessionBudget,
     CheckDailyBudget, RecordBudget, OutsideBudget DEF Next, Advance

LEMMA BudgetHolds == BudgetInv /\ TypeOK => OverspendBounded
<1> SUFFICES ASSUME BudgetInv, TypeOK PROVE OverspendBounded
  OBVIOUS
<1>1. SessionLimit \in Nat /\ DailyLimit \in Nat /\ daily \in Nat
  BY ChatAssumption DEF TypeOK
<1>2. ASSUME NEW k \in Keys PROVE recorded[k] < SessionLimit + Overrun
  <2>1. PassedOf(k) \in SUBSET Threads /\ recorded[k] \in Nat
    BY DEF PassedOf, TypeOK
  <2>2. 2 * MaxCost * Cardinality(PassedOf(k)) \in Nat /\ Overrun \in Nat
    BY <2>1, FewerSpendLess
  <2>3. recorded[k] + 2 * MaxCost * Cardinality(PassedOf(k)) < SessionLimit + Overrun
    BY DEF BudgetInv, SessionMargin
  <2> QED BY <1>1, <2>1, <2>2, <2>3
<1>3. daily < DailyLimit + Overrun
  <2>1. AdmittedNow \in SUBSET Threads
    BY DEF AdmittedNow
  <2>2. 2 * MaxCost * Cardinality(AdmittedNow) \in Nat /\ Overrun \in Nat
    BY <2>1, FewerSpendLess
  <2>3. daily + 2 * MaxCost * Cardinality(AdmittedNow) < DailyLimit + Overrun
    BY DEF BudgetInv, DailyMargin
  <2> QED BY <1>1, <2>2, <2>3
<1> QED
  BY <1>2, <1>3 DEF OverspendBounded

---------------------------------------------------------------------------
(* Sums over a finite set (SumFunctionOnSet).  There is no induction over a *)
(* set here: of the subsets that would break a lemma, look at a smallest.   *)

\* The function SumFunctionOnSet chooses: it takes the chosen element off.
Chosen(s) == CHOOSE x \in s : TRUE

IsSum(g, f, D) ==
    g = [s \in SUBSET D |-> IF s = {} THEN 0 ELSE f[Chosen(s)] + g[s \ {Chosen(s)}]]

LEMMA SmallestSubset ==
    ASSUME NEW D, IsFiniteSet(D), NEW B \in SUBSET (SUBSET D), B # {}
    PROVE  \E m \in B : \A s \in B : s \subseteq m => s = m
<1>1. B \subseteq FiniteSubsetsOf(D)
  BY FS_Subset DEF FiniteSubsetsOf
<1>2. PICK m \in B : \A s \in B : ~ (<<s, m>> \in StrictSubsetOrdering(D))
  BY <1>1, FS_StrictSubsetOrderingWellFounded, WFMin
<1>3. \A s \in B : s \subseteq m => s = m
  BY <1>2, Zenon DEF StrictSubsetOrdering
<1> QED
  BY <1>3

LEMMA ChosenElement ==
    ASSUME NEW s, s # {}
    PROVE  Chosen(s) \in s
BY DEF Chosen

\* What IsSum says of one subset.
LEMMA SumValue ==
    ASSUME NEW f, NEW g, NEW D, IsSum(g, f, D), NEW s \in SUBSET D, NEW x,
           x = Chosen(s)
    PROVE  /\ s = {} => g[s] = 0
           /\ s # {} => x \in s /\ g[s] = f[x] + g[s \ {x}]
<1>1. g[s] = IF s = {} THEN 0 ELSE f[x] + g[s \ {x}]
  BY DEF IsSum
<1>2. s # {} => x \in s
  BY ChosenElement
<1> QED BY <1>1, <1>2

LEMMA SumUnique ==
    ASSUME NEW f, NEW E, IsFiniteSet(E), NEW D \in SUBSET E,
           NEW g, IsSum(g, f, D), NEW h, IsSum(h, f, E)
    PROVE  g[D] = h[D]
<1> DEFINE B == {s \in SUBSET D : g[s] # h[s]}
<1>1. IsFiniteSet(D)
  BY FS_Subset
<1>2. CASE B = {}
  BY <1>2
<1>3. CASE B # {}
  <2>1. PICK s \in B : \A u \in B : u \subseteq s => u = s
    <3> HIDE DEF B
    <3>1. B \in SUBSET (SUBSET D)
      BY DEF B
    <3> QED BY <1>1, <1>3, <3>1, SmallestSubset
  <2>2. PICK x : x = Chosen(s)
    OBVIOUS
  <2>3. s \in SUBSET D /\ s \in SUBSET E /\ g[s] # h[s]
    BY <2>1
  <2>4. /\ s = {} => g[s] = 0
        /\ s # {} => x \in s /\ g[s] = f[x] + g[s \ {x}]
    BY <2>2, <2>3, SumValue
  <2>5. /\ s = {} => h[s] = 0
        /\ s # {} => x \in s /\ h[s] = f[x] + h[s \ {x}]
    BY <2>2, <2>3, SumValue
  <2>6. s # {} => g[s \ {x}] = h[s \ {x}]
    BY <2>1, <2>3, <2>4
  <2> QED BY <2>3, <2>4, <2>5, <2>6
<1> QED BY <1>2, <1>3

LEMMA SumExists ==
    ASSUME NEW f, NEW D, IsFiniteSet(D)
    PROVE  \E g : IsSum(g, f, D)
<1> DEFINE B == {s \in SUBSET D : ~ \E g : IsSum(g, f, s)}
           H(u) == CHOOSE g : IsSum(g, f, u)
<1>1. CASE B = {}
  BY <1>1
<1>2. CASE B # {}
  <2>1. PICK T \in B : \A u \in B : u \subseteq T => u = T
    <3> HIDE DEF B
    <3>1. B \in SUBSET (SUBSET D)
      BY DEF B
    <3> QED BY <1>2, <3>1, SmallestSubset
  <2>2. T \in SUBSET D /\ ~ \E g : IsSum(g, f, T)
    BY <2>1
  <2>3. ASSUME NEW u \in SUBSET T, u # T PROVE IsSum(H(u), f, u) /\ IsFiniteSet(u)
    <3>1. \E g : IsSum(g, f, u)
      BY <2>1, <2>2, <2>3
    <3>2. IsFiniteSet(u)
      BY <2>2, FS_Subset
    <3> HIDE DEF IsSum
    <3> QED BY <3>1, <3>2, Zenon
  <2> DEFINE C(s) == Chosen(s)
             R(s) == s \ {C(s)}
             V(s) == IF s = {} THEN 0 ELSE f[C(s)] + H(R(s))[R(s)]
             k == [s \in SUBSET T |-> V(s)]
  <2>4. ASSUME NEW u \in SUBSET T, u # T PROVE V(u) = H(u)[u]
    <3>1. PICK x : x = C(u)
      OBVIOUS
    <3>2. PICK h : h = H(u)
      OBVIOUS
    <3>3. IsSum(h, f, u) /\ IsFiniteSet(u)
      BY <2>3, <2>4, <3>2
    <3>4. /\ u = {} => h[u] = 0
          /\ u # {} => x \in u /\ h[u] = f[x] + h[u \ {x}]
      <4> HIDE DEF H
      <4> QED BY <3>1, <3>3, SumValue
    <3>5. CASE u = {}
      BY <3>2, <3>4, <3>5
    <3>6. CASE u # {}
      <4>1. PICK v : v = u \ {x}
        OBVIOUS
      <4>2. v \in SUBSET T /\ v # T /\ v \in SUBSET u /\ v = R(u)
        BY <3>1, <3>4, <3>6, <4>1
      <4>3. IsSum(H(v), f, v)
        BY <2>3, <4>2
      <4>4. H(v)[v] = h[v]
        <5> HIDE DEF H
        <5> QED BY <3>3, <4>2, <4>3, SumUnique
      <4> HIDE DEF H
      <4>5. V(u) = f[C(u)] + H(R(u))[R(u)]
        BY <3>6
      <4> QED BY <3>1, <3>2, <3>4, <3>6, <4>1, <4>2, <4>4, <4>5
    <3> QED BY <3>5, <3>6
  <2>5. ASSUME NEW s \in SUBSET T, s # {} PROVE H(R(s))[R(s)] = k[R(s)]
    <3>1. C(s) \in s
      BY <2>5, ChosenElement
    <3>2. R(s) \in SUBSET T /\ R(s) # T
      BY <3>1
    <3> HIDE DEF H, R, V
    <3> QED BY <2>4, <3>2
  <2>6. k = [s \in SUBSET T |-> IF s = {} THEN 0 ELSE f[C(s)] + k[R(s)]]
    <3>1. \A s \in SUBSET T : V(s) = IF s = {} THEN 0 ELSE f[C(s)] + k[R(s)]
      <4> HIDE DEF H, R, C, k
      <4> QED BY <2>5
    <3> HIDE DEF V, H, R, C
    <3>2. k = [s \in SUBSET T |-> V(s)]
      OBVIOUS
    <3> HIDE DEF k
    <3> QED BY <3>1, <3>2
  <2>7. IsSum(k, f, T)
    <3> HIDE DEF k, H, V
    <3> QED BY <2>6 DEF IsSum
  <2> HIDE DEF k
  <2> QED BY <2>2, <2>7
<1> QED BY <1>1, <1>2

LEMMA SumIs ==
    ASSUME NEW f, NEW S, IsFiniteSet(S)
    PROVE  \E g : IsSum(g, f, S) /\ SumFunctionOnSet(f, S) = g[S]
<1>1. SumFunctionOnSet(f, S) = (CHOOSE g : IsSum(g, f, S))[S]
  BY Zenon DEF SumFunctionOnSet, FoldFunctionOnSet, MapThenFoldSet, IsSum, Chosen
<1>2. \E g : IsSum(g, f, S)
  BY SumExists
<1>3. IsSum(CHOOSE g : IsSum(g, f, S), f, S)
  <2> HIDE DEF IsSum
  <2> QED BY <1>2, Zenon
<1> HIDE DEF IsSum
<1> QED BY <1>1, <1>3, Zenon

LEMMA SumStep ==
    ASSUME NEW f, NEW S, IsFiniteSet(S)
    PROVE  /\ S = {} => SumFunctionOnSet(f, S) = 0
           /\ S # {} => \E x \in S :
                 SumFunctionOnSet(f, S) = f[x] + SumFunctionOnSet(f, S \ {x})
<1>1. PICK g : IsSum(g, f, S) /\ SumFunctionOnSet(f, S) = g[S]
  BY SumIs
<1>2. PICK x : x = Chosen(S)
  OBVIOUS
<1>3. /\ S = {} => g[S] = 0
      /\ S # {} => x \in S /\ g[S] = f[x] + g[S \ {x}]
  BY <1>1, <1>2, SumValue
<1>4. ASSUME S # {} PROVE SumFunctionOnSet(f, S \ {x}) = g[S \ {x}]
  <2>1. PICK T : T = S \ {x}
    OBVIOUS
  <2>2. T \in SUBSET S /\ IsFiniteSet(T)
    BY <2>1, FS_Subset
  <2>3. PICK h : IsSum(h, f, T) /\ SumFunctionOnSet(f, T) = h[T]
    BY <2>2, SumIs
  <2>4. h[T] = g[T]
    BY <1>1, <2>2, <2>3, SumUnique
  <2> QED BY <2>1, <2>3, <2>4
<1> QED BY <1>1, <1>3, <1>4

LEMMA SumNat ==
    ASSUME NEW f, NEW S, IsFiniteSet(S), \A x \in S : f[x] \in Nat
    PROVE  \A s \in SUBSET S : IsFiniteSet(s) /\ SumFunctionOnSet(f, s) \in Nat
<1> DEFINE B == {s \in SUBSET S : SumFunctionOnSet(f, s) \notin Nat}
<1>1. \A s \in SUBSET S : IsFiniteSet(s)
  BY FS_Subset
<1>2. ASSUME B # {} PROVE FALSE
  <2>1. PICK m \in B : \A s \in B : s \subseteq m => s = m
    <3> HIDE DEF B
    <3>1. B \in SUBSET (SUBSET S)
      BY DEF B
    <3> QED BY <1>2, <3>1, SmallestSubset
  <2>2. m \in SUBSET S /\ SumFunctionOnSet(f, m) \notin Nat /\ IsFiniteSet(m)
    BY <1>1, <2>1
  <2>3. /\ m = {} => SumFunctionOnSet(f, m) = 0
        /\ m # {} => \E x \in m : SumFunctionOnSet(f, m) = f[x] + SumFunctionOnSet(f, m \ {x})
    BY <2>2, SumStep
  <2>4. PICK x \in m : SumFunctionOnSet(f, m) = f[x] + SumFunctionOnSet(f, m \ {x})
    BY <2>2, <2>3
  <2>5. SumFunctionOnSet(f, m \ {x}) \in Nat
    BY <2>1, <2>2, <2>4
  <2>6. f[x] \in Nat
    BY <2>2
  <2> QED BY <2>2, <2>4, <2>5, <2>6
<1> QED BY <1>1, <1>2

LEMMA AddBack ==
    ASSUME NEW a \in Nat, NEW b \in Nat, NEW r \in Nat, NEW p, NEW q, NEW z,
           z = a + p, p = b + r, q = a + r
    PROVE  z = b + q
OBVIOUS

\* Any element can be taken off.
LEMMA SumRemove ==
    ASSUME NEW f, NEW S, IsFiniteSet(S), \A x \in S : f[x] \in Nat
    PROVE  \A x \in S : SumFunctionOnSet(f, S) = f[x] + SumFunctionOnSet(f, S \ {x})
<1> DEFINE Off(s) == \A x \in s : SumFunctionOnSet(f, s) = f[x] + SumFunctionOnSet(f, s \ {x})
           B == {s \in SUBSET S : ~ Off(s)}
<1>1. \A s \in SUBSET S : IsFiniteSet(s) /\ SumFunctionOnSet(f, s) \in Nat
  BY SumNat
<1>2. ASSUME B # {} PROVE FALSE
  <2>1. PICK m \in B : \A s \in B : s \subseteq m => s = m
    <3> HIDE DEF B
    <3>1. B \in SUBSET (SUBSET S)
      BY DEF B
    <3> QED BY <1>2, <3>1, SmallestSubset
  <2>2. m \in SUBSET S /\ ~ Off(m) /\ IsFiniteSet(m)
    BY <1>1, <2>1
  <2>3. PICK x \in m : SumFunctionOnSet(f, m) # f[x] + SumFunctionOnSet(f, m \ {x})
    BY <2>2
  <2>4. PICK c \in m : SumFunctionOnSet(f, m) = f[c] + SumFunctionOnSet(f, m \ {c})
    BY <2>2, <2>3, SumStep
  <2>5. x # c
    BY <2>3, <2>4
  <2>6. PICK u, v, w : u = m \ {c} /\ v = m \ {x} /\ w = m \ {c, x}
    OBVIOUS
  <2>7. /\ u \in SUBSET S /\ v \in SUBSET S /\ w \in SUBSET S
        /\ x \in u /\ c \in v /\ u \ {x} = w /\ v \ {c} = w
        /\ u \subseteq m /\ v \subseteq m /\ u # m /\ v # m
    BY <2>2, <2>5, <2>6
  <2>8. Off(u) /\ Off(v)
    <3> HIDE DEF Off
    <3> QED BY <2>1, <2>7
  <2>9. /\ SumFunctionOnSet(f, u) = f[x] + SumFunctionOnSet(f, w)
        /\ SumFunctionOnSet(f, v) = f[c] + SumFunctionOnSet(f, w)
    BY <2>7, <2>8
  <2>10. SumFunctionOnSet(f, w) \in Nat /\ f[x] \in Nat /\ f[c] \in Nat
    BY <1>1, <2>2, <2>7
  <2>11. SumFunctionOnSet(f, m) = f[c] + SumFunctionOnSet(f, u)
    BY <2>4, <2>6
  <2>12. SumFunctionOnSet(f, m) = f[x] + SumFunctionOnSet(f, v)
    BY <2>9, <2>10, <2>11, AddBack
  <2> QED BY <2>3, <2>6, <2>12
<1>3. Off(S)
  BY <1>2
<1> QED BY <1>3

\* A sum is that of the values.
LEMMA SumSame ==
    ASSUME NEW f, NEW g, NEW S, IsFiniteSet(S), \A x \in S : f[x] = g[x]
    PROVE  SumFunctionOnSet(f, S) = SumFunctionOnSet(g, S)
<1>1. PICK h : IsSum(h, f, S) /\ SumFunctionOnSet(f, S) = h[S]
  BY SumIs
<1>2. IsSum(h, g, S)
  <2>1. h = [s \in SUBSET S |-> IF s = {} THEN 0 ELSE f[Chosen(s)] + h[s \ {Chosen(s)}]]
    BY <1>1 DEF IsSum
  <2>2. \A s \in SUBSET S : s # {} => f[Chosen(s)] = g[Chosen(s)]
    BY ChosenElement
  <2>3. [s \in SUBSET S |-> IF s = {} THEN 0 ELSE f[Chosen(s)] + h[s \ {Chosen(s)}]]
        = [s \in SUBSET S |-> IF s = {} THEN 0 ELSE g[Chosen(s)] + h[s \ {Chosen(s)}]]
    BY <2>2
  <2> QED BY <2>1, <2>3, Zenon DEF IsSum
<1>3. PICK k : IsSum(k, g, S) /\ SumFunctionOnSet(g, S) = k[S]
  BY SumIs
<1>4. h[S] = k[S]
  BY <1>2, <1>3, SumUnique
<1> QED BY <1>1, <1>3, <1>4

\* One value changes.
LEMMA SumChange ==
    ASSUME NEW S, IsFiniteSet(S), NEW f \in [S -> Nat], NEW g \in [S -> Nat], NEW t \in S,
           \A x \in S : x # t => g[x] = f[x]
    PROVE  SumFunction(f) \in Nat /\ SumFunction(g) + f[t] = SumFunction(f) + g[t]
<1>1. SumFunction(f) = SumFunctionOnSet(f, S) /\ SumFunction(g) = SumFunctionOnSet(g, S)
  BY DEF SumFunction
<1>2. PICK T : T = S \ {t}
  OBVIOUS
<1>3. T \in SUBSET S /\ IsFiniteSet(T) /\ \A x \in T : f[x] = g[x]
  BY <1>2, FS_Subset
<1>4. SumFunctionOnSet(f, T) = SumFunctionOnSet(g, T)
  BY <1>3, SumSame
<1>5. SumFunctionOnSet(f, T) \in Nat /\ SumFunctionOnSet(f, S) \in Nat
  BY <1>3, SumNat
<1>6. /\ SumFunctionOnSet(f, S) = f[t] + SumFunctionOnSet(f, T)
      /\ SumFunctionOnSet(g, S) = g[t] + SumFunctionOnSet(g, T)
  BY <1>2, SumRemove
<1>7. f[t] \in Nat /\ g[t] \in Nat
  OBVIOUS
<1> QED BY <1>1, <1>4, <1>5, <1>6, <1>7

\* Nothing to add up.
LEMMA SumZero ==
    ASSUME NEW S, IsFiniteSet(S), NEW f, f = [x \in S |-> 0]
    PROVE  SumFunction(f) = 0
<1> DEFINE B == {s \in SUBSET S : SumFunctionOnSet(f, s) # 0}
<1>1. ASSUME B # {} PROVE FALSE
  <2>1. PICK m \in B : \A s \in B : s \subseteq m => s = m
    <3> HIDE DEF B
    <3>1. B \in SUBSET (SUBSET S)
      BY DEF B
    <3> QED BY <1>1, <3>1, SmallestSubset
  <2>2. m \in SUBSET S /\ SumFunctionOnSet(f, m) # 0 /\ IsFiniteSet(m)
    BY <2>1, FS_Subset
  <2>3. PICK x \in m : SumFunctionOnSet(f, m) = f[x] + SumFunctionOnSet(f, m \ {x})
    BY <2>2, SumStep
  <2>4. SumFunctionOnSet(f, m \ {x}) = 0 /\ f[x] = 0
    BY <2>1, <2>2, <2>3
  <2> QED BY <2>2, <2>3, <2>4
<1>2. SumFunctionOnSet(f, S) = 0
  BY <1>1
<1> QED BY <1>2 DEF SumFunction

---------------------------------------------------------------------------
(* The accounts. *)

\* Only a call that has had its retry, and what becomes of its tokens, holds
\* the tokens of a first attempt.
FirstHeld ==
    \A t \in Threads :
        LET x == exchange[t]
        IN /\ x.pc \notin {"call", "record", "record_failed"} => x.first = 0
           /\ x.pc = "call" /\ ~x.room => x.first = 0

AccountInv == FirstHeld /\ TokensAccounted

\* What exchange x owes to key k.
OwedBy(x, k) ==
    IF x.key # k THEN 0 ELSE IF x.pc \in {"record", "record_failed"} THEN x.tokens ELSE x.first

LEMMA OwedType ==
    ASSUME NEW e \in [Threads -> Exchanges], NEW k,
           NEW f, f = [t \in Threads |-> OwedBy(e[t], k)]
    PROVE  /\ f \in [Threads -> Nat]
           /\ \A t \in Threads : f[t] = OwedBy(e[t], k)
           /\ SumFunction(f) \in Nat
<1>1. \A t \in Threads : e[t].tokens \in Nat /\ e[t].first \in Nat
  BY DEF Exchanges
<1>2. f \in [Threads -> Nat] /\ \A t \in Threads : f[t] = OwedBy(e[t], k)
  BY <1>1 DEF OwedBy
<1>3. SumFunctionOnSet(f, Threads) \in Nat
  BY <1>2, ChatAssumption, SumNat
<1>4. DOMAIN f = Threads
  OBVIOUS
<1> QED BY <1>2, <1>3, <1>4 DEF SumFunction

LEMMA OwedIs ==
    ASSUME NEW k
    PROVE  /\ Owed(k) = [t \in Threads |-> OwedBy(exchange[t], k)]
           /\ Owed(k)' = [t \in Threads |-> OwedBy(exchange'[t], k)]
BY DEF Owed, OwedBy, Pending

\* One exchange goes on as x.
LEMMA OneOwes ==
    ASSUME TypeOK, NEW t \in Threads, NEW x \in Exchanges, Become(t, x), NEW k
    PROVE  /\ PendingOf(k) \in Nat /\ PendingOf(k)' \in Nat
           /\ PendingOf(k)' + OwedBy(exchange[t], k) = PendingOf(k) + OwedBy(x, k)
<1>1. exchange \in [Threads -> Exchanges] /\ exchange' \in [Threads -> Exchanges]
  BY DEF TypeOK, Become
<1>2. \A u \in Threads : exchange'[u] = IF u = t THEN x ELSE exchange[u]
  BY DEF TypeOK, Become
<1>3. PICK f : f = Owed(k)
  OBVIOUS
<1>4. /\ f \in [Threads -> Nat] /\ SumFunction(f) \in Nat
      /\ \A u \in Threads : f[u] = OwedBy(exchange[u], k)
  <2>1. PICK e \in [Threads -> Exchanges] : e = exchange
    BY <1>1
  <2>2. f = [u \in Threads |-> OwedBy(e[u], k)]
    BY <1>3, <2>1, OwedIs
  <2> QED BY <2>1, <2>2, OwedType
<1>5. PICK g : g = Owed(k)'
  OBVIOUS
<1>6. PICK e \in [Threads -> Exchanges] : e = exchange'
  BY <1>1
<1>7. g = [u \in Threads |-> OwedBy(e[u], k)]
  BY <1>5, <1>6, OwedIs
<1>8. /\ g \in [Threads -> Nat] /\ SumFunction(g) \in Nat
      /\ \A u \in Threads : g[u] = OwedBy(exchange'[u], k)
  BY <1>6, <1>7, OwedType
<1>9. \A u \in Threads : u # t => g[u] = f[u]
  BY <1>2, <1>4, <1>8
<1>10. SumFunction(g) + f[t] = SumFunction(f) + g[t]
  BY <1>4, <1>8, <1>9, ChatAssumption, SumChange
<1>11. f[t] = OwedBy(exchange[t], k) /\ g[t] = OwedBy(x, k)
  BY <1>2, <1>4, <1>8
<1>12. PendingOf(k) = SumFunction(f) /\ PendingOf(k)' = SumFunction(g)
  BY <1>3, <1>5 DEF PendingOf
<1> QED BY <1>4, <1>8, <1>10, <1>11, <1>12

LEMMA Balance ==
    ASSUME NEW s \in Nat, NEW r \in Nat, NEW p \in Nat, NEW o \in Nat,
           NEW s2 \in Nat, NEW r2 \in Nat, NEW p2 \in Nat, NEW o2 \in Nat,
           s = r + p, p2 + o = p + o2, s2 + r + o = s + r2 + o2
    PROVE  s2 = r2 + p2
OBVIOUS

\* One exchange goes on as x, and what is spent and recorded for a key changes
\* by what the exchange owes it.
LEMMA OneAccounts ==
    ASSUME TypeOK, AccountInv, TypeOK', NEW t \in Threads, NEW x \in Exchanges, Become(t, x),
           x.pc \notin {"call", "record", "record_failed"} => x.first = 0,
           x.pc = "call" /\ ~x.room => x.first = 0,
           \A k \in Keys : blame'[k] = {} =>
               /\ blame[k] = {}
               /\ spent'[k] + recorded[k] + OwedBy(exchange[t], k)
                  = spent[k] + recorded'[k] + OwedBy(x, k)
    PROVE  AccountInv'
<1>1. FirstHeld'
  <2>1. \A u \in Threads : exchange'[u] = IF u = t THEN x ELSE exchange[u]
    BY DEF TypeOK, Become
  <2> QED BY <2>1 DEF AccountInv, FirstHeld
<1>2. ASSUME NEW k \in Keys, blame'[k] = {} PROVE spent'[k] = recorded'[k] + PendingOf(k)'
  <2>1. spent[k] = recorded[k] + PendingOf(k)
    BY <1>2 DEF AccountInv, TokensAccounted
  <2>2. /\ PendingOf(k) \in Nat /\ PendingOf(k)' \in Nat
        /\ PendingOf(k)' + OwedBy(exchange[t], k) = PendingOf(k) + OwedBy(x, k)
    BY OneOwes
  <2>3. /\ spent[k] \in Nat /\ recorded[k] \in Nat /\ spent'[k] \in Nat /\ recorded'[k] \in Nat
        /\ exchange \in [Threads -> Exchanges]
    BY DEF TypeOK
  <2>4. OwedBy(exchange[t], k) \in Nat /\ OwedBy(x, k) \in Nat
    BY <2>3 DEF OwedBy, Exchanges
  <2>5. spent'[k] + recorded[k] + OwedBy(exchange[t], k) = spent[k] + recorded'[k] + OwedBy(x, k)
    BY <1>2
  <2> QED BY <2>1, <2>2, <2>3, <2>4, <2>5, Balance
<1> QED BY <1>1, <1>2 DEF AccountInv, TokensAccounted

LEMMA InitAccount == Init => AccountInv
<1> SUFFICES ASSUME Init PROVE AccountInv
  OBVIOUS
<1>1. \A t \in Threads : exchange[t].first = 0 /\ exchange[t].pc = "idle"
  BY DEF Init, Idle
<1>2. ASSUME NEW k \in Keys PROVE spent[k] = recorded[k] + PendingOf(k)
  <2>1. Owed(k) = [t \in Threads |-> 0]
    BY <1>1 DEF Owed, Pending
  <2>2. PICK f : f = Owed(k)
    OBVIOUS
  <2>3. SumFunction(f) = 0
    BY <2>1, <2>2, ChatAssumption, SumZero
  <2>4. PendingOf(k) = 0
    BY <2>2, <2>3 DEF PendingOf
  <2> QED BY <2>4 DEF Init
<1> QED BY <1>1, <1>2 DEF AccountInv, FirstHeld, TokensAccounted

\* Nothing is spent or recorded, and what the exchange holds stays.
LEMMA QuietAccount ==
    ASSUME TypeOK, AccountInv, TypeOK', NEW t \in Threads,
           \/ StoreQuestion(t) \/ CheckSession(t) \/ CheckDaily(t) \/ Analyze(t) \/ Ask(t)
           \/ RememberReply(t) \/ StoreReply(t)
           \/ \E k \in Keys, c \in Chats, m \in Models : CreateMessage(t, k, c, m)
    PROVE  AccountInv'
<1>1. exchange'[t] \in Exchanges /\ Become(t, exchange'[t]) /\ exchange[t].first = 0
      /\ exchange[t].pc \notin {"call", "record", "record_failed"}
      /\ exchange'[t].first = 0 /\ exchange'[t].pc \notin {"record", "record_failed"}
  <2>1. exchange' \in [Threads -> Exchanges] /\ exchange \in [Threads -> Exchanges]
    BY DEF TypeOK
  <2>2. exchange[t].pc \notin {"call", "record", "record_failed"}
    BY DEF StoreQuestion, CheckSession, CheckDaily, Analyze, Ask, RememberReply, StoreReply,
           CreateMessage
  <2>3. exchange[t].first = 0
    BY <2>2 DEF AccountInv, FirstHeld
  <2>4. \E y : Become(t, y)
    BY DEF StoreQuestion, CheckSession, CheckDaily, Analyze, Ask, RememberReply, StoreReply,
           CreateMessage
  <2>5. Become(t, exchange'[t])
    BY <2>1, <2>4 DEF Become
  <2>6. exchange'[t].first = 0 /\ exchange'[t].pc \notin {"record", "record_failed"}
    <3>1. exchange[t] \in Exchanges
      BY <2>1
    <3>2. \A p \in Pcs : LET y == [exchange[t] EXCEPT !.pc = p]
                         IN y.first = exchange[t].first /\ y.pc = p
      BY <3>1 DEF Exchanges
    <3>3. CASE StoreQuestion(t) \/ CheckSession(t) \/ CheckDaily(t) \/ Analyze(t)
               \/ RememberReply(t) \/ StoreReply(t)
      <4>1. \/ Become(t, Idle)
            \/ \E p \in {"check_session", "check_daily", "analyze", "ask", "remember_reply",
                         "store_reply"} : Become(t, [exchange[t] EXCEPT !.pc = p])
        BY <3>3 DEF StoreQuestion, CheckSession, CheckDaily, Analyze, RememberReply, StoreReply
      <4>2. Idle.first = 0 /\ Idle.pc = "idle"
        BY DEF Idle
      <4>3. CASE Become(t, Idle)
        <5>1. exchange'[t] = Idle
          BY <2>1, <4>3 DEF Become
        <5> QED BY <4>2, <5>1
      <4>4. ASSUME NEW p \in {"check_session", "check_daily", "analyze", "ask", "remember_reply",
                             "store_reply"},
                   Become(t, [exchange[t] EXCEPT !.pc = p])
            PROVE  exchange'[t].first = 0 /\ exchange'[t].pc \notin {"record", "record_failed"}
        <5>1. PICK y : y = [exchange[t] EXCEPT !.pc = p]
          OBVIOUS
        <5>2. y.first = 0 /\ y.pc = p
          BY <2>3, <3>2, <5>1 DEF Pcs
        <5>3. exchange'[t] = y
          BY <2>1, <4>4, <5>1 DEF Become
        <5> QED BY <5>2, <5>3
      <4> QED BY <4>1, <4>3, <4>4
    <3>4. CASE Ask(t)
      BY <2>1, <2>3, <3>1, <3>4 DEF Ask, Become, Exchanges
    <3>5. ASSUME NEW k \in Keys, NEW c \in Chats, NEW m \in Models, CreateMessage(t, k, c, m)
          PROVE  exchange'[t].first = 0 /\ exchange'[t].pc \notin {"record", "record_failed"}
      BY <2>1, <3>5 DEF CreateMessage, Become, Idle
    <3> QED BY <3>3, <3>4, <3>5
  <2> QED BY <2>1, <2>2, <2>3, <2>5, <2>6
<1>2. UNCHANGED <<recorded, spent, blame>>
  BY DEF StoreQuestion, CheckSession, CheckDaily, Analyze, Ask, RememberReply, StoreReply,
         CreateMessage, UsageVars
<1>3. PICK x \in Exchanges : x = exchange'[t]
  BY <1>1
<1>4. \A k \in Keys : OwedBy(exchange[t], k) = OwedBy(x, k)
  BY <1>1, <1>3 DEF OwedBy
<1>5. Become(t, x)
  BY <1>1, <1>3
<1>6. \A k \in Keys : blame'[k] = {} =>
          /\ blame[k] = {}
          /\ spent'[k] + recorded[k] + OwedBy(exchange[t], k)
             = spent[k] + recorded'[k] + OwedBy(x, k)
  BY <1>2, <1>4
<1> QED BY <1>1, <1>3, <1>5, <1>6, OneAccounts

\* The gateway reports tokens, and the exchange holds them.
LEMMA CallAccount ==
    ASSUME TypeOK, AccountInv, TypeOK', NEW t \in Threads, NEW cost \in 1..MaxCost,
           Answer(t, cost) \/ Retry(t, cost) \/ EmptyAnswer(t, cost)
    PROVE  AccountInv'
<1> DEFINE z == exchange[t]
<1>1. z \in Exchanges /\ z.pc = "call" /\ z.key \in Keys /\ z.first \in Nat
      /\ (~z.room => z.first = 0)
  BY DEF TypeOK, Exchanges, AccountInv, FirstHeld, Answer, Retry, EmptyAnswer
<1>2. cost \in Nat /\ MaxCost \in Nat
  BY ChatAssumption
<1>3. spent' = [spent EXCEPT ![z.key] = spent[z.key] + cost] /\ UNCHANGED <<recorded, blame>>
  BY DEF Answer, Retry, EmptyAnswer, Spend
<1>4. spent \in [Keys -> Nat] /\ recorded \in [Keys -> Nat]
  BY DEF TypeOK
<1>5. \E x \in Exchanges :
         /\ Become(t, x) /\ x.key = z.key
         /\ \/ x.pc \in {"record", "record_failed"} /\ x.tokens = z.first + cost
            \/ x.pc = "call" /\ x.room /\ x.first = cost /\ z.first = 0
  <2>1. CASE Answer(t, cost) \/ EmptyAnswer(t, cost)
    <3>1. PICK p \in {"record", "record_failed"} :
             Become(t, [z EXCEPT !.pc = p, !.tokens = z.first + cost])
      BY <2>1 DEF Answer, EmptyAnswer
    <3>2. PICK n \in Nat : n = z.first + cost
      BY <1>1, <1>2
    <3>3. [z EXCEPT !.pc = p, !.tokens = n] \in Exchanges
      <4> HIDE DEF z
      <4> QED BY <1>1, <3>2 DEF Exchanges, Pcs
    <3>4. LET x == [z EXCEPT !.pc = p, !.tokens = n]
          IN x.key = z.key /\ x.pc = p /\ x.tokens = n
      <4> HIDE DEF z
      <4> QED BY <1>1 DEF Exchanges
    <3> QED BY <3>1, <3>2, <3>3, <3>4
  <2>2. CASE Retry(t, cost)
    <3>1. Become(t, [z EXCEPT !.room = TRUE, !.first = cost]) /\ ~z.room
      BY <2>2 DEF Retry
    <3>2. [z EXCEPT !.room = TRUE, !.first = cost] \in Exchanges
      <4> HIDE DEF z
      <4> QED BY <1>1, <1>2 DEF Exchanges
    <3>3. LET x == [z EXCEPT !.room = TRUE, !.first = cost]
          IN x.key = z.key /\ x.pc = "call" /\ x.room /\ x.first = cost
      <4> HIDE DEF z
      <4> QED BY <1>1 DEF Exchanges
    <3> QED BY <1>1, <3>1, <3>2, <3>3
  <2> QED BY <2>1, <2>2
<1>6. PICK x \in Exchanges :
         /\ Become(t, x) /\ x.key = z.key
         /\ \/ x.pc \in {"record", "record_failed"} /\ x.tokens = z.first + cost
            \/ x.pc = "call" /\ x.room /\ x.first = cost /\ z.first = 0
  BY <1>5
<1>7. ASSUME NEW k \in Keys, blame'[k] = {}
      PROVE  /\ blame[k] = {}
             /\ spent'[k] + recorded[k] + OwedBy(z, k) = spent[k] + recorded'[k] + OwedBy(x, k)
  <2>1. CASE k # z.key
    <3>1. OwedBy(z, k) = 0 /\ OwedBy(x, k) = 0
      BY <1>6, <2>1 DEF OwedBy
    <3>2. spent'[k] = spent[k]
      BY <1>3, <1>4, <2>1
    <3> QED BY <1>3, <1>7, <3>1, <3>2
  <2>2. CASE k = z.key
    <3>1. OwedBy(z, k) = z.first /\ OwedBy(x, k) = z.first + cost
      BY <1>1, <1>2, <1>6, <2>2 DEF OwedBy
    <3>2. spent'[k] = spent[k] + cost /\ recorded'[k] = recorded[k]
      BY <1>3, <1>4, <2>2
    <3>3. spent[k] \in Nat /\ recorded[k] \in Nat
      BY <1>4
    <3>4. blame[k] = {}
      BY <1>3, <1>7
    <3> HIDE DEF z
    <3> QED BY <1>1, <1>2, <3>1, <3>2, <3>3, <3>4
  <2> QED BY <2>1, <2>2
<1> QED BY <1>6, <1>7, OneAccounts

LEMMA RecordAccount ==
    ASSUME TypeOK, AccountInv, TypeOK', NEW t \in Threads, RecordUsage(t)
    PROVE  AccountInv'
<1> DEFINE z == exchange[t]
<1>1. z \in Exchanges /\ z.pc \in {"record", "record_failed"} /\ z.key \in Keys /\ z.tokens \in Nat
  BY DEF TypeOK, Exchanges, RecordUsage
<1>2. recorded' = [recorded EXCEPT ![z.key] = recorded[z.key] + z.tokens]
      /\ UNCHANGED <<spent, blame>>
  BY DEF RecordUsage
<1>3. spent \in [Keys -> Nat] /\ recorded \in [Keys -> Nat]
  BY DEF TypeOK
<1>4. \E x \in Exchanges : Become(t, x) /\ x.first = 0 /\ x.pc \in {"idle", "remember_reply"}
  <2>1. LET x == [z EXCEPT !.pc = "remember_reply", !.tokens = 0, !.first = 0]
        IN x \in Exchanges /\ x.pc = "remember_reply" /\ x.first = 0
    BY <1>1 DEF Exchanges, Pcs
  <2>2. Idle \in Exchanges /\ Idle.pc = "idle" /\ Idle.first = 0
    BY IdleType DEF Idle
  <2> QED BY <1>1, <2>1, <2>2 DEF RecordUsage
<1>5. PICK x \in Exchanges : Become(t, x) /\ x.first = 0 /\ x.pc \in {"idle", "remember_reply"}
  BY <1>4
<1>6. ASSUME NEW k \in Keys, blame'[k] = {}
      PROVE  /\ blame[k] = {}
             /\ spent'[k] + recorded[k] + OwedBy(z, k) = spent[k] + recorded'[k] + OwedBy(x, k)
  <2>1. OwedBy(x, k) = 0 /\ spent'[k] = spent[k] /\ blame[k] = {}
        /\ spent[k] \in Nat /\ recorded[k] \in Nat
    BY <1>2, <1>3, <1>5, <1>6 DEF OwedBy
  <2>2. CASE k # z.key
    <3>1. OwedBy(z, k) = 0 /\ recorded'[k] = recorded[k]
      BY <1>2, <1>3, <2>2 DEF OwedBy
    <3> QED BY <2>1, <3>1
  <2>3. CASE k = z.key
    <3>1. OwedBy(z, k) = z.tokens /\ recorded'[k] = recorded[k] + z.tokens
      BY <1>1, <1>2, <1>3, <2>3 DEF OwedBy
    <3> HIDE DEF z
    <3> QED BY <1>1, <2>1, <3>1
  <2> QED BY <2>2, <2>3
<1> QED BY <1>5, <1>6, OneAccounts

\* What a completion without a choice has spent is lost, and its key is to blame.
LEMMA NoChoiceAccount ==
    ASSUME TypeOK, AccountInv, TypeOK', NEW t \in Threads, NEW cost \in 1..MaxCost,
           NoChoice(t, cost)
    PROVE  AccountInv'
<1> DEFINE z == exchange[t]
<1>1. z.key \in Keys
  BY DEF TypeOK, NoChoice
<1>2. UNCHANGED recorded /\ Become(t, Idle)
  BY DEF NoChoice
<1>3. blame \in [Keys -> SUBSET Causes] /\ spent \in [Keys -> Nat]
  BY DEF TypeOK
<1>4. ASSUME NEW k \in Keys, blame'[k] = {}
      PROVE  /\ blame[k] = {}
             /\ spent'[k] + recorded[k] + OwedBy(z, k)
                = spent[k] + recorded'[k] + OwedBy(Idle, k)
  <2>1. k # z.key
    BY <1>1, <1>3, <1>4 DEF NoChoice
  <2>2. blame[k] = {} /\ spent'[k] = spent[k]
    BY <1>3, <1>4, <2>1 DEF NoChoice
  <2>3. OwedBy(z, k) = 0 /\ OwedBy(Idle, k) = 0
    BY <2>1 DEF OwedBy, Idle
  <2> QED BY <1>2, <2>2, <2>3
<1>5. Idle \in Exchanges /\ Idle.pc = "idle" /\ Idle.first = 0
  BY IdleType DEF Idle
<1>6. PICK x \in Exchanges : x = Idle
  BY <1>5
<1> QED BY <1>2, <1>4, <1>5, <1>6, OneAccounts

\* Tokens are lost with the exchange that held them, and their key is to blame.
LEMMA FailAccount ==
    ASSUME TypeOK, AccountInv, TypeOK', NEW t \in Threads, CallRaises(t) \/ DatabaseFails(t)
    PROVE  AccountInv'
<1> DEFINE z == exchange[t]
<1>1. z \in Exchanges /\ z.key \in Keys /\ z.first \in Nat /\ z.tokens \in Nat
  BY DEF TypeOK, Exchanges, CallRaises, DatabaseFails
<1>2. UNCHANGED <<recorded, spent>> /\ Become(t, Idle)
  BY DEF CallRaises, DatabaseFails
<1>3. blame \in [Keys -> SUBSET Causes] /\ spent \in [Keys -> Nat] /\ recorded \in [Keys -> Nat]
  BY DEF TypeOK
<1>4. ASSUME NEW k \in Keys, blame'[k] = {} PROVE blame[k] = {} /\ OwedBy(z, k) = 0
  <2>1. \/ blame' = blame
        \/ \E a : blame' = [blame EXCEPT ![z.key] = blame[z.key] \cup {a}]
    BY DEF CallRaises, DatabaseFails
  <2>2. blame[k] = {} /\ (blame' = blame \/ k # z.key)
    BY <1>1, <1>3, <1>4, <2>1
  <2>3. CASE k # z.key
    BY <2>2, <2>3 DEF OwedBy
  <2>4. CASE k = z.key
    <3>1. blame'[k] = blame[k]
      BY <2>2, <2>4
    <3>2. z.pc \notin {"record", "record_failed"} /\ z.first = 0
      <4>1. CASE CallRaises(t)
        <5>1. z.pc = "call"
          BY <4>1 DEF CallRaises
        <5>2. z.first > 0 => blame' = [blame EXCEPT ![z.key] = blame[z.key] \cup {"retry"}]
          BY <4>1 DEF CallRaises
        <5>3. ~ (z.first > 0)
          BY <1>1, <1>3, <1>4, <2>4, <5>2
        <5> HIDE DEF z
        <5> QED BY <1>1, <5>1, <5>3
      <4>2. CASE DatabaseFails(t)
        <5>1. z.pc \in {"record", "record_failed"} =>
                 blame' = [blame EXCEPT ![z.key] = blame[z.key] \cup {"usage"}]
          BY <4>2 DEF DatabaseFails
        <5>2. z.pc \notin {"record", "record_failed"}
          BY <1>1, <1>3, <1>4, <2>4, <5>1
        <5>3. z.pc # "call"
          BY <4>2 DEF DatabaseFails
        <5>4. z.first = 0
          BY <5>2, <5>3 DEF AccountInv, FirstHeld
        <5> QED BY <5>2, <5>4
      <4> QED BY <4>1, <4>2
    <3> QED BY <2>2, <3>2 DEF OwedBy
  <2> QED BY <2>2, <2>3, <2>4
<1>5. Idle \in Exchanges /\ Idle.pc = "idle" /\ Idle.first = 0
  BY IdleType DEF Idle
<1>6. \A k \in Keys : OwedBy(Idle, k) = 0
  BY <1>5 DEF OwedBy
<1>7. \A k \in Keys : blame'[k] = {} =>
          /\ blame[k] = {}
          /\ spent'[k] + recorded[k] + OwedBy(z, k) = spent[k] + recorded'[k] + OwedBy(Idle, k)
  <2> SUFFICES ASSUME NEW k \in Keys, blame'[k] = {}
               PROVE  /\ blame[k] = {}
                      /\ spent'[k] + recorded[k] + OwedBy(z, k)
                         = spent[k] + recorded'[k] + OwedBy(Idle, k)
    OBVIOUS
  <2>1. blame[k] = {} /\ OwedBy(z, k) = 0 /\ OwedBy(Idle, k) = 0
    BY <1>4, <1>6
  <2> QED BY <1>2, <2>1
<1>8. PICK x \in Exchanges : x = Idle
  BY <1>5
<1> HIDE DEF z
<1>9. /\ Become(t, x) /\ x.first = 0 /\ x.pc = "idle"
      /\ \A k \in Keys : blame'[k] = {} =>
          /\ blame[k] = {}
          /\ spent'[k] + recorded[k] + OwedBy(z, k) = spent[k] + recorded'[k] + OwedBy(x, k)
  BY <1>2, <1>5, <1>7, <1>8
<1> QED BY <1>9, OneAccounts DEF z

\* A restart drops every exchange but those between their two requests, which
\* owe nothing; the keys of the others are to blame.
LEMMA RestartAccount ==
    ASSUME TypeOK, AccountInv, Restart
    PROVE  AccountInv'
<1>1. \A t \in Threads : exchange'[t] = IF exchange[t].pc = "check_session" THEN exchange[t]
                                        ELSE Idle
  BY DEF Restart
<1>2. FirstHeld'
  BY <1>1 DEF AccountInv, FirstHeld, Idle
<1>3. UNCHANGED <<recorded, spent>>
  BY DEF Restart
<1>4. ASSUME NEW k \in Keys, blame'[k] = {} PROVE spent'[k] = recorded'[k] + PendingOf(k)'
  <2>1. blame[k] = {} /\ \A t \in Threads : exchange[t].key = k => exchange[t].pc = "idle"
    BY <1>4 DEF Restart
  <2>2. \A t \in Threads : exchange[t].key = k => exchange[t].first = 0
    BY <2>1 DEF AccountInv, FirstHeld
  <2>3. Owed(k) = [t \in Threads |-> 0]
    BY <2>1, <2>2 DEF Owed, Pending
  <2>4. \A t \in Threads : exchange'[t].first = 0 /\ exchange'[t].pc \notin {"record", "record_failed"}
    <3>1. \A t \in Threads : exchange[t].pc = "check_session" => exchange[t].first = 0
      BY DEF AccountInv, FirstHeld
    <3> QED BY <1>1, <3>1 DEF Idle
  <2>5. Owed(k)' = [t \in Threads |-> 0]
    BY <2>4 DEF Owed, Pending
  <2>6. PendingOf(k)' = PendingOf(k)
    BY <2>3, <2>5 DEF PendingOf
  <2>7. spent[k] = recorded[k] + PendingOf(k)
    BY <2>1 DEF AccountInv, TokensAccounted
  <2> QED BY <1>3, <2>6, <2>7
<1> QED BY <1>2, <1>4 DEF AccountInv, TokensAccounted

LEMMA NextAccount ==
    ASSUME TypeOK, AccountInv, TypeOK', [Next]_vars
    PROVE  AccountInv'
<1>1. CASE UNCHANGED <<exchange, spent, recorded, blame>>
  BY <1>1 DEF AccountInv, FirstHeld, TokensAccounted, PendingOf, Owed, Pending
<1>2. UNCHANGED vars \/ UsageLapses \/ (\E c \in Chats : CheckIn(c))
      => UNCHANGED <<exchange, spent, recorded, blame>>
  BY DEF vars, UsageLapses, CheckIn, UsageVars
<1> QED
  BY <1>1, <1>2, QuietAccount, CallAccount, RecordAccount, NoChoiceAccount, FailAccount,
     RestartAccount
     DEF Next, Advance

---------------------------------------------------------------------------
(* The context of a prompt. *)

\* Turns of chat c that are no longer in its memory.
Gone(c) == appended[c] - Len(memory[c])

\* The memory is the newest turns, in order, as many as fit or as there have been
\* since the restart.
MemoryGood(c) ==
    /\ Gone(c) \in Nat
    /\ Gone(c) = forgotten[c] \/ Len(memory[c]) = MaxTurns
    /\ \A i \in DOMAIN memory[c] :
          /\ memory[c][i].n = Gone(c) + i
          /\ \/ memory[c][i].name.exchange = 0
             \/ memory[c][i].name.origin = c /\ OnRecord(memory[c][i].name)

Asking == {"store_question", "check_session", "check_daily", "analyze", "ask"}

QuestionTurn(x) == [n |-> x.question, name |-> QuestionOf(x)]

\* The question that is not answered yet is in its place, or gone.
QuestionKept(x) ==
    x.pc \in Asking =>
        \/ x.question <= Gone(x.chat)
        \/ /\ x.question - Gone(x.chat) \in DOMAIN memory[x.chat]
           /\ memory[x.chat][x.question - Gone(x.chat)] = QuestionTurn(x)

PromptGood(x) ==
    /\ \A i \in DOMAIN x.prompt :
          \/ x.prompt[i].name.exchange = 0
          \/ x.prompt[i].name.origin = x.chat /\ OnRecord(x.prompt[i].name)
    /\ \/ \E i \in DOMAIN x.prompt : x.prompt[i] = QuestionTurn(x)
       \/ x.question <= forgotten[x.chat]
       \/ /\ Len(x.prompt) = MaxTurns
          /\ \A i \in DOMAIN x.prompt : x.prompt[i].n > x.question

ContextInv ==
    /\ \A c \in Chats : MemoryGood(c)
    /\ \A t \in Threads : QuestionKept(exchange[t])
    /\ \A t \in Threads : exchange[t].pc = "call" => PromptGood(exchange[t])

StaysOnRecord == \A name : OnRecord(name) => OnRecord(name)'

LEMMA InitContext == Init => ContextInv
<1> SUFFICES ASSUME Init PROVE ContextInv
  OBVIOUS
<1>1. \A c \in Chats : memory[c] = <<>> /\ appended[c] = 0 /\ forgotten[c] = 0
  BY DEF Init
<1>2. \A c \in Chats : MemoryGood(c)
  BY <1>1 DEF MemoryGood, Gone
<1>3. \A t \in Threads : exchange[t].pc = "idle"
  BY DEF Init, Idle
<1> QED
  BY <1>2, <1>3 DEF ContextInv, QuestionKept, Asking

\* A row, once written or refused, stays so; what a request is about to write it
\* writes, or it is refused.
LEMMA RecordGrows ==
    ASSUME rows \subseteq rows', unsaved \subseteq unsaved',
           \A t \in Threads :
              /\ exchange[t].pc = "store_question" =>
                    exchange'[t] = exchange[t] \/ QuestionOf(exchange[t]) \in rows' \cup unsaved'
              /\ exchange[t].pc = "store_reply" =>
                    exchange'[t] = exchange[t] \/ ReplyOf(exchange[t]) \in rows' \cup unsaved'
    PROVE  StaysOnRecord
<1> SUFFICES ASSUME NEW name, OnRecord(name) PROVE OnRecord(name)'
  BY DEF StaysOnRecord
<1>1. CASE name \in rows \cup unsaved
  BY <1>1 DEF OnRecord
<1>2. ASSUME NEW t \in Threads, exchange[t].pc = "store_question", name = QuestionOf(exchange[t])
      PROVE  OnRecord(name)'
  <2>1. CASE exchange'[t] = exchange[t]
    BY <1>2, <2>1 DEF OnRecord, QuestionOf
  <2>2. CASE QuestionOf(exchange[t]) \in rows' \cup unsaved'
    BY <1>2, <2>2 DEF OnRecord
  <2> QED BY <1>2, <2>1, <2>2
<1>3. ASSUME NEW t \in Threads, exchange[t].pc = "store_reply", name = ReplyOf(exchange[t])
      PROVE  OnRecord(name)'
  <2>1. CASE exchange'[t] = exchange[t]
    BY <1>3, <2>1 DEF OnRecord, ReplyOf
  <2>2. CASE ReplyOf(exchange[t]) \in rows' \cup unsaved'
    BY <1>3, <2>2 DEF OnRecord
  <2> QED BY <1>3, <2>1, <2>2
<1> QED BY <1>1, <1>2, <1>3 DEF OnRecord

LEMMA PromptStays ==
    ASSUME NEW x, PromptGood(x), StaysOnRecord, forgotten' = forgotten
    PROVE  PromptGood(x)'
BY DEF PromptGood, StaysOnRecord

\* The memories are left alone: one exchange goes on as x.
LEMMA ContextStays ==
    ASSUME TypeOK, ContextInv, NEW t \in Threads, NEW x \in Exchanges, Become(t, x),
           UNCHANGED <<memory, appended, forgotten>>, StaysOnRecord,
           QuestionKept(x), x.pc = "call" => PromptGood(x)
    PROVE  ContextInv'
<1>1. \A u \in Threads : exchange'[u] = IF u = t THEN x ELSE exchange[u]
  BY DEF Become, TypeOK
<1>2. \A c \in Chats : MemoryGood(c)'
  BY DEF ContextInv, MemoryGood, Gone, StaysOnRecord
<1>3. ASSUME NEW u \in Threads PROVE QuestionKept(exchange[u])'
  BY <1>1 DEF ContextInv, QuestionKept, QuestionTurn, Gone, QuestionOf
<1>4. ASSUME NEW u \in Threads, exchange'[u].pc = "call" PROVE PromptGood(exchange[u])'
  <2>1. CASE u = t
    BY <1>1, <1>4, <2>1, PromptStays DEF PromptGood, StaysOnRecord, QuestionTurn, QuestionOf
  <2>2. CASE u # t
    <3>1. PICK y : y = exchange[u]
      OBVIOUS
    <3>2. exchange'[u] = y
      BY <1>1, <2>2, <3>1
    <3>3. PromptGood(y)
      BY <1>4, <3>1, <3>2 DEF ContextInv
    <3>4. PromptGood(y)'
      BY <3>3, PromptStays
    <3> QED BY <3>2, <3>4 DEF PromptGood, QuestionTurn, QuestionOf
  <2> QED BY <2>1, <2>2
<1> QED
  BY <1>2, <1>3, <1>4 DEF ContextInv

\* r is s without its d oldest elements and with a new one.
Shifted(s, e, r, d) ==
    /\ Len(r) + d = Len(s) + 1
    /\ r[Len(r)] = e
    /\ d = 0 \/ Len(r) = MaxTurns
    /\ \A i \in 1..(Len(r) - 1) : i + d \in 1..Len(s) /\ r[i] = s[i + d]

LEMMA NewestShift ==
    ASSUME NEW s \in Seq(Turns), Len(s) <= MaxTurns, NEW e \in Turns,
           NEW r, r = Newest(Append(s, e))
    PROVE  /\ Len(s) \in Nat /\ DOMAIN s = 1..Len(s) /\ Len(r) \in Nat /\ DOMAIN r = 1..Len(r)
           /\ Len(r) > 0 /\ Len(r) <= MaxTurns
           /\ \E d \in {0, 1} : Shifted(s, e, r, d)
<1> DEFINE a == Append(s, e)
<1>1. /\ Len(s) \in Nat /\ DOMAIN s = 1..Len(s) /\ MaxTurns \in Nat \ {0}
      /\ a[Len(s) + 1] = e
      /\ \A i \in 1..Len(s) : a[i] = s[i]
  BY ChatAssumption
<1>2. /\ r \in Seq(Turns)
      /\ \/ Len(r) = Len(s) + 1 /\ Len(r) <= MaxTurns /\ r = a
         \/ /\ Len(r) = Len(s) /\ Len(r) = MaxTurns
            /\ \A i \in 1..Len(r) : r[i] = a[i + 1]
  <2>1. Renewed(s, e, r)
    <3> HIDE DEF a
    <3> QED BY NewestAppend
  <2> QED BY <2>1 DEF Renewed
<1>3. Len(r) \in Nat /\ DOMAIN r = 1..Len(r)
  BY <1>2
<1> HIDE DEF a
<1>4. Len(r) > 0 /\ Len(r) <= MaxTurns
  BY <1>1, <1>2
<1>5. \E d \in {0, 1} : Shifted(s, e, r, d)
  <2>1. CASE Len(r) = Len(s) + 1 /\ r = a
    <3>1. Shifted(s, e, r, 0)
      BY <1>1, <2>1 DEF Shifted
    <3> QED BY <3>1
  <2>2. CASE /\ Len(r) = Len(s) /\ Len(r) = MaxTurns
             /\ \A i \in 1..Len(r) : r[i] = a[i + 1]
    <3>1. Shifted(s, e, r, 1)
      BY <1>1, <2>2 DEF Shifted
    <3> QED BY <3>1
  <2> QED BY <1>2, <2>1, <2>2
<1> QED BY <1>1, <1>3, <1>4, <1>5

\* What was numbered before moves by what was cut.
LEMMA ShiftSum ==
    ASSUME NEW a \in Nat, NEW m \in Nat, NEW n \in Nat, NEW d \in Nat, n + d = m + 1
    PROVE  (a + 1) - n = (a - m) + d /\ a + 1 = ((a + 1) - n) + n
OBVIOUS

\* The newest turns after a turn was added to those of chat c.
LEMMA AppendGood ==
    ASSUME TypeOK, NEW c \in Chats, MemoryGood(c), NEW name \in TurnNames,
           AppendSessionMessage(c, name), StaysOnRecord, forgotten' = forgotten,
           name.exchange = 0 \/ (name.origin = c /\ OnRecord(name)')
    PROVE  /\ MemoryGood(c)'
           /\ \E h \in Nat :
                 /\ h = appended'[c] - Len(memory'[c])
                 /\ h \in {Gone(c), Gone(c) + 1}
                 /\ \A i \in DOMAIN memory[c] :
                       \/ Gone(c) + i <= h
                       \/ /\ Gone(c) + i - h \in DOMAIN memory'[c]
                          /\ memory'[c][Gone(c) + i - h] = memory[c][i]
                 /\ appended[c] + 1 - h \in DOMAIN memory'[c]
                 /\ memory'[c][appended[c] + 1 - h] = [n |-> appended[c] + 1, name |-> name]
<1> DEFINE e == [n |-> appended[c] + 1, name |-> name]
           s == memory[c]
           r == memory'[c]
           g == Gone(c)
           h == Gone(c)'
           G == {m \in TurnNames : m.exchange = 0 \/ (m.origin = c /\ OnRecord(m)')}
<1>1. s \in Seq(Turns) /\ Len(s) <= MaxTurns /\ appended[c] \in Nat
  BY DEF TypeOK
<1>2. e \in Turns /\ e.n = appended[c] + 1 /\ e.name = name
  BY <1>1 DEF Turns
<1>3. r = Newest(Append(s, e))
  BY DEF AppendSessionMessage, TypeOK
<1>4. appended'[c] = appended[c] + 1
  BY DEF AppendSessionMessage, TypeOK
<1>5. g = appended[c] - Len(memory[c]) /\ h = appended'[c] - Len(memory'[c])
  BY DEF Gone
<1>6. g \in Nat /\ (g = forgotten[c] \/ Len(s) = MaxTurns)
  BY DEF MemoryGood
<1>7. \A i \in DOMAIN s : s[i].n = g + i
  BY DEF MemoryGood
<1>8. ASSUME NEW i \in DOMAIN s PROVE s[i].name \in G
  <2>1. s[i].name \in TurnNames
    <3> HIDE DEF s, G
    <3>1. s[i] \in Turns
      BY <1>1
    <3> QED BY <3>1 DEF Turns
  <2>2. s[i].name.exchange = 0 \/ (s[i].name.origin = c /\ OnRecord(s[i].name))
    BY DEF MemoryGood
  <2> QED BY <2>1, <2>2 DEF StaysOnRecord
<1>0. name \in G
  OBVIOUS
<1> HIDE DEF s, e, r, g, h, G
<1>9. /\ Len(s) \in Nat /\ DOMAIN s = 1..Len(s) /\ Len(r) \in Nat /\ DOMAIN r = 1..Len(r)
      /\ Len(r) > 0 /\ Len(r) <= MaxTurns /\ \E d \in {0, 1} : Shifted(s, e, r, d)
  BY <1>1, <1>2, <1>3, NewestShift
<1>10. PICK d \in {0, 1} :
          /\ Len(r) + d = Len(s) + 1
          /\ r[Len(r)] = e
          /\ d = 0 \/ Len(r) = MaxTurns
          /\ \A i \in 1..(Len(r) - 1) : i + d \in 1..Len(s) /\ r[i] = s[i + d]
  BY <1>9 DEF Shifted
<1>11. /\ h = g + d /\ h \in Nat
       /\ h = forgotten[c] \/ Len(r) = MaxTurns
       /\ appended[c] + 1 = h + Len(r)
  <2>1. MaxTurns \in Nat
    BY ChatAssumption
  <2>2. g = appended[c] - Len(s) /\ h = (appended[c] + 1) - Len(r)
    <3>1. s = memory[c] /\ r = memory'[c]
      BY DEF s, r
    <3> QED BY <1>1, <1>4, <1>5, <3>1
  <2>3. Len(r) + d = Len(s) + 1 /\ Len(s) \in Nat /\ Len(r) \in Nat /\ d \in Nat
    BY <1>9, <1>10
  <2>4. h = g + d /\ appended[c] + 1 = h + Len(r)
    <3>1. /\ (appended[c] + 1) - Len(r) = (appended[c] - Len(s)) + d
          /\ appended[c] + 1 = ((appended[c] + 1) - Len(r)) + Len(r)
      BY <1>1, <2>3, ShiftSum
    <3>2. h = g + d
      BY <2>2, <3>1, Zenon
    <3>3. appended[c] + 1 = h + Len(r)
      BY <2>2, <3>1, Zenon
    <3> QED BY <3>2, <3>3
  <2>5. h \in Nat
    BY <1>6, <2>3, <2>4
  <2>6. Len(s) = MaxTurns => d # 0
    BY <1>9, <2>1, <2>3
  <2>7. h = forgotten[c] \/ Len(r) = MaxTurns
    BY <1>6, <1>10, <2>4, <2>6
  <2> QED BY <2>4, <2>5, <2>7
<1>12. ASSUME NEW i \in DOMAIN r PROVE r[i].n = h + i /\ r[i].name \in G
  <2>1. CASE i = Len(r)
    BY <1>0, <1>2, <1>9, <1>10, <1>11, <2>1
  <2>2. CASE i # Len(r)
    <3>1. i + d \in DOMAIN s /\ r[i] = s[i + d]
      BY <1>9, <1>10, <2>2
    <3>2. s[i + d].n = h + i
      BY <1>6, <1>7, <1>9, <1>11, <3>1
    <3> QED BY <1>8, <3>1, <3>2
  <2> QED BY <2>1, <2>2
<1>13. MemoryGood(c)'
  <2>1. h = Gone(c)' /\ r = memory'[c]
    BY DEF h, r
  <2>2. ASSUME NEW i \in DOMAIN memory'[c]
        PROVE  /\ memory'[c][i].n = Gone(c)' + i
               /\ memory'[c][i].name \in G
    BY <1>12, <2>1
  <2>3. \A m \in G : m.exchange = 0 \/ (m.origin = c /\ OnRecord(m)')
    BY DEF G
  <2>4. Gone(c)' \in Nat /\ (Gone(c)' = forgotten'[c] \/ Len(memory'[c]) = MaxTurns)
    BY <1>11, <2>1
  <2> QED BY <2>2, <2>3, <2>4 DEF MemoryGood, OnRecord
<1>14. ASSUME NEW i \in DOMAIN s
       PROVE  g + i <= h \/ (g + i - h \in DOMAIN r /\ r[g + i - h] = s[i])
  <2>1. g + i - h = i - d
    BY <1>6, <1>9, <1>11
  <2>2. CASE i = d
    BY <1>6, <1>9, <1>11, <2>2
  <2>3. CASE i # d
    <3>1. i - d \in 1..(Len(r) - 1) /\ (i - d) + d = i
      BY <1>9, <1>10, <2>3
    <3>2. r[i - d] = s[(i - d) + d] /\ i - d \in DOMAIN r
      BY <1>9, <1>10, <3>1
    <3> QED BY <2>1, <3>1, <3>2
  <2> QED BY <2>2, <2>3
<1>15. appended[c] + 1 - h = Len(r)
  BY <1>1, <1>9, <1>11
<1>16. appended[c] + 1 - h \in DOMAIN r /\ r[appended[c] + 1 - h] = e
  BY <1>9, <1>10, <1>15
<1>17. h \in {g, g + 1}
  BY <1>6, <1>11
<1>18. h \in Nat /\ h = appended'[c] - Len(memory'[c])
  BY <1>5, <1>11
<1>19. s = memory[c] /\ r = memory'[c] /\ g = Gone(c) /\ e = [n |-> appended[c] + 1, name |-> name]
  BY DEF s, r, e, g
<1> QED
  BY <1>13, <1>14, <1>16, <1>17, <1>18, <1>19

\* One exchange goes on as x; the row it was about to write is written or refused.
LEMMA OneOnRecord ==
    ASSUME TypeOK, NEW t \in Threads, NEW x, Become(t, x),
           rows \subseteq rows', unsaved \subseteq unsaved',
           exchange[t].pc = "store_question" => QuestionOf(exchange[t]) \in rows' \cup unsaved',
           exchange[t].pc = "store_reply" => ReplyOf(exchange[t]) \in rows' \cup unsaved'
    PROVE  StaysOnRecord
<1>1. \A u \in Threads : u # t => exchange'[u] = exchange[u]
  BY DEF TypeOK, Become
<1> QED
  BY <1>1, RecordGrows

\* An exchange whose question is answered or given up needs none.
LEMMA NotAsking ==
    ASSUME TypeOK, ContextInv, NEW t \in Threads, NEW x \in Exchanges, Become(t, x),
           UNCHANGED <<memory, appended, forgotten>>,
           x.pc \notin Asking \cup {"call"},
           rows \subseteq rows', unsaved \subseteq unsaved',
           exchange[t].pc = "store_question" => QuestionOf(exchange[t]) \in rows' \cup unsaved',
           exchange[t].pc = "store_reply" => ReplyOf(exchange[t]) \in rows' \cup unsaved'
    PROVE  ContextInv'
<1>1. StaysOnRecord
  BY OneOnRecord
<1>2. QuestionKept(x) /\ x.pc # "call"
  BY DEF QuestionKept
<1> QED
  BY <1>1, <1>2, ContextStays

\* One that is still to be answered keeps its question.
LEMMA StillAsking ==
    ASSUME TypeOK, ContextInv, NEW t \in Threads, NEW p \in Asking, exchange[t].pc \in Asking,
           Become(t, [exchange[t] EXCEPT !.pc = p]),
           UNCHANGED <<memory, appended, forgotten>>,
           rows \subseteq rows', unsaved \subseteq unsaved',
           exchange[t].pc = "store_question" => QuestionOf(exchange[t]) \in rows' \cup unsaved'
    PROVE  ContextInv'
<1> DEFINE x == exchange[t]
           y == [x EXCEPT !.pc = p]
<1>1. x \in Exchanges /\ x.pc # "store_reply"
  BY DEF TypeOK, Asking
<1>2. /\ y \in Exchanges /\ y.pc = p /\ y.chat = x.chat /\ y.question = x.question
      /\ y.id = x.id
  BY <1>1 DEF Exchanges, Asking, Pcs
<1>3. Become(t, y)
  OBVIOUS
<1>4. QuestionKept(x)
  BY DEF ContextInv
<1> HIDE DEF y
<1>5. QuestionKept(y) /\ y.pc # "call"
  BY <1>2, <1>4 DEF QuestionKept, QuestionTurn, QuestionOf, Asking
<1>6. StaysOnRecord
  BY <1>1, <1>3, OneOnRecord
<1> QED
  BY <1>2, <1>3, <1>5, <1>6, ContextStays

LEMMA SimpleContext ==
    ASSUME TypeOK, ContextInv, NEW t \in Threads,
           StoreQuestion(t) \/ CheckSession(t) \/ CheckDaily(t) \/ Analyze(t) \/ RecordUsage(t)
           \/ StoreReply(t) \/ CallRaises(t) \/ DatabaseFails(t)
           \/ \E cost \in 1..MaxCost : NoChoice(t, cost)
    PROVE  ContextInv'
<1> DEFINE x == exchange[t]
<1>1. x \in Exchanges /\ Idle \in Exchanges /\ Idle.pc = "idle"
  BY IdleType DEF TypeOK, Idle
<1>2. UNCHANGED <<memory, appended, forgotten>>
  BY DEF StoreQuestion, CheckSession, CheckDaily, Analyze, RecordUsage, StoreReply, CallRaises,
         DatabaseFails, NoChoice, MemoryVars
<1>3. rows \subseteq rows' /\ unsaved \subseteq unsaved'
  BY DEF StoreQuestion, CheckSession, CheckDaily, Analyze, RecordUsage, StoreReply, CallRaises,
         DatabaseFails, NoChoice, RowVars
<1>4. /\ x.pc = "store_question" => QuestionOf(x) \in rows' \cup unsaved'
      /\ x.pc = "store_reply" => ReplyOf(x) \in rows' \cup unsaved'
  BY DEF StoreQuestion, CheckSession, CheckDaily, Analyze, RecordUsage, StoreReply, CallRaises,
         DatabaseFails, NoChoice, RowVars
<1>5. CASE Become(t, Idle)
  BY <1>1, <1>2, <1>3, <1>4, <1>5, NotAsking DEF Asking
<1>6. ASSUME NEW p \in {"check_session", "check_daily", "analyze", "ask"},
             Become(t, [x EXCEPT !.pc = p]), x.pc \in Asking
      PROVE  ContextInv'
  BY <1>2, <1>3, <1>4, <1>6, StillAsking DEF Asking
<1>7. ASSUME NEW y, Become(t, y),
             \/ y = [x EXCEPT !.pc = "remember_reply"]
             \/ y = [x EXCEPT !.pc = "remember_reply", !.tokens = 0, !.first = 0]
      PROVE  ContextInv'
  <2>1. y \in Exchanges /\ y.pc = "remember_reply"
    <3>1. "remember_reply" \in Pcs
      BY DEF Pcs
    <3>2. \A z \in Exchanges :
            /\ [z EXCEPT !.pc = "remember_reply"] \in Exchanges
            /\ [z EXCEPT !.pc = "remember_reply"].pc = "remember_reply"
            /\ [z EXCEPT !.pc = "remember_reply", !.tokens = 0, !.first = 0] \in Exchanges
            /\ [z EXCEPT !.pc = "remember_reply", !.tokens = 0, !.first = 0].pc
                  = "remember_reply"
      BY <3>1 DEF Exchanges
    <3> QED BY <1>1, <1>7, <3>2
  <2> QED BY <1>2, <1>3, <1>4, <1>7, <2>1, NotAsking DEF Asking
<1>8. \/ Become(t, Idle)
      \/ \E p \in {"check_session", "check_daily", "analyze", "ask"} :
            Become(t, [x EXCEPT !.pc = p]) /\ x.pc \in Asking
      \/ Become(t, [x EXCEPT !.pc = "remember_reply"])
      \/ Become(t, [x EXCEPT !.pc = "remember_reply", !.tokens = 0, !.first = 0])
  BY DEF StoreQuestion, CheckSession, CheckDaily, Analyze, RecordUsage, StoreReply, CallRaises,
         DatabaseFails, NoChoice, Asking
<1> QED
  BY <1>5, <1>6, <1>7, <1>8

\* The memory becomes the prompt: what it is made of holds for the prompt.
LEMMA AskContext ==
    ASSUME TypeOK, ContextInv, NEW t \in Threads, Ask(t)
    PROVE  ContextInv'
<1> DEFINE x == exchange[t]
           room == x.model \in reasoning
           y == [x EXCEPT !.pc = "call", !.prompt = memory[x.chat], !.room = room]
<1>1. x \in Exchanges /\ x.pc = "ask" /\ x.chat \in Chats /\ x.question \in Nat
  BY DEF TypeOK, Ask, Exchanges
<1>2. memory[x.chat] \in Seq(Turns)
  BY <1>1 DEF TypeOK
<1>3. room \in BOOLEAN
  OBVIOUS
<1>4. Become(t, y)
  BY DEF Ask
<1>5. /\ y \in Exchanges /\ y.pc = "call" /\ y.chat = x.chat /\ y.question = x.question
      /\ y.id = x.id /\ y.prompt = memory[x.chat]
  <2> HIDE DEF room
  <2> QED BY <1>1, <1>2, <1>3 DEF Exchanges, Pcs
<1>6. UNCHANGED <<memory, appended, forgotten, rows, unsaved>>
  BY DEF Ask, MemoryVars, RowVars
<1> HIDE DEF y
<1>7. StaysOnRecord
  BY <1>1, <1>4, <1>6, OneOnRecord
<1>8. MemoryGood(x.chat) /\ QuestionKept(x)
  BY <1>1 DEF ContextInv
<1>9. PromptGood(y)
  <2>1. \A i \in DOMAIN y.prompt :
          \/ y.prompt[i].name.exchange = 0
          \/ y.prompt[i].name.origin = y.chat /\ OnRecord(y.prompt[i].name)
    BY <1>5, <1>8 DEF MemoryGood
  <2>2. CASE /\ x.question - Gone(x.chat) \in DOMAIN memory[x.chat]
             /\ memory[x.chat][x.question - Gone(x.chat)] = QuestionTurn(x)
    BY <1>5, <2>1, <2>2 DEF PromptGood, QuestionTurn, QuestionOf
  <2>3. CASE x.question <= Gone(x.chat)
    <3>1. CASE Gone(x.chat) = forgotten[x.chat]
      BY <1>5, <2>1, <2>3, <3>1 DEF PromptGood
    <3>2. CASE Len(memory[x.chat]) = MaxTurns
      <4>1. ASSUME NEW i \in DOMAIN memory[x.chat] PROVE memory[x.chat][i].n > x.question
        <5>1. memory[x.chat][i].n = Gone(x.chat) + i /\ Gone(x.chat) \in Nat
          BY <1>8 DEF MemoryGood
        <5>2. i \in Nat /\ i > 0
          BY <1>2
        <5> QED BY <1>1, <2>3, <5>1, <5>2
      <4> QED BY <1>5, <2>1, <3>2, <4>1 DEF PromptGood
    <3> QED BY <1>8, <3>1, <3>2 DEF MemoryGood
  <2> QED BY <1>1, <1>8, <2>2, <2>3 DEF QuestionKept, Asking
<1>10. QuestionKept(y)
  BY <1>5 DEF QuestionKept, Asking
<1> QED
  BY <1>4, <1>5, <1>6, <1>7, <1>9, <1>10, ContextStays

LEMMA CallContext ==
    ASSUME TypeOK, ContextInv, NEW t \in Threads, NEW cost \in 1..MaxCost,
           Answer(t, cost) \/ Retry(t, cost) \/ EmptyAnswer(t, cost)
    PROVE  ContextInv'
<1> DEFINE x == exchange[t]
<1>1. x \in Exchanges /\ x.pc = "call"
  BY DEF TypeOK, Answer, Retry, EmptyAnswer
<1>2. UNCHANGED <<memory, appended, forgotten, rows, unsaved>>
  BY DEF Answer, Retry, EmptyAnswer, MemoryVars, RowVars
<1>3. cost \in Nat /\ x.first + cost \in Nat
  <2>1. cost \in Nat /\ x.first \in Nat
    BY <1>1, ChatAssumption DEF Exchanges
  <2> HIDE DEF x
  <2> QED BY <2>1
<1>4. ASSUME NEW p \in {"record", "record_failed"},
             Become(t, [x EXCEPT !.pc = p, !.tokens = x.first + cost])
      PROVE  ContextInv'
  <2> DEFINE y == [x EXCEPT !.pc = p, !.tokens = x.first + cost]
  <2>1. y \in Exchanges /\ y.pc = p
    <3>1. p \in Pcs
      BY DEF Pcs
    <3> HIDE DEF x
    <3> QED BY <1>1, <1>3, <3>1 DEF Exchanges
  <2>2. Become(t, y)
    BY <1>4
  <2> HIDE DEF y
  <2> QED BY <1>1, <1>2, <2>1, <2>2, NotAsking DEF Asking
<1>5. CASE Become(t, [x EXCEPT !.room = TRUE, !.first = cost])
  <2> DEFINE y == [x EXCEPT !.room = TRUE, !.first = cost]
  <2>1. /\ y \in Exchanges /\ y.pc = "call" /\ y.chat = x.chat /\ y.question = x.question
        /\ y.id = x.id /\ y.prompt = x.prompt
    <3> HIDE DEF x
    <3> QED BY <1>1, <1>3 DEF Exchanges
  <2>2. Become(t, y)
    BY <1>5
  <2> HIDE DEF y
  <2>3. StaysOnRecord
    BY <1>1, <1>2, <2>2, OneOnRecord
  <2>4. PromptGood(x)
    BY <1>1 DEF ContextInv
  <2>5. PromptGood(y)
    BY <2>1, <2>4 DEF PromptGood, QuestionTurn, QuestionOf
  <2>6. QuestionKept(y)
    BY <2>1 DEF QuestionKept, Asking
  <2> QED BY <1>2, <2>1, <2>2, <2>3, <2>5, <2>6, ContextStays
<1> QED
  BY <1>4, <1>5 DEF Answer, Retry, EmptyAnswer

\* A turn is added to chat c's memory, and the questions keep their places.
LEMMA AppendKeeps ==
    ASSUME TypeOK, ContextInv, NEW c \in Chats, NEW name \in TurnNames,
           AppendSessionMessage(c, name), StaysOnRecord, forgotten' = forgotten,
           name.exchange = 0 \/ (name.origin = c /\ OnRecord(name)')
    PROVE  /\ \A d \in Chats : MemoryGood(d)'
           /\ \A x \in Exchanges : QuestionKept(x) => QuestionKept(x)'
           /\ \A x \in Exchanges :
                 x.chat = c /\ QuestionTurn(x) = [n |-> appended[c] + 1, name |-> name]
                 => QuestionKept(x)'
<1>1. MemoryGood(c)
  BY DEF ContextInv
<1>2. MemoryGood(c)'
  BY <1>1, AppendGood
<1>0. PICK h \in Nat :
         /\ h = appended'[c] - Len(memory'[c])
         /\ h \in {Gone(c), Gone(c) + 1}
         /\ \A i \in DOMAIN memory[c] :
               \/ Gone(c) + i <= h
               \/ /\ Gone(c) + i - h \in DOMAIN memory'[c]
                  /\ memory'[c][Gone(c) + i - h] = memory[c][i]
         /\ appended[c] + 1 - h \in DOMAIN memory'[c]
         /\ memory'[c][appended[c] + 1 - h] = [n |-> appended[c] + 1, name |-> name]
  BY <1>1, AppendGood
<1>3. \A d \in Chats : d # c => memory'[d] = memory[d] /\ appended'[d] = appended[d]
  BY DEF AppendSessionMessage, TypeOK
<1>4. ASSUME NEW d \in Chats PROVE MemoryGood(d)'
  <2>1. CASE d = c
    BY <1>2, <2>1
  <2>2. CASE d # c
    <3>1. memory'[d] = memory[d] /\ Gone(d)' = Gone(d)
      BY <1>3, <2>2 DEF Gone
    <3>2. MemoryGood(d)
      BY DEF ContextInv
    <3> QED BY <3>1, <3>2 DEF MemoryGood, StaysOnRecord
  <2> QED BY <2>1, <2>2
<1>5. ASSUME NEW x \in Exchanges, QuestionKept(x), x.pc \in Asking
      PROVE  \/ x.question <= Gone(x.chat)'
             \/ /\ x.question - Gone(x.chat)' \in DOMAIN memory'[x.chat]
                /\ memory'[x.chat][x.question - Gone(x.chat)'] = QuestionTurn(x)
  <2>0. x.chat \in Chats /\ x.question \in Nat
    BY DEF Exchanges
  <2>1. CASE x.chat # c
    <3>1. memory'[x.chat] = memory[x.chat] /\ Gone(x.chat)' = Gone(x.chat)
      BY <1>3, <2>0, <2>1 DEF Gone
    <3> QED BY <1>5, <3>1 DEF QuestionKept
  <2>2. CASE x.chat = c
    <3>1. Gone(c) \in Nat /\ Gone(c) <= h
      <4>1. Gone(c) \in Nat
        BY <1>1 DEF MemoryGood
      <4> QED BY <1>0, <4>1
    <3>2. CASE x.question <= Gone(c)
      <4>1. x.question <= h
        BY <2>0, <3>1, <3>2
      <4> QED BY <1>0, <2>2, <4>1 DEF Gone
    <3>3. CASE /\ x.question - Gone(c) \in DOMAIN memory[c]
               /\ memory[c][x.question - Gone(c)] = QuestionTurn(x)
      <4>1. PICK i \in DOMAIN memory[c] : i = x.question - Gone(c)
        BY <3>3
      <4>2. Gone(c) + i = x.question /\ memory[c][i] = QuestionTurn(x)
        BY <2>0, <3>1, <3>3, <4>1
      <4>3. \/ x.question <= h
            \/ /\ x.question - h \in DOMAIN memory'[c]
               /\ memory'[c][x.question - h] = QuestionTurn(x)
        <5>1. \/ Gone(c) + i <= h
              \/ /\ Gone(c) + i - h \in DOMAIN memory'[c]
                 /\ memory'[c][Gone(c) + i - h] = memory[c][i]
          BY <1>0
        <5>2. i \in Int
          BY <2>0, <3>1, <4>1
        <5> QED BY <2>0, <3>1, <4>2, <5>1, <5>2
      <4> QED BY <1>0, <2>2, <4>3 DEF Gone
    <3> QED BY <1>5, <2>2, <3>2, <3>3 DEF QuestionKept
  <2> QED BY <2>1, <2>2
<1>6. ASSUME NEW x \in Exchanges, x.chat = c,
             QuestionTurn(x) = [n |-> appended[c] + 1, name |-> name]
      PROVE  /\ x.question - Gone(x.chat)' \in DOMAIN memory'[x.chat]
             /\ memory'[x.chat][x.question - Gone(x.chat)'] = QuestionTurn(x)
  <2>1. x.question = appended[c] + 1
    BY <1>6 DEF QuestionTurn
  <2>2. x.question - h \in DOMAIN memory'[c] /\ memory'[c][x.question - h] = QuestionTurn(x)
    <3>1. /\ appended[c] + 1 - h \in DOMAIN memory'[c]
          /\ memory'[c][appended[c] + 1 - h] = [n |-> appended[c] + 1, name |-> name]
      BY <1>0
    <3>2. appended[c] \in Nat
      BY DEF TypeOK
    <3> QED BY <1>6, <2>1, <3>1, <3>2
  <2> QED BY <1>0, <1>6, <2>2 DEF Gone
<1> QED
  BY <1>2, <1>4, <1>5, <1>6 DEF QuestionKept, QuestionTurn, QuestionOf

\* One exchange adds a turn of its own chat to the memory and goes on as x.
LEMMA AppendContext ==
    ASSUME TypeOK, ContextInv, NEW t \in Threads, NEW x \in Exchanges, Become(t, x),
           NEW name \in TurnNames, AppendSessionMessage(x.chat, name), StaysOnRecord,
           forgotten' = forgotten, name.origin = x.chat, OnRecord(name)', x.pc # "call",
           \/ x.pc \notin Asking
           \/ QuestionTurn(x) = [n |-> appended[x.chat] + 1, name |-> name]
    PROVE  ContextInv'
<1>1. \A u \in Threads : exchange'[u] = IF u = t THEN x ELSE exchange[u]
  BY DEF Become, TypeOK
<1>2. x.chat \in Chats /\ \A u \in Threads : exchange[u] \in Exchanges
  BY DEF TypeOK, Exchanges
<1>3. /\ \A d \in Chats : MemoryGood(d)'
      /\ \A y \in Exchanges : QuestionKept(y) => QuestionKept(y)'
      /\ \A y \in Exchanges :
            y.chat = x.chat /\ QuestionTurn(y) = [n |-> appended[x.chat] + 1, name |-> name]
            => QuestionKept(y)'
  BY <1>2, AppendKeeps
<1>4. QuestionKept(x)'
  BY <1>3 DEF QuestionKept
<1>5. ASSUME NEW u \in Threads PROVE QuestionKept(exchange[u])'
  <2>1. CASE u = t
    BY <1>1, <1>4, <2>1 DEF QuestionKept, QuestionTurn, QuestionOf, Gone
  <2>2. CASE u # t
    <3>1. QuestionKept(exchange[u])
      BY DEF ContextInv
    <3>2. \A y \in Exchanges : y = exchange[u] => QuestionKept(y)'
      BY <1>3, <3>1
    <3> QED BY <1>1, <1>2, <2>2, <3>2 DEF QuestionKept, QuestionTurn, QuestionOf, Gone
  <2> QED BY <2>1, <2>2
<1>6. ASSUME NEW u \in Threads, exchange'[u].pc = "call" PROVE PromptGood(exchange[u])'
  <2>1. u # t /\ exchange'[u] = exchange[u]
    BY <1>1, <1>6
  <2>2. PromptGood(exchange[u])
    BY <1>6, <2>1 DEF ContextInv
  <2> QED BY <2>1, <2>2 DEF PromptGood, StaysOnRecord, QuestionTurn, QuestionOf
<1> QED
  BY <1>3, <1>5, <1>6 DEF ContextInv

LEMMA CreateContext ==
    ASSUME TypeOK, ContextInv, NEW t \in Threads, NEW k \in Keys, NEW c \in Chats,
           NEW m \in Models, CreateMessage(t, k, c, m)
    PROVE  ContextInv'
<1>0. PICK x : x = [Idle EXCEPT !.pc = "store_question", !.id = begun + 1, !.key = k, !.chat = c,
                                !.model = m, !.question = appended[c] + 1]
  OBVIOUS
<1>1. x \in Exchanges
  <2>1. "store_question" \in Pcs /\ begun + 1 \in Nat /\ appended[c] + 1 \in Nat
    BY DEF Pcs, TypeOK
  <2> QED BY <1>0, <2>1, IdleType DEF Exchanges
<1>2. x.pc = "store_question" /\ x.chat = c /\ x.question = appended[c] + 1
  BY <1>0 DEF Idle
<1>3. /\ Become(t, x) /\ AppendSessionMessage(c, QuestionOf(x)) /\ exchange[t].pc = "idle"
      /\ UNCHANGED <<rows, unsaved, forgotten>>
  BY <1>0 DEF CreateMessage, RowVars
<1>4. QuestionOf(x) \in TurnNames /\ QuestionOf(x).origin = c
  BY <1>1, <1>2, NameTypes DEF QuestionOf
<1>5. StaysOnRecord
  BY <1>3, OneOnRecord
<1>6. OnRecord(QuestionOf(x))'
  <2>1. exchange'[t] = x
    BY <1>3 DEF Become, TypeOK
  <2> QED BY <1>2, <2>1 DEF OnRecord, QuestionOf
<1>7. QuestionTurn(x) = [n |-> appended[x.chat] + 1, name |-> QuestionOf(x)]
  BY <1>2 DEF QuestionTurn
<1> QED
  BY <1>1, <1>2, <1>3, <1>4, <1>5, <1>6, <1>7, AppendContext

LEMMA ReplyContext ==
    ASSUME TypeOK, ContextInv, NEW t \in Threads, RememberReply(t)
    PROVE  ContextInv'
<1> DEFINE x == exchange[t]
<1>0. PICK y : y = [x EXCEPT !.pc = "store_reply"]
  OBVIOUS
<1>1. x \in Exchanges /\ x.pc = "remember_reply"
  BY DEF TypeOK, RememberReply
<1>2. y \in Exchanges /\ y.pc = "store_reply" /\ y.chat = x.chat /\ y.id = x.id
  BY <1>0, <1>1 DEF Exchanges, Pcs
<1>3. /\ Become(t, y) /\ AppendSessionMessage(x.chat, ReplyOf(x))
      /\ UNCHANGED <<rows, unsaved, forgotten>>
  BY <1>0 DEF RememberReply, RowVars
<1>4. ReplyOf(x) \in TurnNames /\ ReplyOf(x).origin = y.chat /\ ReplyOf(x) = ReplyOf(y)
  BY <1>1, <1>2, NameTypes DEF ReplyOf
<1>5. StaysOnRecord
  BY <1>1, <1>3, OneOnRecord
<1>6. OnRecord(ReplyOf(y))'
  <2>1. exchange'[t] = y
    BY <1>3 DEF Become, TypeOK
  <2> QED BY <1>2, <2>1 DEF OnRecord, ReplyOf
<1>7. ReplyOf(y) \in TurnNames /\ ReplyOf(y).origin = y.chat
      /\ AppendSessionMessage(y.chat, ReplyOf(y))
  BY <1>2, <1>3, <1>4
<1> QED
  BY <1>2, <1>3, <1>5, <1>6, <1>7, AppendContext DEF Asking

\* A check-in is not of this protocol: its row is the proactive lane's.
LEMMA CheckInContext ==
    ASSUME TypeOK, ContextInv, NEW c \in Chats, CheckIn(c)
    PROVE  ContextInv'
<1> DEFINE name == [exchange |-> 0, role |-> "assistant", origin |-> "student"]
<1>1. name \in TurnNames /\ name.exchange = 0
  BY DEF TurnNames, Chats
<1>2. /\ AppendSessionMessage(c, name)
      /\ UNCHANGED <<rows, unsaved, exchange, forgotten>>
  BY DEF CheckIn, RowVars
<1> HIDE DEF name
<1>3. StaysOnRecord
  BY <1>2, RecordGrows
<1>4. /\ \A d \in Chats : MemoryGood(d)'
      /\ \A x \in Exchanges : QuestionKept(x) => QuestionKept(x)'
  BY <1>1, <1>2, <1>3, AppendKeeps
<1>5. ASSUME NEW u \in Threads PROVE QuestionKept(exchange[u])'
  <2>1. exchange[u] \in Exchanges /\ QuestionKept(exchange[u])
    BY DEF ContextInv, TypeOK
  <2>2. \A y \in Exchanges : y = exchange[u] => QuestionKept(y)'
    BY <1>4, <2>1
  <2> QED BY <1>2, <2>1, <2>2 DEF QuestionKept, QuestionTurn, QuestionOf, Gone
<1>6. ASSUME NEW u \in Threads, exchange'[u].pc = "call" PROVE PromptGood(exchange[u])'
  <2>1. PromptGood(exchange[u])
    BY <1>2, <1>6 DEF ContextInv
  <2> QED BY <1>2, <1>3, <2>1 DEF PromptGood, StaysOnRecord, QuestionTurn, QuestionOf
<1> QED
  BY <1>4, <1>5, <1>6 DEF ContextInv

\* The memory is gone, and what was about to be written is given up.
LEMMA RestartContext ==
    ASSUME TypeOK, ContextInv, Restart
    PROVE  ContextInv'
<1>1. /\ memory' = [c \in Chats |-> <<>>] /\ forgotten' = appended /\ appended' = appended
      /\ \A t \in Threads : exchange'[t] = IF exchange[t].pc = "check_session" THEN exchange[t]
                                          ELSE Idle
  BY DEF Restart
<1>2. appended \in [Chats -> Nat]
  BY DEF TypeOK
<1>3. ASSUME NEW c \in Chats PROVE MemoryGood(c)' /\ Gone(c)' = appended[c]
  <2>1. memory'[c] = <<>> /\ Len(memory'[c]) = 0 /\ DOMAIN memory'[c] = {}
    BY <1>1
  <2>2. Gone(c)' = appended[c]
    BY <1>1, <1>2, <2>1 DEF Gone
  <2> QED BY <1>1, <1>2, <2>1, <2>2 DEF MemoryGood
<1>4. ASSUME NEW t \in Threads PROVE QuestionKept(exchange[t])'
  <2>1. CASE exchange[t].pc = "check_session"
    <3> DEFINE x == exchange[t]
    <3>1. x.chat \in Chats /\ x.question \in Nat /\ exchange'[t] = x
      BY <1>1, <2>1 DEF TypeOK, Exchanges
    <3>2. MemoryGood(x.chat) /\ QuestionKept(x)
      BY <3>1 DEF ContextInv
    <3>3. memory[x.chat] \in Seq(Turns) /\ appended[x.chat] \in Nat
      BY <3>1 DEF TypeOK
    <3> HIDE DEF x
    <3>4. \/ x.question <= Gone(x.chat)
          \/ x.question - Gone(x.chat) \in DOMAIN memory[x.chat]
      BY <2>1, <3>2 DEF QuestionKept, Asking, x
    <3>5. x.question <= appended[x.chat]
      BY <3>1, <3>3, <3>4 DEF Gone
    <3>6. appended'[x.chat] - Len(memory'[x.chat]) = appended[x.chat]
      BY <1>1, <3>1, <3>3
    <3> QED BY <3>1, <3>5, <3>6 DEF QuestionKept, Gone
  <2>2. CASE exchange[t].pc # "check_session"
    BY <1>1, <2>2 DEF QuestionKept, Asking, Idle
  <2> QED BY <2>1, <2>2
<1>5. \A t \in Threads : exchange'[t].pc # "call"
  BY <1>1 DEF Idle
<1> QED
  BY <1>3, <1>4, <1>5 DEF ContextInv

LEMMA NextContext ==
    ASSUME TypeOK, ContextInv, [Next]_vars
    PROVE  ContextInv'
<1>1. CASE UNCHANGED vars
  BY <1>1 DEF vars, ContextInv, MemoryGood, Gone, QuestionKept, PromptGood, QuestionTurn,
              QuestionOf, ReplyOf, OnRecord
<1>2. CASE UsageLapses
  BY <1>2 DEF UsageLapses, MemoryVars, RowVars, ContextInv, MemoryGood, Gone, QuestionKept,
              PromptGood, QuestionTurn, QuestionOf, ReplyOf, OnRecord
<1> QED
  BY <1>1, <1>2, SimpleContext, AskContext, CallContext, CreateContext, ReplyContext,
     CheckInContext, RestartContext DEF Next, Advance

---------------------------------------------------------------------------
(* The theorems. *)

ChatInv == TypeOK /\ BudgetInv /\ AccountInv /\ ContextInv

LEMMA Invariance == Spec => []ChatInv
<1>1. Init => ChatInv
  BY InitType, InitBudget, InitAccount, InitContext DEF ChatInv
<1>2. ChatInv /\ [Next]_vars => ChatInv'
  BY NextType, NextBudget, NextAccount, NextContext DEF ChatInv
<1> QED
  BY <1>1, <1>2, PTL DEF Spec

\* The variables keep their types, and no memory grows past its limit.
THEOREM TypeCorrect == Spec => []TypeOK
<1>1. ChatInv => TypeOK
  BY DEF ChatInv
<1> QED
  BY <1>1, Invariance, PTL

\* Neither budget is overrun by more than two completions for each thread.
THEOREM BudgetOverrun == Spec => []OverspendBounded
<1>1. ChatInv => OverspendBounded
  BY BudgetHolds DEF ChatInv
<1> QED
  BY <1>1, Invariance, PTL

\* Whatever the gateway has reported for a key is recorded, or held by the
\* exchanges under way, unless a failure named in blame lost some of it.
THEOREM TokensKept == Spec => []TokensAccounted
<1>1. ChatInv => TokensAccounted
  BY DEF ChatInv, AccountInv
<1> QED
  BY <1>1, Invariance, PTL

\* A prompt is made of turns of its own chat that the transcript has or is about
\* to get, and of check-ins; the question is among them or was crowded out.
THEOREM PromptFromTranscript == Spec => []PromptContext
<1>1. ChatInv => PromptContext
  BY DEF ChatInv, ContextInv, PromptGood, PromptContext, QuestionTurn
<1> QED
  BY <1>1, Invariance, PTL

=============================================================================

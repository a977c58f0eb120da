-------------------------- MODULE EventStreamProofs --------------------------
(***************************************************************************)
(* The stream's revision gate is sound and its events come in order, for   *)
(* any number of students, streams and concurrent inserts.                 *)
(***************************************************************************)
EXTENDS EventStream, TLAPS

---------------------------------------------------------------------------
(* Type correctness. *)

LEMMA IdsAreNat == TypeOK => \A s : IdsFor(s) \subseteq Nat
BY DEF TypeOK, Messages, IdsFor

LEMMA JoinedType == \A i \in Nat : Joined(i) \in Events /\ Joined(i).id = i
<1> SUFFICES ASSUME NEW i \in Nat PROVE Joined(i) \in Events /\ Joined(i).id = i
  OBVIOUS
<1>1. CASE i \in linked
  <2>1. (i \in linked) = TRUE
    BY <1>1
  <2>2. Joined(i) = [id |-> i, trigger |-> TRUE]
    BY <2>1, Zenon DEF Joined
  <2> QED BY <2>2 DEF Events
<1>2. CASE i \notin linked
  <2>1. (i \in linked) = FALSE
    BY <1>2
  <2>2. Joined(i) = [id |-> i, trigger |-> FALSE]
    BY <2>1, Zenon DEF Joined
  <2> QED BY <2>2 DEF Events
<1> QED BY <1>1, <1>2

LEMMA ClosedType == Closed \in StreamStates /\ NoInsert \in InsertStates
BY DEF Closed, StreamStates, StreamPcs, NoInsert, InsertStates, InsertPcs

\* The variables keep their types: an insert and a stream are always in one of
\* their stages, and every id and revision is a number.
LEMMA TypeStep == TypeOK /\ [Next]_vars => TypeOK'
<1> SUFFICES ASSUME TypeOK, [Next]_vars PROVE TypeOK'
  OBVIOUS
<1> USE StreamAssumption, ClosedType
<1>1. ASSUME NEW w \in Inserters, NEW i \in InsertStates, Inserting(w, i),
             i.pc # "idle" => i.student \in Students
      PROVE  /\ insert' \in [Inserters -> InsertStates]
             /\ \A v \in Inserters : insert'[v].pc # "idle" => insert'[v].student \in Students
  BY <1>1 DEF Inserting, TypeOK
<1>2. ASSUME NEW c \in Streams, NEW t \in StreamStates, Streaming(c, t)
      PROVE  stream' \in [Streams -> StreamStates]
  BY <1>2 DEF Streaming, TypeOK
<1>3. (\A w \in Inserters : insert[w] \in InsertStates)
      /\ (\A c \in Streams : stream[c] \in StreamStates)
  BY DEF TypeOK
<1>4. ASSUME NEW w \in Inserters, NEW s \in Students, BeginInsert(w, s) PROVE TypeOK'
  <2> DEFINE i == [pc |-> "insert", id |-> nextId + 1, student |-> s]
  <2>1. i \in InsertStates /\ i.student \in Students
    BY DEF InsertStates, InsertPcs, TypeOK
  <2> QED BY <1>1, <1>4, <2>1 DEF BeginInsert, TypeOK
<1>5. ASSUME NEW w \in Inserters, BumpRev(w) PROVE TypeOK'
  <2> DEFINE i == [insert[w] EXCEPT !.pc = "locked"]
  <2>1. i \in InsertStates /\ i.student = insert[w].student
    BY <1>3 DEF InsertStates, InsertPcs
  <2> QED BY <1>1, <1>5, <2>1 DEF BumpRev, TypeOK
<1>6. ASSUME NEW w \in Inserters, Commit(w) PROVE TypeOK'
  <2> DEFINE i == [insert[w] EXCEPT !.pc = "mark"]
  <2>1. i \in InsertStates /\ i.student = insert[w].student /\ insert[w].id \in Nat
    BY <1>3 DEF InsertStates, InsertPcs
  <2>2. messages' \subseteq Messages
    BY <1>6, <2>1 DEF Commit, Messages, TypeOK
  <2>3. excused' \in [Streams -> SUBSET Nat]
    BY <1>6, <2>1 DEF Commit, TypeOK
  <2>4. rev' \in Nat /\ locker' \in Inserters \cup {Nobody}
    BY <1>6 DEF Commit, TypeOK
  <2>5. Inserting(w, i) /\ i.pc # "idle" => i.student \in Students
    BY <1>6, <2>1 DEF Commit, TypeOK
  <2>6. UNCHANGED <<nextId, linked, stream, sent, faults>> /\ Inserting(w, i)
    BY <1>6 DEF Commit
  <2> HIDE DEF i
  <2>7. /\ insert' \in [Inserters -> InsertStates]
        /\ \A v \in Inserters : insert'[v].pc # "idle" => insert'[v].student \in Students
    BY <1>1, <2>1, <2>5, <2>6
  <2> QED BY <2>2, <2>3, <2>4, <2>6, <2>7 DEF TypeOK
<1>7. ASSUME NEW w \in Inserters, MarkActed(w) PROVE TypeOK'
  <2>1. insert[w].id \in Nat /\ NoInsert.pc = "idle"
    BY <1>3 DEF InsertStates, NoInsert
  <2> QED BY <1>1, <1>7, <2>1 DEF MarkActed, TypeOK
<1>8. ASSUME NEW w \in Inserters, AbortInsert(w) PROVE TypeOK'
  <2>1. NoInsert.pc = "idle"
    BY DEF NoInsert
  <2> QED BY <1>1, <1>8, <2>1 DEF AbortInsert, TypeOK
<1>9. ASSUME NEW c \in Streams, Open(c) PROVE TypeOK'
  <2> PICK n \in IdsFor(Owner[c]) \cup {0} :
             Streaming(c, [Closed EXCEPT !.pc = "opening", !.base = n, !.lastId = n])
    BY <1>9 DEF Open
  <2>1. [Closed EXCEPT !.pc = "opening", !.base = n, !.lastId = n] \in StreamStates
    BY IdsAreNat DEF Closed, StreamStates, StreamPcs
  <2> QED BY <1>2, <1>9, <2>1 DEF Open, TypeOK
<1>10. ASSUME NEW c \in Streams, ReadFirstRev(c) PROVE TypeOK'
  <2>1. [stream[c] EXCEPT !.pc = "gate", !.lastRev = rev] \in StreamStates
    BY <1>3 DEF StreamStates, StreamPcs, TypeOK
  <2> QED BY <1>2, <1>10, <2>1 DEF ReadFirstRev, TypeOK
<1>11. ASSUME NEW c \in Streams, PassGate(c) PROVE TypeOK'
  <2>1. [stream[c] EXCEPT !.pc = "fetch", !.lastRev = rev] \in StreamStates
    BY <1>3 DEF StreamStates, StreamPcs, TypeOK
  <2>2. stream' \in [Streams -> StreamStates]
    BY <1>2, <1>11, <2>1 DEF PassGate
  <2> QED BY <1>11, <2>2 DEF PassGate, TypeOK
<1>12. ASSUME NEW c \in Streams, Fetch(c) PROVE TypeOK'
  <2> DEFINE B == {Joined(i) : i \in {j \in IdsFor(Owner[c]) : j > stream[c].lastId}}
  <2>1. B \subseteq Events
    BY IdsAreNat, JoinedType
  <2>2. [stream[c] EXCEPT !.pc = "emit", !.batch = B] \in StreamStates
    BY <1>3, <2>1 DEF StreamStates, StreamPcs
  <2> QED BY <1>2, <1>12, <2>2 DEF Fetch, TypeOK
<1>13. ASSUME NEW c \in Streams, Emit(c) PROVE TypeOK'
  <2> PICK e \in stream[c].batch :
         /\ Streaming(c, [stream[c] EXCEPT !.lastId = e.id,
                                           !.batch = stream[c].batch \ {e}])
         /\ sent' = [sent EXCEPT ![c] = Append(sent[c], e)]
    BY <1>13 DEF Emit
  <2>1. e \in Events /\ e.id \in Nat
    BY <1>3 DEF StreamStates, Events
  <2>2. [stream[c] EXCEPT !.lastId = e.id, !.batch = stream[c].batch \ {e}] \in StreamStates
    BY <1>3, <2>1 DEF StreamStates
  <2>3. sent' \in [Streams -> Seq(Events)]
    BY <2>1 DEF TypeOK
  <2> QED BY <1>2, <1>13, <2>2, <2>3 DEF Emit, TypeOK
<1>14. ASSUME NEW c \in Streams, EndBatch(c) PROVE TypeOK'
  <2>1. [stream[c] EXCEPT !.pc = "gate"] \in StreamStates
    BY <1>3 DEF StreamStates, StreamPcs
  <2> QED BY <1>2, <1>14, <2>1 DEF EndBatch, TypeOK
<1>15. ASSUME NEW c \in Streams, Disconnect(c) PROVE TypeOK'
  BY <1>2, <1>15 DEF Disconnect, TypeOK
<1>16. CASE UNCHANGED vars
  BY <1>16 DEF vars, TypeOK
<1> QED
  BY <1>4, <1>5, <1>6, <1>7, <1>8, <1>9, <1>10, <1>11, <1>12, <1>13, <1>14, <1>15, <1>16
     DEF Next, Insert, Loop

\* The variables keep their types.
THEOREM TypeCorrect == Spec => []TypeOK
<1>1. Init => TypeOK
  BY StreamAssumption, ClosedType DEF Init, TypeOK, NoInsert
<1> QED
  BY <1>1, TypeStep, PTL DEF Spec

---------------------------------------------------------------------------
(* The inductive invariant of one connection.                              *)

InBatch(c, i) == \E e \in stream[c].batch : e.id = i

\* What c has sent is ordered, and was committed for its student; an open
\* stream is past all of it.
SentOK(c) ==
    /\ \A j, k \in DOMAIN sent[c] : j < k => sent[c][j].id < sent[c][k].id
    /\ SentIds(c) \subseteq IdsFor(Owner[c])
    /\ stream[c].pc # "closed" => \A i \in SentIds(c) : i <= stream[c].lastId

\* The rows c holds are committed, past its last id and one per id; it holds none
\* outside the inner loop.
BatchOK(c) ==
    /\ \A e \in stream[c].batch : e.id \in IdsFor(Owner[c]) /\ e.id > stream[c].lastId
    /\ \A d, e \in stream[c].batch : d.id = e.id => d = e
    /\ stream[c].pc # "emit" => stream[c].batch = {}

\* GateSound for c, with the stronger claim for what c has yet to fetch that it
\* lies beyond everything c holds.
GateOK(c) ==
    /\ stream[c].lastRev <= rev
    /\ stream[c].pc = "opening" => Due(c) = {}
    /\ Live(c) =>
          \A i \in Due(c) :
              \/ i \in SentIds(c)
              \/ InBatch(c, i)
              \/ /\ ~ Passed(c, i)
                 /\ RevRow => stream[c].pc = "fetch" \/ rev # stream[c].lastRev

ConnOK(c) == SentOK(c) /\ BatchOK(c) /\ GateOK(c)

StreamInv == TypeOK /\ \A c \in Streams : ConnOK(c)

\* A connection's invariant is about its own variables, the rows and the
\* revision.
LEMMA ConnKept ==
    ASSUME NEW c \in Streams, ConnOK(c),
           UNCHANGED <<messages, rev, stream[c], sent[c], excused[c]>>
    PROVE  ConnOK(c)'
<1>1. /\ SentIds(c)' = SentIds(c)
      /\ IdsFor(Owner[c])' = IdsFor(Owner[c])
      /\ \A i : InBatch(c, i)' <=> InBatch(c, i)
      /\ \A i : Passed(c, i)' <=> Passed(c, i)
      /\ Live(c)' <=> Live(c)
  BY DEF SentIds, IdsFor, InBatch, Passed, Live
<1>2. Due(c)' = Due(c)
  BY <1>1 DEF Due
<1>3. SentOK(c)' /\ BatchOK(c)'
  BY <1>1 DEF ConnOK, SentOK, BatchOK
<1>4. GateOK(c)'
  BY <1>1, <1>2 DEF ConnOK, GateOK
<1> QED BY <1>3, <1>4 DEF ConnOK

\* A step of stream c that is about no other stream.
LEMMA OneStream ==
    ASSUME StreamInv, TypeOK', NEW c \in Streams, NEW t, Streaming(c, t),
           UNCHANGED <<messages, rev>>,
           \A d \in Streams \ {c} : UNCHANGED <<sent[d], excused[d]>>,
           ConnOK(c)'
    PROVE  StreamInv'
<1>1. \A d \in Streams \ {c} : stream'[d] = stream[d]
  BY DEF Streaming, StreamInv, TypeOK
<1>2. ASSUME NEW d \in Streams, d # c PROVE ConnOK(d)'
  BY <1>1, <1>2, ConnKept DEF StreamInv
<1> QED BY <1>2 DEF StreamInv

LEMMA CommitStep ==
    ASSUME StreamInv, TypeOK', NEW w \in Inserters, Commit(w)
    PROVE  StreamInv'
<1> DEFINE n == insert[w].id
<1>1. /\ n \in Nat
      /\ messages' = messages \cup {[id |-> n, student |-> insert[w].student]}
      /\ UNCHANGED <<stream, sent>>
      /\ rev \in Nat
      /\ RevRow => rev' = rev + 1
      /\ ~ RevRow => rev' = rev
  BY DEF Commit, StreamInv, TypeOK, InsertStates
<1>2. \A s : IdsFor(s) \subseteq IdsFor(s)' /\ IdsFor(s)' \subseteq IdsFor(s) \cup {n}
  BY <1>1 DEF IdsFor
<1>3. ASSUME NEW c \in Streams
      PROVE  /\ stream[c].pc = "opening" \/ Passed(c, n) =>
                   excused'[c] = excused[c] \cup {n}
             /\ ~ (stream[c].pc = "opening" \/ Passed(c, n)) => excused'[c] = excused[c]
  BY DEF Commit
<1> SUFFICES ASSUME NEW c \in Streams PROVE ConnOK(c)'
  BY DEF StreamInv
<1>4. ConnOK(c) /\ stream[c].lastRev \in Nat
  BY DEF StreamInv, TypeOK, StreamStates
<1>5. SentIds(c)' = SentIds(c) /\ \A i : InBatch(c, i)' <=> InBatch(c, i)
  BY <1>1 DEF SentIds, InBatch
<1>6. SentOK(c)' /\ BatchOK(c)'
  BY <1>1, <1>2, <1>4, <1>5 DEF ConnOK, SentOK, BatchOK
<1>7. \A i : Passed(c, i)' <=> Passed(c, i)
  BY <1>1 DEF Passed
<1>8. \A i \in Due(c)' : \/ i \in Due(c)
                         \/ i = n /\ stream[c].pc # "opening" /\ ~ Passed(c, n)
  BY <1>1, <1>2, <1>3 DEF Due
<1>9. GateOK(c)'
  <2>1. stream'[c].lastRev <= rev'
    BY <1>1, <1>4 DEF ConnOK, GateOK
  <2>2. stream'[c].pc = "opening" => Due(c)' = {}
    BY <1>1, <1>4, <1>8 DEF ConnOK, GateOK
  <2>3. ASSUME Live(c)', NEW i \in Due(c)', i \notin SentIds(c), ~ InBatch(c, i)
        PROVE  ~ Passed(c, i) /\ (RevRow => rev' # stream[c].lastRev)
    <3>1. Live(c)
      BY <1>1, <2>3 DEF Live
    <3>2. ~ Passed(c, i)
      BY <1>4, <1>8, <2>3, <3>1 DEF ConnOK, GateOK
    <3>3. RevRow => rev' # stream[c].lastRev
      BY <1>1, <1>4, <2>3 DEF ConnOK, GateOK
    <3> QED BY <3>2, <3>3
  <2> QED BY <1>1, <1>5, <1>7, <2>1, <2>2, <2>3 DEF GateOK
<1> QED BY <1>6, <1>9 DEF ConnOK

\* A step of c's loop that sends nothing keeps what c has sent and has to send.
LEMMA QuietStream ==
    ASSUME StreamInv, TypeOK', NEW c \in Streams, NEW t \in StreamStates, Streaming(c, t),
           UNCHANGED <<messages, rev, sent, excused>>,
           t.base = stream[c].base
    PROVE  /\ stream'[c] = t
           /\ SentIds(c)' = SentIds(c)
           /\ \A s : IdsFor(s)' = IdsFor(s)
           /\ Due(c)' = Due(c)
           /\ IdsFor(Owner[c]) \subseteq Nat
BY IdsAreNat DEF StreamInv, TypeOK, Streaming, SentIds, IdsFor, Due

LEMMA OpenStep ==
    ASSUME StreamInv, TypeOK', NEW c \in Streams, Open(c)
    PROVE  StreamInv'
<1> PICK n \in IdsFor(Owner[c]) \cup {0} :
      /\ IsLatestId(n, IdsFor(Owner[c]))
      /\ Streaming(c, [Closed EXCEPT !.pc = "opening", !.base = n, !.lastId = n])
  BY DEF Open
<1> DEFINE t == [Closed EXCEPT !.pc = "opening", !.base = n, !.lastId = n]
<1>1. /\ stream'[c] = t /\ UNCHANGED <<messages, rev, sent, excused>>
      /\ rev \in Nat /\ IdsFor(Owner[c]) \subseteq Nat /\ n \in Nat
  BY IdsAreNat DEF Open, Streaming, StreamInv, TypeOK
<1>2. t.pc = "opening" /\ t.base = n /\ t.lastId = n /\ t.batch = {} /\ t.lastRev = 0
  BY DEF Closed
<1>3. Streaming(c, t)
  OBVIOUS
<1> HIDE DEF t
<1>4. SentIds(c)' = SentIds(c) /\ IdsFor(Owner[c])' = IdsFor(Owner[c])
  BY <1>1 DEF SentIds, IdsFor
<1>5. SentOK(c)' /\ BatchOK(c)'
  BY <1>1, <1>2, <1>4 DEF StreamInv, ConnOK, SentOK, BatchOK, IsLatestId
<1>6. Due(c)' = {}
  BY <1>1, <1>2, <1>4 DEF Due, IsLatestId
<1>7. GateOK(c)'
  BY <1>1, <1>2, <1>6 DEF GateOK, Live
<1> QED BY <1>1, <1>3, <1>5, <1>7, OneStream DEF ConnOK

LEMMA FirstRevStep ==
    ASSUME StreamInv, TypeOK', NEW c \in Streams, ReadFirstRev(c)
    PROVE  StreamInv'
<1> DEFINE t == [stream[c] EXCEPT !.pc = "gate", !.lastRev = rev]
<1>1. /\ Streaming(c, t) /\ UNCHANGED <<messages, rev, sent, excused>>
      /\ stream[c].pc = "opening" /\ rev \in Nat /\ stream[c] \in StreamStates
  BY DEF ReadFirstRev, StreamInv, TypeOK
<1>2. /\ t \in StreamStates /\ t.pc = "gate" /\ t.lastRev = rev
      /\ t.base = stream[c].base /\ t.lastId = stream[c].lastId /\ t.batch = stream[c].batch
  BY <1>1 DEF StreamStates, StreamPcs
<1> HIDE DEF t
<1>3. /\ stream'[c] = t /\ SentIds(c)' = SentIds(c)
      /\ IdsFor(Owner[c])' = IdsFor(Owner[c]) /\ Due(c)' = Due(c)
  BY <1>1, <1>2, QuietStream
<1>4. SentOK(c)' /\ BatchOK(c)'
  BY <1>1, <1>2, <1>3 DEF StreamInv, ConnOK, SentOK, BatchOK
<1>5. GateOK(c)'
  BY <1>1, <1>2, <1>3 DEF StreamInv, ConnOK, GateOK
<1> QED BY <1>1, <1>4, <1>5, OneStream DEF ConnOK

LEMMA GateStep ==
    ASSUME StreamInv, TypeOK', NEW c \in Streams, PassGate(c)
    PROVE  StreamInv'
<1> DEFINE t == [stream[c] EXCEPT !.pc = "fetch", !.lastRev = rev]
<1>1. /\ Streaming(c, t) /\ UNCHANGED <<messages, rev, sent, excused>>
      /\ stream[c].pc = "gate" /\ rev \in Nat /\ stream[c] \in StreamStates
  BY DEF PassGate, StreamInv, TypeOK
<1>2. /\ t \in StreamStates /\ t.pc = "fetch" /\ t.lastRev = rev
      /\ t.base = stream[c].base /\ t.lastId = stream[c].lastId /\ t.batch = stream[c].batch
  BY <1>1 DEF StreamStates, StreamPcs
<1> HIDE DEF t
<1>3. /\ stream'[c] = t /\ SentIds(c)' = SentIds(c)
      /\ IdsFor(Owner[c])' = IdsFor(Owner[c]) /\ Due(c)' = Due(c)
  BY <1>1, <1>2, QuietStream
<1>4. SentOK(c)' /\ BatchOK(c)'
  BY <1>1, <1>2, <1>3 DEF StreamInv, ConnOK, SentOK, BatchOK
<1>5. GateOK(c)'
  BY <1>1, <1>2, <1>3 DEF StreamInv, ConnOK, GateOK, Live, InBatch, Passed
<1> QED BY <1>1, <1>4, <1>5, OneStream DEF ConnOK

LEMMA FetchStep ==
    ASSUME StreamInv, TypeOK', NEW c \in Streams, Fetch(c)
    PROVE  StreamInv'
<1> DEFINE J == {j \in IdsFor(Owner[c]) : j > stream[c].lastId}
           B == {Joined(i) : i \in J}
           t == [stream[c] EXCEPT !.pc = "emit", !.batch = B]
<1>1. /\ Streaming(c, t) /\ UNCHANGED <<messages, rev, sent, excused>>
      /\ stream[c].pc = "fetch" /\ rev \in Nat /\ stream[c] \in StreamStates
      /\ J \subseteq Nat
  BY IdsAreNat DEF Fetch, StreamInv, TypeOK
<1>2. B \subseteq Events /\ \A i \in J : Joined(i) \in B /\ Joined(i).id = i
  BY <1>1, JoinedType
<1>3. /\ \A e \in B : e.id \in J
      /\ \A d, e \in B : d.id = e.id => d = e
  BY <1>1, JoinedType
<1> HIDE DEF B
<1>4. /\ t \in StreamStates /\ t.pc = "emit" /\ t.lastRev = stream[c].lastRev
      /\ t.base = stream[c].base /\ t.lastId = stream[c].lastId /\ t.batch = B
  BY <1>1, <1>2 DEF StreamStates, StreamPcs
<1> HIDE DEF t
<1>5. /\ stream'[c] = t /\ SentIds(c)' = SentIds(c)
      /\ IdsFor(Owner[c])' = IdsFor(Owner[c]) /\ Due(c)' = Due(c)
  BY <1>1, <1>4, QuietStream
<1>6. ConnOK(c)
  BY DEF StreamInv
<1>7. SentOK(c)' /\ BatchOK(c)'
  BY <1>1, <1>3, <1>4, <1>5, <1>6 DEF ConnOK, SentOK, BatchOK
<1>8. \A i \in Due(c) : i \in SentIds(c) \/ (\E e \in B : e.id = i)
  <2> SUFFICES ASSUME NEW i \in Due(c), i \notin SentIds(c)
               PROVE  \E e \in B : e.id = i
    OBVIOUS
  <2>1. ~ Passed(c, i)
    BY <1>1, <1>6 DEF ConnOK, GateOK, BatchOK, Live, InBatch
  <2>2. i \in IdsFor(Owner[c]) /\ i \in Nat /\ stream[c].lastId \in Nat
    BY <1>1, IdsAreNat DEF Due, StreamInv, StreamStates
  <2>3. i \in J
    BY <2>1, <2>2 DEF Passed
  <2> QED BY <1>2, <2>3
<1>9. GateOK(c)'
  BY <1>1, <1>4, <1>5, <1>6, <1>8 DEF ConnOK, GateOK, InBatch
<1> QED BY <1>1, <1>7, <1>9, OneStream DEF ConnOK

LEMMA EmitStep ==
    ASSUME StreamInv, TypeOK', NEW c \in Streams, Emit(c)
    PROVE  StreamInv'
<1> PICK e \in stream[c].batch :
      /\ \A d \in stream[c].batch : e.id <= d.id
      /\ Streaming(c, [stream[c] EXCEPT !.lastId = e.id,
                                        !.batch = stream[c].batch \ {e}])
      /\ sent' = [sent EXCEPT ![c] = Append(sent[c], e)]
  BY DEF Emit
<1> DEFINE t == [stream[c] EXCEPT !.lastId = e.id, !.batch = stream[c].batch \ {e}]
<1>1. /\ Streaming(c, t) /\ UNCHANGED <<messages, rev, excused>>
      /\ stream[c].pc = "emit" /\ rev \in Nat /\ stream[c] \in StreamStates
      /\ sent[c] \in Seq(Events)
  BY DEF Emit, StreamInv, TypeOK
<1>2. e \in Events /\ e.id \in Nat /\ stream[c].batch \subseteq Events
  BY <1>1 DEF StreamStates, Events
<1>3. /\ stream'[c] = t /\ sent'[c] = Append(sent[c], e)
      /\ \A d \in Streams \ {c} : sent'[d] = sent[d]
  BY DEF Streaming, StreamInv, TypeOK
<1>4. /\ t.pc = "emit" /\ t.lastRev = stream[c].lastRev /\ t.base = stream[c].base
      /\ t.lastId = e.id /\ t.batch = stream[c].batch \ {e}
  BY <1>1 DEF StreamStates
<1> HIDE DEF t
<1>5. ConnOK(c)
  BY DEF StreamInv
<1>6. /\ DOMAIN sent'[c] = 1 .. Len(sent[c]) + 1 /\ DOMAIN sent[c] = 1 .. Len(sent[c])
      /\ \A k \in 1 .. Len(sent[c]) : sent'[c][k] = sent[c][k]
      /\ sent'[c][Len(sent[c]) + 1] = e
      /\ Len(sent[c]) \in Nat
  BY <1>1, <1>2, <1>3
<1>7. SentIds(c)' = SentIds(c) \cup {e.id}
  BY <1>6 DEF SentIds
<1>8. IdsFor(Owner[c])' = IdsFor(Owner[c]) /\ Due(c)' = Due(c)
  BY <1>1, <1>3, <1>4 DEF IdsFor, Due
<1>9. /\ e.id \in IdsFor(Owner[c]) /\ e.id > stream[c].lastId
      /\ \A i \in SentIds(c) : i <= stream[c].lastId
      /\ SentIds(c) \subseteq IdsFor(Owner[c]) /\ IdsFor(Owner[c]) \subseteq Nat
      /\ stream[c].lastId \in Nat
  BY <1>1, <1>5, IdsAreNat DEF ConnOK, SentOK, BatchOK, StreamInv, StreamStates
<1>10. SentOK(c)'
  <2>1. ASSUME NEW j \in DOMAIN sent'[c], NEW k \in DOMAIN sent'[c], j < k
        PROVE  sent'[c][j].id < sent'[c][k].id
    <3>1. j \in DOMAIN sent[c]
      BY <1>6, <2>1
    <3>2. CASE k \in DOMAIN sent[c]
      BY <1>5, <1>6, <2>1, <3>1, <3>2 DEF ConnOK, SentOK
    <3>3. CASE k \notin DOMAIN sent[c]
      <4>1. sent'[c][k] = e
        BY <1>6, <3>3
      <4>2. sent[c][j].id \in SentIds(c)
        BY <3>1 DEF SentIds
      <4> QED BY <1>6, <1>9, <1>2, <3>1, <4>1, <4>2
    <3> QED BY <3>2, <3>3
  <2>2. SentIds(c)' \subseteq IdsFor(Owner[c])'
    BY <1>7, <1>8, <1>9
  <2>3. \A i \in SentIds(c)' : i <= e.id
    BY <1>2, <1>7, <1>9
  <2> QED BY <1>3, <1>4, <2>1, <2>2, <2>3 DEF SentOK
<1>11. BatchOK(c)'
  <2>1. ASSUME NEW d \in stream[c].batch, d # e PROVE d.id > e.id
    <3>1. e.id <= d.id /\ d.id \in Nat
      BY <1>2, <2>1 DEF Events
    <3>2. d.id # e.id
      BY <1>5, <2>1 DEF ConnOK, BatchOK
    <3> QED BY <1>2, <3>1, <3>2
  <2> QED BY <1>3, <1>4, <1>5, <1>8, <2>1 DEF ConnOK, BatchOK
<1>12. GateOK(c)'
  <2>1. ASSUME NEW i \in Due(c), i \notin SentIds(c)', ~ InBatch(c, i)'
        PROVE  ~ Passed(c, i)' /\ (RevRow => rev # stream[c].lastRev)
    <3>1. ~ InBatch(c, i) /\ i \notin SentIds(c)
      BY <1>3, <1>4, <1>7, <2>1 DEF InBatch
    <3>2. ~ Passed(c, i) /\ (RevRow => rev # stream[c].lastRev)
      BY <1>1, <1>5, <2>1, <3>1 DEF ConnOK, GateOK, Live
    <3>3. ~ Passed(c, i)'
      BY <1>3, <1>4, <3>2 DEF Passed
    <3> QED BY <3>2, <3>3
  <2> QED BY <1>1, <1>3, <1>4, <1>5, <1>8, <2>1 DEF ConnOK, GateOK
<1> QED BY <1>1, <1>3, <1>10, <1>11, <1>12, OneStream DEF ConnOK

LEMMA EndBatchStep ==
    ASSUME StreamInv, TypeOK', NEW c \in Streams, EndBatch(c)
    PROVE  StreamInv'
<1> DEFINE t == [stream[c] EXCEPT !.pc = "gate"]
<1>1. /\ Streaming(c, t) /\ UNCHANGED <<messages, rev, sent, excused>>
      /\ stream[c].pc = "emit" /\ stream[c].batch = {} /\ stream[c] \in StreamStates
  BY DEF EndBatch, StreamInv, TypeOK
<1>2. /\ t \in StreamStates /\ t.pc = "gate" /\ t.lastRev = stream[c].lastRev
      /\ t.base = stream[c].base /\ t.lastId = stream[c].lastId /\ t.batch = stream[c].batch
  BY <1>1 DEF StreamStates, StreamPcs
<1> HIDE DEF t
<1>3. /\ stream'[c] = t /\ SentIds(c)' = SentIds(c)
      /\ IdsFor(Owner[c])' = IdsFor(Owner[c]) /\ Due(c)' = Due(c)
  BY <1>1, <1>2, QuietStream
<1>4. SentOK(c)' /\ BatchOK(c)'
  BY <1>1, <1>2, <1>3 DEF StreamInv, ConnOK, SentOK, BatchOK
<1>5. GateOK(c)'
  BY <1>1, <1>2, <1>3 DEF StreamInv, ConnOK, GateOK, Live, InBatch, Passed
<1> QED BY <1>1, <1>4, <1>5, OneStream DEF ConnOK

LEMMA DisconnectStep ==
    ASSUME StreamInv, TypeOK', NEW c \in Streams, Disconnect(c)
    PROVE  StreamInv'
<1>1. /\ Streaming(c, Closed) /\ UNCHANGED <<messages, rev, sent>>
      /\ \A d \in Streams \ {c} : excused'[d] = excused[d]
      /\ rev \in Nat /\ stream'[c] = Closed
  BY DEF Disconnect, Streaming, StreamInv, TypeOK
<1>2. Closed.pc = "closed" /\ Closed.batch = {} /\ Closed.lastRev = 0
  BY DEF Closed
<1>3. SentIds(c)' = SentIds(c) /\ IdsFor(Owner[c])' = IdsFor(Owner[c])
  BY <1>1 DEF SentIds, IdsFor
<1>4. SentOK(c)' /\ BatchOK(c)'
  BY <1>1, <1>2, <1>3 DEF StreamInv, ConnOK, SentOK, BatchOK
<1>5. GateOK(c)'
  BY <1>1, <1>2 DEF GateOK, Live
<1> QED BY <1>1, <1>4, <1>5, OneStream DEF ConnOK

LEMMA Inductive == StreamInv /\ [Next]_vars => StreamInv'
<1> SUFFICES ASSUME StreamInv, [Next]_vars PROVE StreamInv'
  OBVIOUS
<1>0. TypeOK'
  BY TypeStep DEF StreamInv
<1>1. CASE UNCHANGED <<messages, rev, stream, sent, excused>>
  BY <1>0, <1>1, ConnKept DEF StreamInv
<1>2. ASSUME NEW w \in Inserters,
             \/ \E s \in Students : BeginInsert(w, s)
             \/ BumpRev(w) \/ MarkActed(w) \/ AbortInsert(w)
      PROVE  UNCHANGED <<messages, rev, stream, sent, excused>>
  BY <1>2 DEF BeginInsert, BumpRev, MarkActed, AbortInsert
<1>3. CASE UNCHANGED vars
  BY <1>1, <1>3 DEF vars
<1>4. ASSUME NEW w \in Inserters, Commit(w) PROVE StreamInv'
  BY <1>0, <1>4, CommitStep
<1>5. ASSUME NEW c \in Streams, Open(c) \/ Loop(c) \/ Disconnect(c) PROVE StreamInv'
  BY <1>0, <1>5, OpenStep, FirstRevStep, GateStep, FetchStep, EmitStep, EndBatchStep,
     DisconnectStep DEF Loop
<1> QED
  BY <1>1, <1>2, <1>3, <1>4, <1>5 DEF Next, Insert

LEMMA Invariance == Spec => []StreamInv
<1>1. Init => StreamInv
  <2> SUFFICES ASSUME Init PROVE StreamInv
    OBVIOUS
  <2>1. TypeOK
    BY StreamAssumption, ClosedType DEF Init, TypeOK, NoInsert
  <2>2. \A c \in Streams : /\ stream[c].pc = "closed" /\ stream[c].batch = {}
                           /\ stream[c].lastRev = 0 /\ sent[c] = <<>> /\ rev = 0
    BY DEF Init, Closed
  <2>3. \A c \in Streams : ConnOK(c)
    BY <2>2 DEF ConnOK, SentOK, BatchOK, GateOK, SentIds, Live
  <2> QED BY <2>1, <2>3 DEF StreamInv
<1> QED
  BY <1>1, Inductive, PTL DEF Spec

\* The events on a student's wire have ever larger ids, over any number of
\* reconnects and however inserts of several threads interleave.
THEOREM OrderedDelivery == Spec => []InOrderOnce
<1>1. StreamInv => InOrderOnce
  BY DEF StreamInv, ConnOK, SentOK, InOrderOnce
<1> QED
  BY <1>1, Invariance, PTL

\* The revision gate is sound: a stream that goes back to sleep owes nothing
\* its next look at the revision would not show.
THEOREM GateIsSound == Spec => []GateSound
<1>1. StreamInv => GateSound
  <2> SUFFICES ASSUME StreamInv, RevRow, NEW c \in Streams, Live(c), NEW i \in Due(c),
                      i \notin SentIds(c), ~ InBatch(c, i)
               PROVE  /\ i > stream[c].lastId
                      /\ stream[c].pc = "fetch" \/ rev # stream[c].lastRev
    BY DEF GateSound, InBatch
  <2>1. ~ Passed(c, i) /\ (stream[c].pc = "fetch" \/ rev # stream[c].lastRev)
    BY DEF StreamInv, ConnOK, GateOK
  <2>2. i \in Nat /\ stream[c].lastId \in Nat
    BY IdsAreNat DEF Due, StreamInv, TypeOK, StreamStates
  <2> QED BY <2>1, <2>2 DEF Passed
<1> QED
  BY <1>1, Invariance, PTL

---------------------------------------------------------------------------
(* The numbers.  An id is handed out once, and what a stream starts from,  *)
(* has reached or is excused from is the id of a committed row.            *)

Published == {m.id : m \in messages}

\* Its row has an id and is not committed.
Uncommitted(w) == insert[w].pc \in {"insert", "locked"}

FreshOK(w) == Uncommitted(w) => insert[w].id \in 1 .. nextId /\ insert[w].id \notin Published

StartOK(c) ==
    /\ stream[c].base \in IdsFor(Owner[c]) \cup {0}
    /\ stream[c].lastId \in IdsFor(Owner[c]) \cup {0}
    /\ excused[c] \subseteq Published

NumberInv ==
    /\ Published \subseteq 1 .. nextId
    /\ \A w \in Inserters : FreshOK(w)
    /\ \A v, w \in Inserters :
          Uncommitted(v) /\ Uncommitted(w) /\ insert[v].id = insert[w].id => v = w
    /\ \A c \in Streams : StartOK(c)

\* A step that commits nothing and hands out no id.
LEMMA NumbersKept ==
    ASSUME TypeOK, NumberInv, UNCHANGED <<messages, nextId>>,
           \A w \in Inserters : Uncommitted(w)' => Uncommitted(w) /\ insert'[w].id = insert[w].id,
           \A c \in Streams : StartOK(c)'
    PROVE  NumberInv'
<1>1. Published' = Published
  BY DEF Published
<1>2. \A w \in Inserters : FreshOK(w)'
  BY <1>1 DEF NumberInv, FreshOK
<1> QED BY <1>1, <1>2 DEF NumberInv

\* A stream's numbers stand as long as its start, its place and the rows do.
LEMMA StartKept ==
    ASSUME NEW c \in Streams, StartOK(c), UNCHANGED messages,
           stream'[c].base = stream[c].base, stream'[c].lastId = stream[c].lastId,
           excused'[c] = excused[c]
    PROVE  StartOK(c)'
BY DEF StartOK, IdsFor, Published

LEMMA BeginNumbers ==
    ASSUME StreamInv, NumberInv, NEW v \in Inserters, NEW s \in Students, BeginInsert(v, s)
    PROVE  NumberInv'
<1>1. /\ nextId \in Nat /\ nextId' = nextId + 1
      /\ UNCHANGED <<messages, stream, excused>>
      /\ insert'[v].id = nextId + 1
      /\ \A w \in Inserters \ {v} : insert'[w] = insert[w]
  BY DEF BeginInsert, Inserting, StreamInv, TypeOK
<1>2. Published' = Published /\ Published \subseteq 1 .. nextId
  BY <1>1 DEF Published, NumberInv
<1>3. \A w \in Inserters \ {v} :
        /\ Uncommitted(w)' <=> Uncommitted(w)
        /\ Uncommitted(w) => insert[w].id \in 1 .. nextId /\ insert[w].id \notin Published
  BY <1>1 DEF Uncommitted, NumberInv, FreshOK
<1>4. \A w \in Inserters : FreshOK(w)'
  <2>1. FreshOK(v)'
    BY <1>1, <1>2 DEF FreshOK
  <2>2. ASSUME NEW w \in Inserters \ {v} PROVE FreshOK(w)'
    BY <1>1, <1>2, <1>3 DEF FreshOK
  <2> QED BY <2>1, <2>2
<1>5. \A w \in Inserters \ {v} : Uncommitted(w)' => insert'[w].id # insert'[v].id
  BY <1>1, <1>3
<1>6. \A u, w \in Inserters :
        Uncommitted(u)' /\ Uncommitted(w)' /\ insert'[u].id = insert'[w].id => u = w
  BY <1>1, <1>3, <1>5 DEF NumberInv
<1>7. \A c \in Streams : StartOK(c)'
  BY <1>1, StartKept DEF NumberInv
<1> QED BY <1>1, <1>2, <1>4, <1>6, <1>7 DEF NumberInv

LEMMA CommitNumbers ==
    ASSUME StreamInv, NumberInv, NEW v \in Inserters, Commit(v)
    PROVE  NumberInv'
<1> DEFINE n == insert[v].id
<1>1. /\ nextId' = nextId /\ UNCHANGED stream
      /\ messages' = messages \cup {[id |-> n, student |-> insert[v].student]}
      /\ insert[v].pc = "locked" /\ insert'[v].pc = "mark"
      /\ \A w \in Inserters \ {v} : insert'[w] = insert[w]
      /\ \A c \in Streams : excused'[c] \subseteq excused[c] \cup {n}
  BY DEF Commit, Inserting, StreamInv, TypeOK, InsertStates
<1>2. Uncommitted(v) /\ ~ Uncommitted(v)' /\ \A w \in Inserters \ {v} : Uncommitted(w)' <=> Uncommitted(w)
  BY <1>1 DEF Uncommitted
<1>3. Published' = Published \cup {n} /\ n \in 1 .. nextId
  <2>1. FreshOK(v)
    BY DEF NumberInv
  <2>2. Published' = Published \cup {n}
    <3>1. PICK r : r = [id |-> n, student |-> insert[v].student]
      OBVIOUS
    <3>2. r.id = n /\ messages' = messages \cup {r}
      BY <1>1, <3>1
    <3> HIDE DEF n
    <3> QED BY <3>2 DEF Published
  <2> QED BY <1>2, <2>1, <2>2 DEF FreshOK
<1>4. \A s : IdsFor(s) \subseteq IdsFor(s)'
  BY <1>1 DEF IdsFor
<1>5. \A w \in Inserters : FreshOK(w)'
  BY <1>1, <1>2, <1>3 DEF NumberInv, FreshOK
<1>6. \A c \in Streams : StartOK(c)'
  BY <1>1, <1>3, <1>4 DEF NumberInv, StartOK
<1> QED BY <1>1, <1>2, <1>3, <1>5, <1>6 DEF NumberInv

\* A step of a stream leaves the numbers of the inserts and of the other streams.
LEMMA StreamNumbers ==
    ASSUME StreamInv, NumberInv, NEW c \in Streams, NEW t, Streaming(c, t),
           UNCHANGED <<messages, nextId, insert>>,
           \A d \in Streams \ {c} : excused'[d] = excused[d],
           t.base \in IdsFor(Owner[c]) \cup {0}, t.lastId \in IdsFor(Owner[c]) \cup {0},
           excused'[c] \subseteq excused[c]
    PROVE  NumberInv'
<1>1. stream'[c] = t /\ \A d \in Streams \ {c} : stream'[d] = stream[d]
  BY DEF Streaming, StreamInv, TypeOK
<1>2. IdsFor(Owner[c])' = IdsFor(Owner[c]) /\ Published' = Published
  BY DEF IdsFor, Published
<1>3. StartOK(c)'
  BY <1>1, <1>2 DEF NumberInv, StartOK
<1>4. ASSUME NEW d \in Streams \ {c} PROVE StartOK(d)'
  BY <1>1, StartKept DEF NumberInv
<1>5. \A w \in Inserters : Uncommitted(w)' => Uncommitted(w)
  BY DEF Uncommitted
<1> QED BY <1>3, <1>4, <1>5, NumbersKept DEF StreamInv

LEMMA NumberStep == StreamInv /\ NumberInv /\ [Next]_vars => NumberInv'
<1> SUFFICES ASSUME StreamInv, NumberInv, [Next]_vars PROVE NumberInv'
  OBVIOUS
<1>0. /\ \A c \in Streams : StartOK(c) /\ stream[c] \in StreamStates
      /\ insert \in [Inserters -> InsertStates]
  BY DEF NumberInv, StreamInv, TypeOK
<1>1. ASSUME NEW w \in Inserters, NEW s \in Students, BeginInsert(w, s) PROVE NumberInv'
  BY <1>1, BeginNumbers
<1>2. ASSUME NEW w \in Inserters, BumpRev(w) \/ MarkActed(w) \/ AbortInsert(w)
      PROVE  NumberInv'
  <2>1. UNCHANGED <<messages, nextId, stream, excused>>
    BY <1>2 DEF BumpRev, MarkActed, AbortInsert
  <2>2. \A v \in Inserters : Uncommitted(v)' => Uncommitted(v) /\ insert'[v].id = insert[v].id
    BY <1>0, <1>2 DEF BumpRev, MarkActed, AbortInsert, Inserting, NoInsert, InsertStates, Uncommitted
  <2>3. \A c \in Streams : StartOK(c)'
    BY <1>0, <2>1, StartKept
  <2> QED BY <2>1, <2>2, <2>3, NumbersKept DEF StreamInv
<1>3. ASSUME NEW w \in Inserters, Commit(w) PROVE NumberInv'
  BY <1>3, CommitNumbers
<1>4. ASSUME NEW c \in Streams, Open(c) PROVE NumberInv'
  <2> PICK n \in IdsFor(Owner[c]) \cup {0} :
             Streaming(c, [Closed EXCEPT !.pc = "opening", !.base = n, !.lastId = n])
    BY <1>4 DEF Open
  <2> DEFINE t == [Closed EXCEPT !.pc = "opening", !.base = n, !.lastId = n]
  <2>1. t.base = n /\ t.lastId = n /\ Streaming(c, t)
    BY DEF Closed
  <2>2. UNCHANGED <<messages, nextId, insert, excused>>
    BY <1>4 DEF Open
  <2> HIDE DEF t
  <2> QED BY <2>1, <2>2, StreamNumbers
<1>5. ASSUME NEW c \in Streams, NEW t, Streaming(c, t),
             t.base = stream[c].base, t.lastId = stream[c].lastId,
             UNCHANGED <<messages, nextId, insert, excused>>
      PROVE  NumberInv'
  BY <1>0, <1>5, StreamNumbers DEF StartOK
<1>6. ASSUME NEW c \in Streams, ReadFirstRev(c) PROVE NumberInv'
  BY <1>0, <1>5, <1>6 DEF ReadFirstRev, StreamStates
<1>7. ASSUME NEW c \in Streams, PassGate(c) PROVE NumberInv'
  BY <1>0, <1>5, <1>7 DEF PassGate, StreamStates
<1>8. ASSUME NEW c \in Streams, EndBatch(c) PROVE NumberInv'
  BY <1>0, <1>5, <1>8 DEF EndBatch, StreamStates
<1>9. ASSUME NEW c \in Streams, Fetch(c) PROVE NumberInv'
  <2> PICK B : B = {Joined(i) : i \in {j \in IdsFor(Owner[c]) : j > stream[c].lastId}}
    OBVIOUS
  <2>1. Streaming(c, [stream[c] EXCEPT !.pc = "emit", !.batch = B])
    BY <1>9 DEF Fetch
  <2>2. UNCHANGED <<messages, nextId, insert, excused>>
    BY <1>9 DEF Fetch
  <2> QED BY <1>0, <1>5, <2>1, <2>2 DEF StreamStates
<1>10. ASSUME NEW c \in Streams, Emit(c) PROVE NumberInv'
  <2> PICK e \in stream[c].batch :
         Streaming(c, [stream[c] EXCEPT !.lastId = e.id, !.batch = stream[c].batch \ {e}])
    BY <1>10 DEF Emit
  <2>1. e.id \in IdsFor(Owner[c])
    BY DEF StreamInv, ConnOK, BatchOK
  <2>2. UNCHANGED <<messages, nextId, insert, excused>>
    BY <1>10 DEF Emit
  <2> DEFINE t == [stream[c] EXCEPT !.lastId = e.id, !.batch = stream[c].batch \ {e}]
  <2>3. t.base = stream[c].base /\ t.lastId = e.id /\ Streaming(c, t)
    BY <1>0 DEF StreamStates
  <2> HIDE DEF t
  <2> QED BY <1>0, <2>1, <2>2, <2>3, StreamNumbers DEF StartOK
<1>11. ASSUME NEW c \in Streams, Disconnect(c) PROVE NumberInv'
  <2>1. /\ Streaming(c, Closed) /\ UNCHANGED <<messages, nextId, insert>>
        /\ \A d \in Streams \ {c} : excused'[d] = excused[d]
        /\ excused'[c] = {}
    BY <1>11 DEF Disconnect, StreamInv, TypeOK
  <2>2. Closed.base = 0 /\ Closed.lastId = 0
    BY DEF Closed
  <2> QED BY <2>1, <2>2, StreamNumbers
<1>12. CASE UNCHANGED vars
  <2>1. \A c \in Streams : StartOK(c)'
    BY <1>0, <1>12, StartKept DEF vars
  <2>2. \A w \in Inserters : Uncommitted(w)' => Uncommitted(w)
    BY <1>12 DEF vars, Uncommitted
  <2> QED BY <1>12, <2>1, <2>2, NumbersKept DEF vars, StreamInv
<1> QED
  BY <1>1, <1>2, <1>3, <1>4, <1>6, <1>7, <1>8, <1>9, <1>10, <1>11, <1>12
     DEF Next, Insert, Loop

---------------------------------------------------------------------------
(* The streams implement the ordered lane.                                 *)

LEMMA LaneView ==
    /\ DOMAIN Log = Students /\ \A s \in Students : Log[s] = IdsFor(s)
    /\ \A c : c \in Connected <=> c \in Streams /\ Live(c)
    /\ DOMAIN Owed = Streams
    /\ \A c \in Streams : Owed[c] = {i \in Due(c) \ SentIds(c) : Live(c)}
    /\ DOMAIN Wire = Streams
    /\ \A c \in Streams : Lane!Received(c) = SentIds(c)
BY DEF Log, Connected, Owed, Wire, Lane!Received, SentIds

\* A step that commits and sends nothing and neither opens nor closes a loop is
\* none of the lane's.
LEMMA LaneKept ==
    ASSUME UNCHANGED <<messages, sent>>,
           \A c \in Streams : Live(c)' <=> Live(c),
           \A c \in Streams : Live(c) => stream'[c].base = stream[c].base
                                         /\ excused'[c] = excused[c]
    PROVE  UNCHANGED <<Log, Connected, Owed, Wire>>
<1>1. \A s : IdsFor(s)' = IdsFor(s)
  BY DEF IdsFor
<1>2. Log' = Log /\ Wire' = Wire
  BY <1>1 DEF Log, Wire
<1>3. Connected' = Connected
  BY DEF Connected
<1>4. ASSUME NEW c \in Streams
      PROVE  {i \in Due(c) \ SentIds(c) : Live(c)}' = {i \in Due(c) \ SentIds(c) : Live(c)}
  <2>1. SentIds(c)' = SentIds(c)
    BY DEF SentIds
  <2>2. CASE Live(c)
    BY <1>1, <2>1, <2>2 DEF Due
  <2>3. CASE ~ Live(c)
    BY <2>3
  <2> QED BY <2>2, <2>3
<1>5. Owed' = Owed
  BY <1>4 DEF Owed
<1> QED BY <1>2, <1>3, <1>5

LEMMA ConnectRefines ==
    ASSUME StreamInv, NEW c \in Streams, ReadFirstRev(c)
    PROVE  Lane!Connect(c)
<1>1. /\ UNCHANGED <<messages, sent, excused>> /\ stream[c].pc = "opening"
      /\ stream'[c] = [stream[c] EXCEPT !.pc = "gate", !.lastRev = rev]
      /\ \A d \in Streams \ {c} : stream'[d] = stream[d]
      /\ stream[c] \in StreamStates
  BY DEF ReadFirstRev, Streaming, StreamInv, TypeOK
<1>2. stream'[c].pc = "gate" /\ stream'[c].base = stream[c].base
  BY <1>1 DEF StreamStates
<1>3. ~ Live(c) /\ Live(c)' /\ \A d \in Streams \ {c} : Live(d)' <=> Live(d)
  BY <1>1, <1>2 DEF Live
<1>4. \A s : IdsFor(s)' = IdsFor(s)
  BY <1>1 DEF IdsFor
<1>5. Log' = Log /\ Wire' = Wire
  BY <1>1, <1>4 DEF Log, Wire
<1>6. c \notin Connected /\ Connected' = Connected \cup {c}
  BY <1>3 DEF Connected
<1>7. Due(c)' = {}
  <2>1. Due(c)' = Due(c)
    BY <1>1, <1>2, <1>4 DEF Due
  <2> QED BY <1>1, <2>1 DEF StreamInv, ConnOK, GateOK
<1>8. ASSUME NEW d \in Streams
      PROVE  {i \in Due(d) \ SentIds(d) : Live(d)}' = {i \in Due(d) \ SentIds(d) : Live(d)}
  <2>1. CASE d = c
    BY <1>3, <1>7, <2>1
  <2>2. CASE d # c
    BY <1>1, <1>3, <1>4, <2>2 DEF Due, SentIds
  <2> QED BY <2>1, <2>2
<1>9. Owed' = Owed
  BY <1>8 DEF Owed
<1> QED BY <1>5, <1>6, <1>9 DEF Lane!Connect

LEMMA LoseRefines ==
    ASSUME StreamInv, NEW c \in Streams, Disconnect(c)
    PROVE  Lane!Lose(c)
<1>1. /\ UNCHANGED <<messages, sent>> /\ stream'[c] = Closed
      /\ \A d \in Streams \ {c} : stream'[d] = stream[d] /\ excused'[d] = excused[d]
  BY DEF Disconnect, Streaming, StreamInv, TypeOK
<1>2. ~ Live(c)' /\ \A d \in Streams \ {c} : Live(d)' <=> Live(d)
  BY <1>1 DEF Live, Closed
<1>3. \A s : IdsFor(s)' = IdsFor(s)
  BY <1>1 DEF IdsFor
<1>4. Log' = Log /\ Wire' = Wire
  BY <1>1, <1>3 DEF Log, Wire
<1>5. Connected' = Connected \ {c}
  BY <1>2 DEF Connected
<1>6. {i \in Due(c) \ SentIds(c) : Live(c)}' = {}
  BY <1>2
<1>7. ASSUME NEW d \in Streams, d # c
      PROVE  {i \in Due(d) \ SentIds(d) : Live(d)}' = {i \in Due(d) \ SentIds(d) : Live(d)}
  BY <1>1, <1>2, <1>3, <1>7 DEF Due, SentIds
<1>8. Owed' = [Owed EXCEPT ![c] = {}]
  BY <1>6, <1>7 DEF Owed
<1> QED BY <1>4, <1>5, <1>8 DEF Lane!Lose

\* What is sent is the smallest of what is owed: the rest is in the batch behind
\* it or beyond the batch.
LEMMA DeliverRefines ==
    ASSUME StreamInv, NEW c \in Streams, Emit(c)
    PROVE  \E i \in Log[Owner[c]] : Lane!Deliver(c, i)
<1> PICK e \in stream[c].batch :
      /\ \A d \in stream[c].batch : e.id <= d.id
      /\ Streaming(c, [stream[c] EXCEPT !.lastId = e.id,
                                        !.batch = stream[c].batch \ {e}])
      /\ sent' = [sent EXCEPT ![c] = Append(sent[c], e)]
  BY DEF Emit
<1>1. /\ UNCHANGED <<messages, excused>> /\ stream[c].pc = "emit" /\ stream[c] \in StreamStates
      /\ \A d \in Streams \ {c} : stream'[d] = stream[d] /\ sent'[d] = sent[d]
      /\ stream'[c] = [stream[c] EXCEPT !.lastId = e.id, !.batch = stream[c].batch \ {e}]
      /\ sent'[c] = Append(sent[c], e) /\ sent[c] \in Seq(Events)
      /\ DOMAIN sent' = Streams /\ DOMAIN sent = Streams
  BY DEF Emit, Streaming, StreamInv, TypeOK
<1>2. stream'[c].pc = "emit" /\ stream'[c].base = stream[c].base
  BY <1>1 DEF StreamStates
<1>3. /\ e \in Events /\ e.id \in Nat /\ e.id \in IdsFor(Owner[c])
      /\ e.id > stream[c].lastId /\ stream[c].lastId \in Nat
      /\ \A i \in SentIds(c) : i <= stream[c].lastId
      /\ SentIds(c) \subseteq Nat /\ IdsFor(Owner[c]) \subseteq Nat
  BY <1>1, IdsAreNat DEF StreamInv, ConnOK, SentOK, BatchOK, StreamStates, Events
<1>4. /\ DOMAIN sent'[c] = 1 .. Len(sent[c]) + 1 /\ DOMAIN sent[c] = 1 .. Len(sent[c])
      /\ \A k \in 1 .. Len(sent[c]) : sent'[c][k] = sent[c][k]
      /\ sent'[c][Len(sent[c]) + 1] = e /\ Len(sent[c]) \in Nat
  BY <1>1, <1>3
<1>5. SentIds(c)' = SentIds(c) \cup {e.id}
  BY <1>4 DEF SentIds
<1>6. Log' = Log /\ \A s : IdsFor(s)' = IdsFor(s)
  BY <1>1 DEF Log, IdsFor
<1>7. Connected' = Connected /\ c \in Connected /\ \A d \in Streams : Live(d)' <=> Live(d)
  BY <1>1, <1>2 DEF Connected, Live
<1>8. Lane!Beyond(e.id, Lane!Received(c))
  <2>1. \A j \in SentIds(c) : j < e.id
    BY <1>3
  <2> QED BY <2>1, LaneView DEF Lane!Beyond
<1>9. ASSUME NEW j \in Owed[c] PROVE e.id <= j
  <2>1. j \in Due(c) /\ j \notin SentIds(c) /\ j \in Nat
    BY <1>3, <1>9, LaneView DEF Due
  <2>2. CASE InBatch(c, j)
    BY <2>2 DEF InBatch
  <2>3. CASE ~ InBatch(c, j)
    <3>1. ~ Passed(c, j)
      BY <1>1, <2>1, <2>3 DEF StreamInv, ConnOK, GateOK, Live
    <3> QED BY <1>3, <2>1, <3>1 DEF Passed
  <2> QED BY <2>2, <2>3
<1>10. Wire' = [Wire EXCEPT ![c] = Append(@, e.id)]
  <2> DEFINE ids(q) == [k \in DOMAIN q |-> q[k].id]
  <2>1. ids(sent[c]) \in Seq(Nat) /\ Len(ids(sent[c])) = Len(sent[c])
    <3>1. \A k \in 1 .. Len(sent[c]) : sent[c][k] \in Events
      BY <1>1
    <3>2. \A k \in 1 .. Len(sent[c]) : sent[c][k].id \in Nat
      BY <3>1 DEF Events
    <3> QED BY <1>4, <3>2
  <2>2. ids(sent'[c]) = Append(ids(sent[c]), e.id)
    <3> PICK old : old = ids(sent[c])
      OBVIOUS
    <3> PICK new : new = ids(sent'[c])
      OBVIOUS
    <3>1. /\ old \in Seq(Nat) /\ Len(old) = Len(sent[c])
          /\ \A k \in 1 .. Len(sent[c]) : old[k] = sent[c][k].id
      BY <1>4, <2>1
    <3>2. /\ new = [k \in 1 .. Len(sent[c]) + 1 |-> new[k]]
          /\ \A k \in 1 .. Len(sent[c]) : new[k] = old[k]
          /\ new[Len(sent[c]) + 1] = e.id
      BY <1>4, <3>1
    <3> HIDE DEF ids
    <3>3. new = Append(old, e.id)
      BY <1>3, <1>4, <3>1, <3>2
    <3> QED BY <3>3
  <2>3. \A d \in Streams \ {c} : ids(sent'[d]) = ids(sent[d])
    BY <1>1
  <2>4. Wire = [d \in Streams |-> ids(sent[d])] /\ Wire' = [d \in Streams |-> ids(sent'[d])]
    BY DEF Wire
  <2> HIDE DEF ids
  <2> QED BY <2>2, <2>3, <2>4
<1>11. Owed' = [Owed EXCEPT ![c] = @ \ {e.id}]
  <2>1. {i \in Due(c) \ SentIds(c) : Live(c)}' = {i \in Due(c) \ SentIds(c) : Live(c)} \ {e.id}
    <3>1. Due(c)' = Due(c)
      BY <1>1, <1>2, <1>6 DEF Due
    <3> QED BY <1>5, <1>7, <3>1
  <2>2. ASSUME NEW d \in Streams, d # c
        PROVE  {i \in Due(d) \ SentIds(d) : Live(d)}' = {i \in Due(d) \ SentIds(d) : Live(d)}
    BY <1>1, <1>6, <1>7, <2>2 DEF Due, SentIds
  <2> QED BY <2>1, <2>2 DEF Owed
<1>12. Lane!Deliver(c, e.id)
  BY <1>6, <1>7, <1>8, <1>9, <1>10, <1>11 DEF Lane!Deliver
<1>13. e.id \in Log[Owner[c]]
  BY <1>3, LaneView, StreamAssumption
<1> QED BY <1>12, <1>13

\* A commit is owed to the streams of its student that are in their loop and not
\* past its id.  They cannot be past an id that is larger than all the others.
LEMMA PublishRefines ==
    ASSUME StreamInv, NumberInv, NEW w \in Inserters, Commit(w)
    PROVE  \E s \in Students : \E i \in Log'[s] : Lane!Publish(s, i)
<1> PICK n : n = insert[w].id
  OBVIOUS
<1> PICK s : s = insert[w].student
  OBVIOUS
<1>1. /\ UNCHANGED <<stream, sent>> /\ insert[w].pc = "locked" /\ s \in Students
      /\ messages' = messages \cup {[id |-> n, student |-> s]}
  BY DEF Commit, StreamInv, TypeOK
<1>2. ASSUME NEW c \in Streams
      PROVE  /\ stream[c].pc = "opening" \/ Passed(c, n) =>
                   excused'[c] = excused[c] \cup {n}
             /\ ~ (stream[c].pc = "opening" \/ Passed(c, n)) => excused'[c] = excused[c]
  BY DEF Commit
<1>3. n \in 1 .. nextId /\ n \notin Published /\ nextId \in Nat
  <2>1. FreshOK(w) /\ Uncommitted(w)
    BY <1>1 DEF NumberInv, Uncommitted
  <2> QED BY <2>1 DEF FreshOK, StreamInv, TypeOK
<1>4. \A t : IdsFor(t) \subseteq Published /\ n \notin IdsFor(t)
  BY <1>3 DEF IdsFor, Published
<1>5. IdsFor(s)' = IdsFor(s) \cup {n} /\ \A t : t # s => IdsFor(t)' = IdsFor(t)
  <2>1. PICK m : m = [id |-> n, student |-> s]
    OBVIOUS
  <2>2. m.id = n /\ m.student = s /\ messages' = messages \cup {m}
    BY <1>1, <2>1
  <2> QED BY <2>2 DEF IdsFor
<1>6. Log' = [Log EXCEPT ![s] = @ \cup {n}]
  BY <1>1, <1>5 DEF Log
<1>7. Connected' = Connected /\ Wire' = Wire /\ \A c : Live(c)' <=> Live(c)
  BY <1>1 DEF Connected, Wire, Live
<1>8. ASSUME NEW c \in Streams
      PROVE  /\ Owed'[c] \in {Owed[c], Owed[c] \cup {n}}
             /\ Owner[c] = s /\ c \in Connected /\ Lane!Beyond(n, Log[s]) => n \in Owed'[c]
             /\ n \in Owed'[c] => /\ Owner[c] = s /\ c \in Connected
                                  /\ Lane!Beyond(n, Lane!Received(c))
  <2> DEFINE old == {i \in Due(c) \ SentIds(c) : Live(c)}
             new == {i \in Due(c)' \ SentIds(c) : Live(c)}
  <2>1. /\ Owed[c] = old /\ Owed'[c] = new /\ SentIds(c)' = SentIds(c)
        /\ Lane!Received(c) = SentIds(c)
    <3>1. SentIds(c)' = SentIds(c)
      BY <1>1 DEF SentIds
    <3> QED BY <1>7, <3>1, LaneView DEF Owed
  <2>2. /\ StartOK(c) /\ ConnOK(c) /\ Owner[c] \in Students
        /\ stream'[c].base = stream[c].base
        /\ stream[c].base \in Nat /\ stream[c].lastId \in Nat
        /\ \A i \in IdsFor(Owner[c]) : i \in Nat
    BY <1>1, IdsAreNat, StreamAssumption DEF NumberInv, StreamInv, TypeOK, StreamStates
  <2>3. n \notin SentIds(c) /\ n \notin excused[c]
    BY <1>3, <1>4, <2>2 DEF ConnOK, SentOK, StartOK
  <2>4. Due(c)' = {i \in IdsFor(Owner[c])' : i > stream[c].base /\ i \notin excused'[c]}
    BY <2>2 DEF Due
  <2>5. CASE Owner[c] # s \/ ~ Live(c)
    <3>1. CASE Owner[c] # s
      <4>1. Due(c)' = Due(c) /\ n \notin Due(c)
        BY <1>2, <1>4, <1>5, <2>4, <3>1 DEF Due
      <4> QED BY <2>1, <3>1, <4>1
    <3>2. CASE ~ Live(c)
      BY <2>1, <3>2 DEF Connected
    <3> QED BY <2>5, <3>1, <3>2
  <2>6. CASE Owner[c] = s /\ Live(c) /\ Passed(c, n)
    <3>1. Due(c)' = Due(c) /\ n \notin Due(c)
      BY <1>2, <1>4, <1>5, <2>4, <2>6 DEF Due
    <3>2. ~ Lane!Beyond(n, Log[s])
      <4>1. PICK j \in IdsFor(s) : n <= j
        BY <1>3, <2>2, <2>6 DEF Passed, StartOK, ConnOK, BatchOK
      <4>2. j \in Log[s] /\ ~ (j < n)
        BY <1>1, <1>3, <2>2, <2>6, <4>1, LaneView
      <4> QED BY <4>2 DEF Lane!Beyond
    <3> QED BY <2>1, <3>1, <3>2
  <2>7. CASE Owner[c] = s /\ Live(c) /\ ~ Passed(c, n)
    <3>1. excused'[c] = excused[c]
      BY <1>2, <2>7 DEF Live
    <3>2. Due(c)' \subseteq Due(c) \cup {n} /\ Due(c) \subseteq Due(c)'
      BY <1>5, <2>4, <2>7, <3>1 DEF Due
    <3>3. Lane!Beyond(n, Log[s]) => n \in Due(c)'
      <4> SUFFICES ASSUME Lane!Beyond(n, Log[s]) PROVE n > stream[c].base
        BY <1>5, <2>3, <2>4, <2>7, <3>1
      <4>1. \A j \in IdsFor(s) : j < n
        BY <1>1, LaneView DEF Lane!Beyond
      <4> QED BY <1>3, <2>2, <2>7, <4>1 DEF StartOK
    <3>4. Lane!Beyond(n, SentIds(c))
      <4>1. \A i \in SentIds(c) : i <= stream[c].lastId /\ i \in Nat
        BY <2>2, <2>7 DEF ConnOK, SentOK, Live
      <4>2. stream[c].lastId < n
        BY <1>3, <2>2, <2>7 DEF Passed
      <4>3. \A i \in SentIds(c) : i < n
        BY <1>3, <2>2, <4>1, <4>2
      <4> QED BY <4>3 DEF Lane!Beyond
    <3>5. c \in Connected
      BY <2>7 DEF Connected
    <3> QED BY <2>1, <2>3, <2>7, <3>2, <3>3, <3>4, <3>5
  <2> QED BY <2>5, <2>6, <2>7
<1>9. Lane!Publish(s, n)
  <2>1. \A t \in Students : n \notin Log[t]
    BY <1>4, LaneView
  <2> QED BY <1>6, <1>7, <1>8, <2>1 DEF Lane!Publish
<1>10. n \in Log'[s]
  BY <1>1, <1>5 DEF Log
<1> QED BY <1>1, <1>9, <1>10

LEMMA LaneStep ==
    ASSUME StreamInv, NumberInv, [Next]_vars
    PROVE  [Lane!Next]_<<Log, Connected, Owed, Wire>>
<1>1. ASSUME NEW w \in Inserters,
             \/ \E s \in Students : BeginInsert(w, s)
             \/ BumpRev(w) \/ MarkActed(w) \/ AbortInsert(w)
      PROVE  UNCHANGED <<Log, Connected, Owed, Wire>>
  <2>1. UNCHANGED <<messages, sent, stream, excused>>
    BY <1>1 DEF BeginInsert, BumpRev, MarkActed, AbortInsert
  <2> QED BY <2>1, LaneKept DEF Live
<1>2. ASSUME NEW w \in Inserters, Commit(w) PROVE Lane!Next
  BY <1>2, PublishRefines DEF Lane!Next
<1>3. ASSUME NEW c \in Streams, Open(c) \/ PassGate(c) \/ Fetch(c) \/ EndBatch(c)
      PROVE  UNCHANGED <<Log, Connected, Owed, Wire>>
  <2>1. UNCHANGED <<messages, sent, excused>> /\ stream[c] \in StreamStates
    BY <1>3 DEF Open, PassGate, Fetch, EndBatch, StreamInv, TypeOK
  <2>2. \A d \in Streams \ {c} : stream'[d] = stream[d]
    BY <1>3 DEF Open, PassGate, Fetch, EndBatch, Streaming, StreamInv, TypeOK
  <2>3. /\ Live(c)' <=> Live(c)
        /\ Live(c) => stream'[c].base = stream[c].base
    <3>1. CASE Open(c)
      BY <3>1 DEF Open, Streaming, StreamInv, TypeOK, Live, Closed
    <3>2. CASE PassGate(c)
      BY <2>1, <3>2 DEF PassGate, Streaming, StreamInv, TypeOK, StreamStates, Live
    <3>3. CASE EndBatch(c)
      BY <2>1, <3>3 DEF EndBatch, Streaming, StreamInv, TypeOK, StreamStates, Live
    <3>4. CASE Fetch(c)
      <4> PICK B : B = {Joined(i) : i \in {j \in IdsFor(Owner[c]) : j > stream[c].lastId}}
        OBVIOUS
      <4>1. stream'[c] = [stream[c] EXCEPT !.pc = "emit", !.batch = B]
        BY <3>4 DEF Fetch, Streaming, StreamInv, TypeOK
      <4> QED BY <2>1, <3>4, <4>1 DEF Fetch, StreamStates, Live
    <3> QED BY <1>3, <3>1, <3>2, <3>3, <3>4
  <2>4. \A d \in Streams : Live(d)' <=> Live(d)
    BY <2>2, <2>3 DEF Live
  <2> QED BY <2>1, <2>2, <2>3, <2>4, LaneKept
<1>4. ASSUME NEW c \in Streams, ReadFirstRev(c) PROVE Lane!Next
  BY <1>4, ConnectRefines DEF Lane!Next
<1>5. ASSUME NEW c \in Streams, Emit(c) PROVE Lane!Next
  BY <1>5, DeliverRefines DEF Lane!Next
<1>6. ASSUME NEW c \in Streams, Disconnect(c) PROVE Lane!Next
  BY <1>6, LoseRefines DEF Lane!Next
<1>7. CASE UNCHANGED vars
  <2>1. UNCHANGED <<messages, sent, stream, excused>>
    BY <1>7 DEF vars
  <2> QED BY <2>1, LaneKept DEF Live
<1> QED
  BY <1>1, <1>2, <1>3, <1>4, <1>5, <1>6, <1>7 DEF Next, Insert, Loop

\* The streams implement the ordered lane: however inserts, polls and reconnects
\* interleave, what is committed in order while a stream polls stays owed to it
\* until it is sent, before anything larger, or the connection is lost.
THEOREM Implements == Spec => ImplementsLane
<1>1. Init => Lane!Init
  <2> SUFFICES ASSUME Init PROVE Lane!Init
    OBVIOUS
  <2>1. \A c \in Streams : ~ Live(c) /\ sent[c] = <<>>
    BY DEF Init, Live, Closed
  <2>2. Connected = {} /\ Owed = [c \in Streams |-> {}]
    BY <2>1 DEF Connected, Owed
  <2>3. Wire = [c \in Streams |-> <<>>]
    BY <2>1 DEF Wire
  <2> QED BY <2>2, <2>3 DEF Lane!Init
<1>2. Init => NumberInv
  <2> SUFFICES ASSUME Init PROVE NumberInv
    OBVIOUS
  <2>1. /\ \A w \in Inserters : ~ Uncommitted(w)
        /\ \A c \in Streams : stream[c].base = 0 /\ stream[c].lastId = 0 /\ excused[c] = {}
        /\ Published = {}
    BY DEF Init, NoInsert, Closed, Uncommitted, Published
  <2> QED BY <2>1 DEF NumberInv, FreshOK, StartOK
<1>3. Spec => []NumberInv
  BY <1>2, NumberStep, Invariance, PTL DEF Spec
<1>4. Spec => Lane!Init /\ [][Lane!Next]_<<Log, Connected, Owed, Wire>>
  BY <1>1, <1>3, LaneStep, Invariance, PTL DEF Spec
<1> QED
  BY <1>4 DEF ImplementsLane, Lane!Spec

=============================================================================

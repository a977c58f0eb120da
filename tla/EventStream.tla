----------------------------- MODULE EventStream -----------------------------
(***************************************************************************)
(* The push lane's last leg: insert_message of data/db.py with the trigger *)
(* of migration 010 on one side, the SSE generator _event_stream of        *)
(* api/stream.py on the other.                                             *)
(*                                                                         *)
(* An insert takes its id from the sequence first, then its row trigger    *)
(* updates the one channel_rev row, which locks it until the commit; the   *)
(* commit makes message and revision visible together.  A stream reads its *)
(* start id and its start revision in two transactions, and from then on   *)
(* asks for messages past its last id whenever the revision has moved.     *)
(***************************************************************************)
EXTENDS Integers, Sequences, FiniteSets

CONSTANTS
    Students,
    Inserters,  \* threads in run_proactive_tick: the daemon, /admin/tick requests
    Streams,    \* browsers with an EventSource
    Owner,      \* Owner[c]: the student whose stream c is
    RevRow,     \* channel_rev has its 'proactive' row
    MaxId,      \* bound on the message ids handed out
    MaxFaults   \* bound on dropped connections and failed inserts

ASSUME StreamAssumption ==
    /\ Owner \in [Streams -> Students]
    /\ RevRow \in BOOLEAN
    /\ MaxId \in Nat
    /\ MaxFaults \in Nat

VARIABLES
    nextId,     \* the last id the sequence of chat.messages handed out
    messages,   \* committed proactive rows of chat.messages
    rev,        \* the committed revision of the 'proactive' channel
    locker,     \* who holds the row lock of channel_rev
    linked,     \* ids whose agent_triggers row names their response
    insert,     \* insert[w]: the insert w is in
    stream,     \* stream[c]: the local variables of _event_stream
    sent,       \* sent[c]: the events put on c's wire, over all its connections
    excused,    \* history variable: ids stream c is not bound to deliver
    faults

vars == <<nextId, messages, rev, locker, linked, insert, stream, sent, excused, faults>>

Nobody == "nobody"
NoStudent == "none"

InsertPcs == {"idle", "insert", "locked", "mark"}
NoInsert == [pc |-> "idle", id |-> 0, student |-> NoStudent]
InsertStates == [pc : InsertPcs, id : Nat, student : Students \cup {NoStudent}]

StreamPcs == {"closed", "opening", "gate", "fetch", "emit"}
Events == [id : Nat, trigger : BOOLEAN]
Closed == [pc |-> "closed", base |-> 0, lastId |-> 0, lastRev |-> 0, batch |-> {}]
StreamStates ==
    [pc : StreamPcs, base : Nat, lastId : Nat, lastRev : Nat, batch : SUBSET Events]

Messages == [id : Nat, student : Students]

TypeOK ==
    /\ nextId \in Nat
    /\ messages \subseteq Messages
    /\ rev \in Nat
    /\ locker \in Inserters \cup {Nobody}
    /\ linked \subseteq Nat
    /\ insert \in [Inserters -> InsertStates]
    /\ \A w \in Inserters : insert[w].pc # "idle" => insert[w].student \in Students
    /\ stream \in [Streams -> StreamStates]
    /\ sent \in [Streams -> Seq(Events)]
    /\ excused \in [Streams -> SUBSET Nat]
    /\ faults \in Nat

Init ==
    /\ nextId = 0
    /\ messages = {}
    /\ rev = 0
    /\ locker = Nobody
    /\ linked = {}
    /\ insert = [w \in Inserters |-> NoInsert]
    /\ stream = [c \in Streams |-> Closed]
    /\ sent = [c \in Streams |-> <<>>]
    /\ excused = [c \in Streams |-> {}]
    /\ faults = 0

---------------------------------------------------------------------------
(* Inserting a check-in. *)

Inserting(w, i) == insert' = [insert EXCEPT ![w] = i]

\* INSERT INTO chat.messages: the row gets its id.
BeginInsert(w, s) ==
    /\ insert[w].pc = "idle"
    /\ nextId < MaxId
    /\ nextId' = nextId + 1
    /\ Inserting(w, [pc |-> "insert", id |-> nextId + 1, student |-> s])
    /\ UNCHANGED <<messages, rev, locker, linked, stream, sent, excused, faults>>

\* bump_proactive_rev: the update waits for the row lock, if there is a row.
BumpRev(w) ==
    /\ insert[w].pc = "insert"
    /\ RevRow => locker = Nobody
    /\ locker' = IF RevRow THEN w ELSE locker
    /\ Inserting(w, [insert[w] EXCEPT !.pc = "locked"])
    /\ UNCHANGED <<nextId, messages, rev, linked, stream, sent, excused, faults>>

\* The id stream c has reached or will have reached after the rows it holds.
Passed(c, id) ==
    id <= stream[c].lastId \/ \E e \in stream[c].batch : id <= e.id

\* The commit shows message and revision.  A stream that is between its two
\* start reads may not notice the message, one that has passed its id never
\* looks back.
Commit(w) ==
    /\ insert[w].pc = "locked"
    /\ messages' = messages \cup {[id |-> insert[w].id, student |-> insert[w].student]}
    /\ rev' = IF RevRow THEN rev + 1 ELSE rev
    /\ locker' = IF RevRow THEN Nobody ELSE locker
    /\ Inserting(w, [insert[w] EXCEPT !.pc = "mark"])
    /\ excused' = [c \in Streams |->
          IF stream[c].pc = "opening" \/ Passed(c, insert[w].id)
          THEN excused[c] \cup {insert[w].id}
          ELSE excused[c]]
    /\ UNCHANGED <<nextId, linked, stream, sent, faults>>

\* mark_agent_trigger_acted, a transaction of its own, links the message to
\* the trigger that caused it.
MarkActed(w) ==
    /\ insert[w].pc = "mark"
    /\ linked' = linked \cup {insert[w].id}
    /\ Inserting(w, NoInsert)
    /\ UNCHANGED <<nextId, messages, rev, locker, stream, sent, excused, faults>>

\* A call fails or the thread dies: before the commit the row is rolled back and
\* its id never used again, after it the message stays without its link.
AbortInsert(w) ==
    /\ insert[w].pc # "idle"
    /\ faults < MaxFaults
    /\ faults' = faults + 1
    /\ locker' = IF locker = w THEN Nobody ELSE locker
    /\ Inserting(w, NoInsert)
    /\ UNCHANGED <<nextId, messages, rev, linked, stream, sent, excused>>

---------------------------------------------------------------------------
(* Streaming. *)

Streaming(c, t) == stream' = [stream EXCEPT ![c] = t]

IdsFor(s) == {m.id : m \in {n \in messages : n.student = s}}

\* COALESCE(MAX(id), 0) over the committed rows.
IsLatestId(n, S) == n \in S \cup {0} /\ \A i \in S : i <= n

\* Mutant: a fresh connection starts at 0 and replays the history.
Open_FromZero(c) ==
    /\ stream[c].pc = "closed"
    /\ Streaming(c, [Closed EXCEPT !.pc = "opening"])
    /\ UNCHANGED <<nextId, messages, rev, locker, linked, insert, sent, excused, faults>>

\* The browser connects; latest_proactive_message_id is the start of the stream.
Open(c) ==
    /\ stream[c].pc = "closed"
    /\ \E n \in IdsFor(Owner[c]) \cup {0} :
          /\ IsLatestId(n, IdsFor(Owner[c]))
          /\ Streaming(c, [Closed EXCEPT !.pc = "opening", !.base = n, !.lastId = n])
    /\ UNCHANGED <<nextId, messages, rev, locker, linked, insert, sent, excused, faults>>

\* The first proactive_rev, a transaction later.
ReadFirstRev(c) ==
    /\ stream[c].pc = "opening"
    /\ Streaming(c, [stream[c] EXCEPT !.pc = "gate", !.lastRev = rev])
    /\ UNCHANGED <<nextId, messages, rev, locker, linked, insert, sent, excused, faults>>

\* Mutant: the revision is remembered only after the rows have been read, by
\* reading it again.
EndBatch_RereadsRev(c) ==
    /\ stream[c].pc = "emit"
    /\ stream[c].batch = {}
    /\ Streaming(c, [stream[c] EXCEPT !.pc = "gate", !.lastRev = rev])
    /\ UNCHANGED <<nextId, messages, rev, locker, linked, insert, sent, excused, faults>>

\* Mutant: off by one, the gate wants the revision to be two ahead.
PassGate_NeedsTwo(c) ==
    /\ stream[c].pc = "gate"
    /\ rev > stream[c].lastRev + 1
    /\ Streaming(c, [stream[c] EXCEPT !.pc = "fetch", !.lastRev = rev])
    /\ UNCHANGED <<nextId, messages, rev, locker, linked, insert, sent, excused, faults>>

\* proactive_rev at the top of the loop has moved; if it has not, the stream
\* only sends a keep-alive and sleeps.
PassGate(c) ==
    /\ stream[c].pc = "gate"
    /\ rev # stream[c].lastRev
    /\ Streaming(c, [stream[c] EXCEPT !.pc = "fetch", !.lastRev = rev])
    /\ UNCHANGED <<nextId, messages, rev, locker, linked, insert, sent, excused, faults>>

\* The row of message i, left-joined to the trigger that names its response.
Joined(i) == [id |-> i, trigger |-> i \in linked]

\* Mutant: the rows come without the join.
Fetch_NoJoin(c) ==
    /\ stream[c].pc = "fetch"
    /\ Streaming(c, [stream[c] EXCEPT !.pc = "emit",
          !.batch = {m \in messages : m.student = Owner[c] /\ m.id > stream[c].lastId}])
    /\ UNCHANGED <<nextId, messages, rev, locker, linked, insert, sent, excused, faults>>

\* get_proactive_messages_after, past the last id.
Fetch(c) ==
    /\ stream[c].pc = "fetch"
    /\ Streaming(c, [stream[c] EXCEPT !.pc = "emit",
          !.batch = {Joined(i) : i \in {j \in IdsFor(Owner[c]) : j > stream[c].lastId}}])
    /\ UNCHANGED <<nextId, messages, rev, locker, linked, insert, sent, excused, faults>>

\* One event of the batch, in the order of the ids.
Emit(c) ==
    /\ stream[c].pc = "emit"
    /\ \E e \in stream[c].batch :
          /\ \A d \in stream[c].batch : e.id <= d.id
          /\ Streaming(c, [stream[c] EXCEPT !.lastId = e.id,
                                            !.batch = stream[c].batch \ {e}])
          /\ sent' = [sent EXCEPT ![c] = Append(@, e)]
    /\ UNCHANGED <<nextId, messages, rev, locker, linked, insert, excused, faults>>

EndBatch(c) ==
    /\ stream[c].pc = "emit"
    /\ stream[c].batch = {}
    /\ Streaming(c, [stream[c] EXCEPT !.pc = "gate"])
    /\ UNCHANGED <<nextId, messages, rev, locker, linked, insert, sent, excused, faults>>

\* The connection drops and the generator with it.  The frames carry no event
\* id, so the browser's reconnect is an Open like the first one.
Disconnect(c) ==
    /\ stream[c].pc # "closed"
    /\ faults < MaxFaults
    /\ faults' = faults + 1
    /\ Streaming(c, Closed)
    /\ excused' = [excused EXCEPT ![c] = {}]
    /\ UNCHANGED <<nextId, messages, rev, locker, linked, insert, sent>>

---------------------------------------------------------------------------

Insert(w) == BumpRev(w) \/ Commit(w) \/ MarkActed(w)

Loop(c) == ReadFirstRev(c) \/ PassGate(c) \/ Fetch(c) \/ Emit(c) \/ EndBatch(c)

Next ==
    \/ \E w \in Inserters : \/ \E s \in Students : BeginInsert(w, s)
                            \/ Insert(w)
                            \/ AbortInsert(w)
    \/ \E c \in Streams : Open(c) \/ Loop(c) \/ Disconnect(c)

Spec == Init /\ [][Next]_vars

\* An insert that has begun goes on, and an open stream keeps polling; nobody
\* has to send a message or to connect.
FairSpec ==
    /\ Spec
    /\ \A w \in Inserters : SF_vars(Insert(w))
    /\ \A c \in Streams : WF_vars(Loop(c))

---------------------------------------------------------------------------
(* Properties. *)

Live(c) == stream[c].pc \in {"gate", "fetch", "emit"}

SentIds(c) == {sent[c][k].id : k \in DOMAIN sent[c]}

\* The messages stream c has to deliver: committed after it opened, and neither
\* between its two start reads nor behind a larger id it had already passed.
Due(c) == {i \in IdsFor(Owner[c]) : i > stream[c].base /\ i \notin excused[c]}

\* No event is put on the wire twice and none after one with a larger id, also
\* over reconnects, although the frames carry no id to resume from: what a
\* student reads is in the order the agent wrote it (App.jsx:309-311).
InOrderOnce ==
    \A c \in Streams : \A j, k \in DOMAIN sent[c] :
        j < k => sent[c][j].id < sent[c][k].id

\* How OrderedLane sees the database and the streams: what is committed for a
\* student, the streams in their loop, what a stream still has to deliver and
\* what it has put on the wire.
Log == [s \in Students |-> IdsFor(s)]

Connected == {c \in Streams : Live(c)}

Owed == [c \in Streams |-> {i \in Due(c) \ SentIds(c) : Live(c)}]

Wire == [c \in Streams |-> [k \in DOMAIN sent[c] |-> sent[c][k].id]]

Lane ==
    INSTANCE OrderedLane WITH
        Browsers <- Streams,
        log <- Log,
        on <- Connected,
        owed <- Owed,
        wire <- Wire

\* The streams keep the promise of OrderedLane: nothing is put on a wire twice
\* or after a larger id, over reconnects too, although the frames carry no id
\* to resume from, and a message that is committed in order while the stream
\* polls is never passed over by one with a larger id, nor given up.
ImplementsLane == Lane!Spec

\* A stream never goes to sleep on a message it has to deliver: one it has not
\* sent is in its hands, or past its last id with a revision it has not seen.
GateSound ==
    RevRow =>
        \A c \in Streams : Live(c) =>
            \A i \in Due(c) :
                \/ i \in SentIds(c)
                \/ \E e \in stream[c].batch : e.id = i
                \/ /\ i > stream[c].lastId
                   /\ stream[c].pc = "fetch" \/ rev # stream[c].lastRev

\* What a stream has to deliver it delivers, unless the connection is lost.
DueDelivered ==
    RevRow =>
        \A c \in Streams : \A i \in 1 .. MaxId :
            (Live(c) /\ i \in Due(c)) ~> (i \in SentIds(c) \/ ~ Live(c))

\* api.md: proactive messages arrive on the stream.  Stated of every message
\* that is committed once the stream has started and until it is lost.
Arrives ==
    \A c \in Streams : \A i \in 1 .. MaxId :
        /\ stream[c].pc # "closed"
        /\ i \in IdsFor(Owner[c])
        /\ i > stream[c].base
        ~> (i \in SentIds(c) \/ stream[c].pc = "closed")

=============================================================================

---------------------------- MODULE ChatRequests ----------------------------
(***************************************************************************)
(* A browser's exchanges with the agent: create_message and create_response*)
(* of api/students.py with the chat memory (services/sessions.py), the     *)
(* token budget (services/budget.py) and the calls of the language model   *)
(* (execute_prompt of llm/client.py).                                      *)
(*                                                                         *)
(* An exchange is POST /messages and, when that has succeeded, POST        *)
(* /responses.  Requests run in threads of one process and share its       *)
(* memory; every database helper is a transaction of its own, and a call   *)
(* of the model takes its time.  One student, session and playground.      *)
(***************************************************************************)
EXTENDS Integers, Sequences, FiniteSets, Functions

CONSTANTS
    Threads,        \* exchanges that can be under way together
    Keys,           \* budget keys, one for each Turnstile cookie
    Models,         \* models of the gateway
    Navigator,      \* the model students get (get_navigator_model)
    MaxTurns,       \* MAX_SESSION_TURNS, 6 in the code
    SessionLimit,   \* LLM_SESSION_TOKEN_LIMIT
    DailyLimit,     \* LLM_DAILY_TOKEN_LIMIT
    MaxCost,        \* the most tokens one completion can spend
    MaxExchanges,   \* bound on the exchanges
    MaxCheckIns,    \* bound on the check-ins of the proactive lane
    MaxFaults       \* bound on failing calls, restarts and lapses of usage

ASSUME ChatAssumption ==
    /\ IsFiniteSet(Threads)
    /\ Navigator \in Models
    /\ {MaxTurns, SessionLimit, DailyLimit, MaxCost} \subseteq Nat \ {0}
    /\ {MaxExchanges, MaxCheckIns, MaxFaults} \subseteq Nat

VARIABLES
    memory,     \* memory[c]: the recent turns of chat c, oldest first
    reasoning,  \* _reasoning_models
    rows,       \* the turns in chat.messages
    recorded,   \* recorded[k]: the tokens of budget key k in chat.llm_usage
    daily,      \* the tokens recorded in the last 24 hours
    exchange,   \* exchange[t]: the local variables of thread t's exchange
    begun,      \* exchanges so far
    checkins,   \* turns check-ins have added so far
    appended,   \* history variable: turns ever appended to each chat
    forgotten,  \* history variable: turns appended before the last restart
    spent,      \* history variable: tokens the gateway has reported for a key
    blame,      \* history variable: why tokens of a key may be missing
    unsaved,    \* history variable: turns whose insert failed
    faults

vars == <<memory, reasoning, rows, recorded, daily, exchange, begun, checkins, appended,
          forgotten, spent, blame, unsaved, faults>>

Chats == {"student", "research"}

\* A turn is named by its exchange (0: a check-in) and its role; origin is the
\* chat its row is stored for.
TurnNames == [exchange : Nat, role : {"student", "assistant"}, origin : Chats]
Turns == [n : Nat, name : TurnNames]

Pcs == {"idle", "store_question", "check_session", "check_daily", "analyze", "ask", "call",
        "record", "record_failed", "remember_reply", "store_reply"}

Idle == [pc |-> "idle", id |-> 0, key |-> "none", chat |-> "student", model |-> Navigator,
         question |-> 0, prompt |-> <<>>, room |-> FALSE, first |-> 0, tokens |-> 0]

\* room: the call under way lets the model reason; first: what the attempt
\* before it spent.
Exchanges == [pc : Pcs, id : Nat, key : Keys \cup {"none"}, chat : Chats, model : Models,
              question : Nat, prompt : Seq(Turns), room : BOOLEAN, first : Nat, tokens : Nat]

Causes == {"retry", "choice", "usage", "restart"}

TypeOK ==
    /\ memory \in [Chats -> Seq(Turns)]
    /\ reasoning \subseteq Models
    /\ rows \subseteq TurnNames
    /\ recorded \in [Keys -> Nat]
    /\ daily \in Nat
    /\ exchange \in [Threads -> Exchanges]
    /\ \A t \in Threads : exchange[t].pc # "idle" => exchange[t].key \in Keys
    /\ \A c \in Chats : Len(memory[c]) <= MaxTurns
    /\ {begun, checkins, faults} \subseteq Nat
    /\ appended \in [Chats -> Nat]
    /\ forgotten \in [Chats -> Nat]
    /\ spent \in [Keys -> Nat]
    /\ blame \in [Keys -> SUBSET Causes]
    /\ unsaved \subseteq TurnNames

Init ==
    /\ memory = [c \in Chats |-> <<>>]
    /\ reasoning = {}
    /\ rows = {}
    /\ recorded = [k \in Keys |-> 0]
    /\ daily = 0
    /\ exchange = [t \in Threads |-> Idle]
    /\ begun = 0
    /\ checkins = 0
    /\ appended = [c \in Chats |-> 0]
    /\ forgotten = [c \in Chats |-> 0]
    /\ spent = [k \in Keys |-> 0]
    /\ blame = [k \in Keys |-> {}]
    /\ unsaved = {}
    /\ faults = 0

---------------------------------------------------------------------------

Become(t, x) == exchange' = [exchange EXCEPT ![t] = x]

MemoryVars == <<memory, appended>>
UsageVars == <<recorded, daily, spent, blame>>
RowVars == <<rows, unsaved>>

QuestionOf(x) == [exchange |-> x.id, role |-> "student", origin |-> x.chat]
ReplyOf(x) == [exchange |-> x.id, role |-> "assistant", origin |-> x.chat]

\* The newest turns of s, at most MaxTurns.
Newest(s) == IF Len(s) > MaxTurns THEN SubSeq(s, Len(s) - MaxTurns + 1, Len(s)) ELSE s

\* Mutant: the list is not cut.
AppendSessionMessage_Uncut(c, name) ==
    /\ appended' = [appended EXCEPT ![c] = @ + 1]
    /\ memory' = [memory EXCEPT ![c] = Append(@, [n |-> appended[c] + 1, name |-> name])]

\* append_session_message.  The append and the cut are one step: a thread that
\* comes between them finds one turn more, and cuts it too if it appends.
AppendSessionMessage(c, name) ==
    /\ appended' = [appended EXCEPT ![c] = @ + 1]
    /\ memory' = [memory EXCEPT ![c] =
                     Newest(Append(@, [n |-> appended[c] + 1, name |-> name]))]

\* POST /messages.  Only the research view has other settings than a student's.
CreateMessage(t, k, c, m) ==
    /\ exchange[t].pc = "idle"
    /\ begun < MaxExchanges
    /\ c = "student" => m = Navigator
    /\ begun' = begun + 1
    /\ LET x == [Idle EXCEPT !.pc = "store_question", !.id = begun + 1, !.key = k,
                             !.chat = c, !.model = m, !.question = appended[c] + 1]
       IN /\ Become(t, x)
          /\ AppendSessionMessage(c, QuestionOf(x))
    /\ UNCHANGED <<reasoning, RowVars, UsageVars, checkins, forgotten, faults>>

\* The row of the question; the browser goes on to POST /responses.
StoreQuestion(t) ==
    /\ exchange[t].pc = "store_question"
    /\ rows' = rows \cup {QuestionOf(exchange[t])}
    /\ Become(t, [exchange[t] EXCEPT !.pc = "check_session"])
    /\ UNCHANGED <<MemoryVars, reasoning, unsaved, UsageVars, begun, checkins, forgotten, faults>>

\* Mutant: the session's budget is not read.
CheckSession_Skipped(t) ==
    /\ exchange[t].pc = "check_session"
    /\ Become(t, [exchange[t] EXCEPT !.pc = "check_daily"])
    /\ UNCHANGED <<MemoryVars, reasoning, RowVars, UsageVars, begun, checkins, forgotten, faults>>

\* check_budget, first half: 429 when the session has used its tokens.
CheckSession(t) ==
    /\ exchange[t].pc = "check_session"
    /\ Become(t, IF recorded[exchange[t].key] >= SessionLimit THEN Idle
                 ELSE [exchange[t] EXCEPT !.pc = "check_daily"])
    /\ UNCHANGED <<MemoryVars, reasoning, RowVars, UsageVars, begun, checkins, forgotten, faults>>

\* check_budget, second half: 429 when the site has used today's.
CheckDaily(t) ==
    /\ exchange[t].pc = "check_daily"
    /\ Become(t, IF daily >= DailyLimit THEN Idle ELSE [exchange[t] EXCEPT !.pc = "analyze"])
    /\ UNCHANGED <<MemoryVars, reasoning, RowVars, UsageVars, begun, checkins, forgotten, faults>>

\* The sync and the analysis (FeedbackPolicy): feedback to generate, a fixed
\* reply to a running project or another playground, or HTTP 500.
Analyze(t) ==
    /\ exchange[t].pc = "analyze"
    /\ \/ Become(t, [exchange[t] EXCEPT !.pc = "ask"])
       \/ Become(t, [exchange[t] EXCEPT !.pc = "remember_reply"])
       \/ Become(t, Idle)
    /\ UNCHANGED <<MemoryVars, reasoning, RowVars, UsageVars, begun, checkins, forgotten, faults>>

\* generate_feedback: the chat's recent turns go into the prompt, and a model
\* known to reason is given room from the start.
Ask(t) ==
    /\ exchange[t].pc = "ask"
    /\ Become(t, [exchange[t] EXCEPT !.pc = "call", !.prompt = memory[exchange[t].chat],
                                     !.room = exchange[t].model \in reasoning])
    /\ UNCHANGED <<MemoryVars, reasoning, RowVars, UsageVars, begun, checkins, forgotten, faults>>

\* The gateway has answered, and reports the tokens the attempt spent.
Spend(t, cost) ==
    /\ spent' = [spent EXCEPT ![exchange[t].key] = @ + cost]
    /\ UNCHANGED <<recorded, daily, blame>>

\* A usable answer.  One that came only on the second attempt marks the model.
\* A reply cut short is usable once the model had room.
Answer(t, cost) ==
    /\ exchange[t].pc = "call"
    /\ Spend(t, cost)
    /\ reasoning' = IF exchange[t].first > 0 THEN reasoning \cup {exchange[t].model}
                    ELSE reasoning
    /\ Become(t, [exchange[t] EXCEPT !.pc = "record", !.tokens = exchange[t].first + cost])
    /\ UNCHANGED <<MemoryVars, RowVars, begun, checkins, forgotten, faults>>

\* No usable answer from a call without room: one retry, with room.
Retry(t, cost) ==
    /\ exchange[t].pc = "call"
    /\ ~exchange[t].room
    /\ Spend(t, cost)
    /\ Become(t, [exchange[t] EXCEPT !.room = TRUE, !.first = cost])
    /\ UNCHANGED <<MemoryVars, reasoning, RowVars, begun, checkins, forgotten, faults>>

\* Mutant: the error carries the tokens of the last attempt only.
EmptyAnswer_LastOnly(t, cost) ==
    /\ exchange[t].pc = "call"
    /\ exchange[t].room
    /\ Spend(t, cost)
    /\ Become(t, [exchange[t] EXCEPT !.pc = "record_failed", !.tokens = cost])
    /\ UNCHANGED <<MemoryVars, reasoning, RowVars, begun, checkins, forgotten, faults>>

\* EmptyAnswerError: no answer although the model had room.
EmptyAnswer(t, cost) ==
    /\ exchange[t].pc = "call"
    /\ exchange[t].room
    /\ Spend(t, cost)
    /\ Become(t, [exchange[t] EXCEPT !.pc = "record_failed",
                                     !.tokens = exchange[t].first + cost])
    /\ UNCHANGED <<MemoryVars, reasoning, RowVars, begun, checkins, forgotten, faults>>

\* The gateway raises or times out: that exception has no tokens attribute, so
\* nothing is recorded, not the first attempt of a retry either.
CallRaises(t) ==
    /\ exchange[t].pc = "call"
    /\ faults < MaxFaults
    /\ faults' = faults + 1
    /\ blame' = IF exchange[t].first > 0
                THEN [blame EXCEPT ![exchange[t].key] = @ \cup {"retry"}] ELSE blame
    /\ Become(t, Idle)
    /\ UNCHANGED <<MemoryVars, reasoning, RowVars, recorded, daily, spent, begun, checkins, forgotten>>

\* A completion without a choice: _request_answer raises before it has read
\* the tokens the gateway reports with it, and those of a first attempt are
\* lost too.
NoChoice(t, cost) ==
    /\ exchange[t].pc = "call"
    /\ faults < MaxFaults
    /\ faults' = faults + 1
    /\ spent' = [spent EXCEPT ![exchange[t].key] = @ + cost]
    /\ blame' = [blame EXCEPT ![exchange[t].key] = @ \cup {"choice"}]
    /\ Become(t, Idle)
    /\ UNCHANGED <<MemoryVars, reasoning, RowVars, recorded, daily, begun, checkins, forgotten>>

\* record_usage, after an answer and after an EmptyAnswerError.
RecordUsage(t) ==
    /\ exchange[t].pc \in {"record", "record_failed"}
    /\ recorded' = [recorded EXCEPT ![exchange[t].key] = @ + exchange[t].tokens]
    /\ daily' = daily + exchange[t].tokens
    /\ Become(t, IF exchange[t].pc = "record_failed" THEN Idle
                 ELSE [exchange[t] EXCEPT !.pc = "remember_reply", !.tokens = 0, !.first = 0])
    /\ UNCHANGED <<MemoryVars, reasoning, RowVars, spent, blame, begun, checkins, forgotten, faults>>

RememberReply(t) ==
    /\ exchange[t].pc = "remember_reply"
    /\ AppendSessionMessage(exchange[t].chat, ReplyOf(exchange[t]))
    /\ Become(t, [exchange[t] EXCEPT !.pc = "store_reply"])
    /\ UNCHANGED <<reasoning, RowVars, UsageVars, begun, checkins, forgotten, faults>>

\* Mutant: the reply is sent without a row when the feedback was not generated.
StoreReply_OnlyGenerated(t) ==
    /\ exchange[t].pc = "store_reply"
    /\ rows' = IF exchange[t].prompt = <<>> THEN rows ELSE rows \cup {ReplyOf(exchange[t])}
    /\ Become(t, Idle)
    /\ UNCHANGED <<MemoryVars, reasoning, unsaved, UsageVars, begun, checkins, forgotten, faults>>

\* The row of the reply, and HTTP 200.
StoreReply(t) ==
    /\ exchange[t].pc = "store_reply"
    /\ rows' = rows \cup {ReplyOf(exchange[t])}
    /\ Become(t, Idle)
    /\ UNCHANGED <<MemoryVars, reasoning, unsaved, UsageVars, begun, checkins, forgotten, faults>>

\* A database call raises: HTTP 500, and the browser gives the exchange up.
DatabaseFails(t) ==
    LET x == exchange[t]
    IN /\ x.pc \in {"store_question", "record", "record_failed", "store_reply"}
       /\ faults < MaxFaults
       /\ faults' = faults + 1
       /\ unsaved' = unsaved \cup (CASE x.pc = "store_question" -> {QuestionOf(x)}
                                     [] x.pc = "store_reply" -> {ReplyOf(x)}
                                     [] OTHER -> {})
       /\ blame' = IF x.pc \in {"record", "record_failed"}
                   THEN [blame EXCEPT ![x.key] = @ \cup {"usage"}] ELSE blame
       /\ Become(t, Idle)
       /\ UNCHANGED <<MemoryVars, reasoning, rows, recorded, daily, spent, begun, checkins, forgotten>>

---------------------------------------------------------------------------

\* A check-in of the proactive lane joins a chat's memory (ProactiveTick).
CheckIn(c) ==
    /\ checkins < MaxCheckIns
    /\ checkins' = checkins + 1
    /\ AppendSessionMessage(c, [exchange |-> 0, role |-> "assistant", origin |-> "student"])
    /\ UNCHANGED <<reasoning, RowVars, UsageVars, exchange, begun, forgotten, faults>>

\* Rows of chat.llm_usage get older than a day.
UsageLapses ==
    /\ faults < MaxFaults
    /\ faults' = faults + 1
    /\ \E d \in 0..daily : d < daily /\ daily' = d
    /\ UNCHANGED <<MemoryVars, reasoning, RowVars, recorded, spent, blame, exchange, begun,
                   checkins, forgotten>>

\* The process dies and comes back; a browser between its two requests goes on.
Restart ==
    /\ faults < MaxFaults
    /\ faults' = faults + 1
    /\ memory' = [c \in Chats |-> <<>>]
    /\ forgotten' = appended
    /\ reasoning' = {}
    /\ exchange' = [t \in Threads |-> IF exchange[t].pc = "check_session" THEN exchange[t]
                                      ELSE Idle]
    /\ blame' = [k \in Keys |->
                    IF \E t \in Threads : exchange[t].key = k /\ exchange[t].pc # "idle"
                    THEN blame[k] \cup {"restart"} ELSE blame[k]]
    /\ unsaved' = unsaved \cup
          {QuestionOf(exchange[t]) : t \in {u \in Threads : exchange[u].pc = "store_question"}}
          \cup {ReplyOf(exchange[t]) : t \in {u \in Threads : exchange[u].pc = "store_reply"}}
    /\ UNCHANGED <<rows, recorded, daily, begun, checkins, appended, spent>>

---------------------------------------------------------------------------

Advance(t) ==
    \/ StoreQuestion(t) \/ CheckSession(t) \/ CheckDaily(t) \/ Analyze(t) \/ Ask(t)
    \/ \E cost \in 1..MaxCost : Answer(t, cost) \/ Retry(t, cost) \/ EmptyAnswer(t, cost)
    \/ RecordUsage(t) \/ RememberReply(t) \/ StoreReply(t)

Next ==
    \/ \E t \in Threads :
          \/ \E k \in Keys, c \in Chats, m \in Models : CreateMessage(t, k, c, m)
          \/ Advance(t) \/ CallRaises(t) \/ DatabaseFails(t)
          \/ \E cost \in 1..MaxCost : NoChoice(t, cost)
    \/ \E c \in Chats : CheckIn(c)
    \/ UsageLapses
    \/ Restart

Spec == Init /\ [][Next]_vars

---------------------------------------------------------------------------

(* Exchanges past the check of their session's budget, and past both checks. *)
Passed == {"check_daily", "analyze", "ask", "call", "record", "record_failed"}
Admitted == Passed \ {"check_daily"}
PassedOf(k) == {t \in Threads : exchange[t].pc \in Passed /\ exchange[t].key = k}
AdmittedNow == {t \in Threads : exchange[t].pc \in Admitted}

Overrun == 2 * MaxCost * Cardinality(Threads)

(* A budget that is read before the calls and written after them is overrun  *)
(* by no more than the calls under way when it was reached (budget.py:51-57, *)
(* "a call already under way may run a little past the limit; the next one   *)
(* is refused"): two attempts for each thread that serves requests.          *)
OverspendBounded ==
    /\ \A k \in Keys : recorded[k] < SessionLimit + Overrun
    /\ daily < DailyLimit + Overrun

(* Tokens exchange t has spent and not recorded.  After a first attempt they *)
(* wait in execute_prompt, then in create_response.                          *)
Pending(t) == IF exchange[t].pc \in {"record", "record_failed"} THEN exchange[t].tokens
              ELSE exchange[t].first

\* What each exchange owes to key k, and their sum.
Owed(k) == [t \in Threads |-> IF exchange[t].key = k THEN Pending(t) ELSE 0]
PendingOf(k) == SumFunction(Owed(k))

(* Whatever the gateway reports is recorded for the browser that caused it,  *)
(* or about to be, unless the record failed, the process died, the second    *)
(* attempt raised or a completion had no choice (students.py:290-307).       *)
TokensAccounted ==
    \A k \in Keys : blame[k] = {} => spent[k] = recorded[k] + PendingOf(k)

(* docs/guides/configuration.md:64-65: "Every LLM call a browser triggers    *)
(* counts ... including calls that fail after spending tokens".              *)
EveryCallCounts ==
    \A k \in Keys : blame[k] \subseteq {"retry"} => spent[k] = recorded[k] + PendingOf(k)

OnRecord(name) ==
    \/ name \in rows \cup unsaved
    \/ \E t \in Threads :
          \/ exchange[t].pc = "store_question" /\ name = QuestionOf(exchange[t])
          \/ exchange[t].pc = "store_reply" /\ name = ReplyOf(exchange[t])

(* The turns a prompt shows are turns of its own chat and check-ins, each in *)
(* the transcript unless its row is the next thing its request writes or the *)
(* database refused it; and the question it answers is among them, unless    *)
(* newer turns fill the memory or a restart emptied it                       *)
(* (services/sessions.py:5-8, services/feedback.py:63-72, students.py:314-339*)
(* where the memory is written before the row).                              *)
PromptContext ==
    \A t \in Threads : exchange[t].pc = "call" =>
        LET x == exchange[t]
        IN /\ \A i \in DOMAIN x.prompt :
                 \/ x.prompt[i].name.exchange = 0
                 \/ x.prompt[i].name.origin = x.chat /\ OnRecord(x.prompt[i].name)
           /\ \/ \E i \in DOMAIN x.prompt :
                    x.prompt[i] = [n |-> x.question, name |-> QuestionOf(x)]
              \/ x.question <= forgotten[x.chat]
              \/ /\ Len(x.prompt) = MaxTurns
                 /\ \A i \in DOMAIN x.prompt : x.prompt[i].n > x.question

=============================================================================

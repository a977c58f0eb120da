----------------------------- MODULE OrderedLane -----------------------------
(***************************************************************************)
(* What the push lane promises the browsers.  Messages with numbers are    *)
(* published for students, not always in the order of the numbers.  While  *)
(* a browser is connected it is owed every message published in order to   *)
(* its student; what it is owed it gets, the smallest number first, and it *)
(* never gets one that is not beyond everything it already has.            *)
(***************************************************************************)
EXTENDS Integers, Sequences

CONSTANTS Browsers, Students, Owner

VARIABLES
    log,   \* log[s]: the numbers published for student s
    on,    \* the browsers that are connected
    owed,  \* owed[b]: what b is to get on this connection
    wire   \* wire[b]: what b got, over all its connections

Beyond(i, S) == \A j \in S : j < i

Received(b) == {wire[b][k] : k \in DOMAIN wire[b]}

Init ==
    /\ on = {}
    /\ owed = [b \in Browsers |-> {}]
    /\ wire = [b \in Browsers |-> <<>>]

\* A number that is published after a larger one need not be delivered.
Publish(s, i) ==
    /\ \A t \in Students : i \notin log[t]
    /\ log' = [log EXCEPT ![s] = @ \cup {i}]
    /\ \A b \in Browsers :
          /\ owed'[b] \in {owed[b], owed[b] \cup {i}}
          /\ Owner[b] = s /\ b \in on /\ Beyond(i, log[s]) => i \in owed'[b]
          /\ i \in owed'[b] => Owner[b] = s /\ b \in on /\ Beyond(i, Received(b))
    /\ UNCHANGED <<on, wire>>

Connect(b) ==
    /\ b \notin on
    /\ on' = on \cup {b}
    /\ UNCHANGED <<log, owed, wire>>

Deliver(b, i) ==
    /\ b \in on
    /\ Beyond(i, Received(b))
    /\ \A j \in owed[b] : i <= j
    /\ wire' = [wire EXCEPT ![b] = Append(@, i)]
    /\ owed' = [owed EXCEPT ![b] = @ \ {i}]
    /\ UNCHANGED <<log, on>>

\* A lost connection is the only way out of a debt.
Lose(b) ==
    /\ on' = on \ {b}
    /\ owed' = [owed EXCEPT ![b] = {}]
    /\ UNCHANGED <<log, wire>>

Next ==
    \/ \E s \in Students : \E i \in log'[s] : Publish(s, i)
    \/ \E b \in Browsers : \E i \in log[Owner[b]] : Deliver(b, i)
    \/ \E b \in Browsers : Connect(b) \/ Lose(b)

Spec == Init /\ [][Next]_<<log, on, owed, wire>>

=============================================================================

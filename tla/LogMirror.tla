----------------------------- MODULE LogMirror -----------------------------
(***************************************************************************)
(* What ingestion promises: a table that mirrors a growing feed of log     *)
(* records.  A fetch sees the records above a mark, received at a floor or *)
(* later.  The table takes only what the feed holds and keeps it, and mark *)
(* and floor move only where they leave no missing record out of reach.    *)
(***************************************************************************)
EXTENDS Integers

CONSTANT Records

VARIABLES feed, table, mark, floor

IdsIn(S) == {r.id : r \in S}

Missing == {r \in feed : r.id \notin table}

Reachable(r) == r.id > mark /\ r.recv >= floor

Init ==
    /\ feed \subseteq Records
    /\ table = IdsIn(feed)
    /\ mark \in Int
    /\ floor \in Int

Publish(r) ==
    /\ r.id \notin IdsIn(feed)
    /\ Reachable(r)
    /\ feed' = feed \cup {r}
    /\ UNCHANGED <<table, mark, floor>>

Copy ==
    /\ table \subseteq table'
    /\ table' \subseteq table \cup IdsIn(feed)
    /\ UNCHANGED <<feed, mark, floor>>

\* The mark never goes back; the floor may.
MoveOn ==
    /\ mark' \in Int /\ floor' \in Int
    /\ mark' >= mark
    /\ \A r \in Missing : Reachable(r)'
    /\ UNCHANGED <<feed, table>>

Next == (\E r \in Records : Publish(r)) \/ Copy \/ MoveOn

Spec == Init /\ [][Next]_<<feed, table, mark, floor>>

\* What a missing record can always count on.
NothingOutOfReach == \A r \in Missing : Reachable(r)

=============================================================================

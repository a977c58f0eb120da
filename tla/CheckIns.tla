------------------------------ MODULE CheckIns ------------------------------
(***************************************************************************)
(* What the proactive lane promises about one detected behaviour, a fire   *)
(* (a session and what was detected in it): it is claimed once, by one     *)
(* pass, and a claim ends in at most one message to the student.  A claim  *)
(* whose pass fails is dropped and never taken up again.                   *)
(***************************************************************************)
CONSTANT Fires

VARIABLE status

Statuses == {"unseen", "claimed", "sent", "dropped"}

Init == status = [f \in Fires |-> "unseen"]

Claim(f) == /\ status[f] = "unseen"
            /\ status' = [status EXCEPT ![f] = "claimed"]

Send(f) == /\ status[f] = "claimed"
           /\ status' = [status EXCEPT ![f] = "sent"]

Drop(F) == /\ \A f \in F : status[f] = "claimed"
           /\ status' = [f \in Fires |-> IF f \in F THEN "dropped" ELSE status[f]]

Next == \/ \E f \in Fires : Claim(f) \/ Send(f)
        \/ \E F \in SUBSET Fires : Drop(F)

Spec == Init /\ [][Next]_status

=============================================================================

-------------------------- MODULE MCFeedbackPolicy --------------------------
(* Model checking FeedbackPolicy: one unit of time is the length of every    *)
(* threshold that is not zero, so a list of four events reaches each rule.   *)
EXTENDS FeedbackPolicy

Event(type, playground, data, project) ==
    [type |-> type, playground |-> playground, data |-> data, project |-> project,
     pause |-> type = "runProject"]

Scored(n) == [score |-> n, milestones |-> {}]
Reached(M) == [score |-> NoScore, milestones |-> M]

MCArrivals ==
    {Event("projectEnd", GoMars, Scored(n), FALSE) : n \in {3, 4, 7}} \cup
    {Event("projectEnd", GoMars, Reached({}), FALSE),
     Event("runProject", GoMars, NoData, TRUE),
     Event("snap", GoMars, NoData, FALSE),
     Event("blockDeleted", GoMars, NoParameters, TRUE),
     Event("switch", GoMars, NoData, FALSE)} \cup
    {Event("runProject", p, Reached({"rover"}), TRUE) : p \in Elsewhere}

=============================================================================

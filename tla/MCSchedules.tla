---------------------------- MODULE MCSchedules ----------------------------
(***************************************************************************)
(* Schedules for TLC: three task definitions, all of the minute that the    *)
(* daily plan may take, one of them not reviewed.  A plan that is there at  *)
(* the start is of that minute; SetPlan gives it the other one.             *)
(***************************************************************************)
EXTENDS Schedules, TLC

MCInputs ==
    {[time |-> 1, daily |-> TRUE, action |-> "device.reboot"],
     [time |-> 1, daily |-> FALSE, action |-> "other"],
     [time |-> 1, daily |-> FALSE, action |-> "unreviewed"]}

MCInit == Init /\ (plan.enabled => plan.time = 1)

MCSpec == MCInit /\ [][Next]_vars

Symmetry == Permutations(Ids)
=============================================================================

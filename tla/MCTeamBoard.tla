----------------------------- MODULE MCTeamBoard -----------------------------
(* The task board, searched twice: with many revisions of the tasks, and    *)
(* with several versions of each plan.  A behaviour keeps to one of the two *)
(* bounds, so the state spaces add up.  Two members, one of them gated, and *)
(* two tasks.                                                               *)
EXTENDS TeamTasks, TLC

CONSTANTS m1, m2, t1, t2

VARIABLE bounds

Plans == INSTANCE TeamTasks WITH MaxRevision <- 2, MaxPlans <- 2

BoardInit == bounds \in {"revisions", "plans"} /\ Init

BoardNext ==
    \/ bounds = "revisions" /\ Next /\ UNCHANGED bounds
    \/ bounds = "plans" /\ Plans!Next /\ UNCHANGED bounds

BoardSpec == BoardInit /\ [][BoardNext]_<<vars, bounds>>

Symmetry == Permutations({t1, t2})
=============================================================================
